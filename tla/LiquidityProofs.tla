---------------------------- MODULE LiquidityProofs ----------------------------
(***************************************************************************)
(* Deposits alone: the DepositVault can pay every one of them, and the     *)
(* DepositHandler implements RequestEscrow, also when the two sides of a   *)
(* deposit are one token or a side is the token of the execution fee.      *)
(* Deposits and withdrawals that interleave: both vaults cover their       *)
(* requests, the supply of market tokens adds up, the tokens locked by the *)
(* first deposit stay, and the WithdrawalVault implements RequestEscrow.   *)
(* Whatever the users, keepers, tokens, amounts, fees and bounds are.      *)
(***************************************************************************)
EXTENDS Liquidity, SumProofs

(* What the operations of a vault do to its balance and its record. *)

\* Recording: one token's record becomes its balance.
LEMMA RecordTransferInBank ==
  ASSUME NEW bank \in Bank, NEW token \in Tokens
  PROVE  LET after == RecordTransferIn(bank, token) IN
         /\ after \in Bank
         /\ after.balance = bank.balance
         /\ after.recorded[token] = bank.balance[token]
         /\ \A t \in Tokens \ {token} : after.recorded[t] = bank.recorded[t]
BY DEF RecordTransferIn, Bank

\* A transfer out takes its amount from the balance and records what is left.
LEMMA TransferOutBank ==
  ASSUME NEW bank \in Bank, NEW token \in Tokens, NEW amount \in Nat,
         amount <= bank.balance[token]
  PROVE  LET after == TransferOut(bank, token, amount) IN
         /\ after \in Bank
         /\ after.balance[token] = bank.balance[token] - amount
         /\ after.recorded[token] = bank.balance[token] - amount
         /\ \A t \in Tokens \ {token} : /\ after.balance[t] = bank.balance[t]
                                        /\ after.recorded[t] = bank.recorded[t]
<1>1. bank.balance[token] - amount \in Nat  BY DEF Bank
<1> QED BY <1>1 DEF TransferOut, Bank

\* Paying an execution fee transfers the fee out, whole, however it is split
\* between the keeper and the refund.
LEMMA PayExecutionFeeBank ==
  ASSUME NEW bank \in Bank, NEW fee \in Nat, NEW gasCost \in Nat,
         fee <= bank.balance[Wnt]
  PROVE  PayExecutionFee(bank, fee, gasCost) = TransferOut(bank, Wnt, fee)
<1> DEFINE keeper == IF gasCost > fee THEN fee ELSE gasCost
           paid   == TransferOut(bank, Wnt, keeper)
<1>1. /\ Wnt \in Tokens /\ bank.balance[Wnt] \in Nat
      /\ keeper \in Nat /\ keeper <= fee /\ fee - keeper \in Nat
  BY WntAssumption DEF Bank
<1>2. PayExecutionFee(bank, fee, gasCost)
        = IF fee - keeper = 0 THEN paid ELSE TransferOut(paid, Wnt, fee - keeper)
  BY DEF PayExecutionFee
<1> HIDE DEF keeper
<1>3. CASE fee - keeper = 0
  BY <1>1, <1>2, <1>3
<1>4. CASE fee - keeper # 0
  <2>1. /\ bank.balance \in [Tokens -> Nat] /\ bank.recorded \in [Tokens -> Nat]
        /\ bank.balance[Wnt] - keeper - (fee - keeper) = bank.balance[Wnt] - fee
    BY <1>1 DEF Bank
  <2> QED BY <1>1, <1>2, <1>4, <2>1 DEF TransferOut
<1> QED BY <1>3, <1>4

\* Functions that differ at one key have totals that differ by as much.
LEMMA TotalChange ==
  ASSUME NEW n \in Nat, NEW f \in [1..n -> Nat], NEW g \in [1..n -> Nat],
         NEW k \in 1..n, \A j \in 1..n : j # k => g[j] = f[j]
  PROVE  Total(g, n) = Total(f, n) - f[k] + g[k]
<1>1. g = [f EXCEPT ![k] = g[k]]  OBVIOUS
<1>2. f \in [1..n -> Int] /\ g[k] \in Int  OBVIOUS
<1>3. Total([f EXCEPT ![k] = g[k]], n) = Total(f, n) - f[k] + g[k]
  BY <1>2, TotalUpdate
<1> QED BY <1>1, <1>3

USE RequestVaultAssumption, DepositHandlerAssumption, WntAssumption

\* A key whose deposit is not pending has no deposit at all: a key not given out,
\* one that is settled, and one whose transaction is in its callback.
SettledKeysAreEmpty ==
  /\ call.key <= nonce
  /\ call.key # 0 => guard = "ENTERED"
  /\ call.key # 0 => deposits[call.key] = EmptyDeposit
  /\ \A k \in Keys :
       /\ k > nonce => deposits[k] = EmptyDeposit
       /\ \/ deposits[k] = EmptyDeposit
          \/ /\ deposits[k].account # NoAddress
             /\ deposits[k].initialLongToken \in Tokens
             /\ deposits[k].initialShortToken \in Tokens

BalancesAreBounded == \A t \in Tokens : vault.balance[t] <= MaxBalance

\* The inductive invariant.
IInv == /\ DepositTypeOK /\ VaultCoversDeposits
        /\ SettledKeysAreEmpty /\ BalancesAreBounded

\* What a side of a deposit brings of a token, and what both do.
Side(side, amount, t) == IF side = t THEN amount ELSE 0
Sides(deposit, t) ==
  Side(deposit.initialLongToken, deposit.initialLongTokenAmount, t)
  + Side(deposit.initialShortToken, deposit.initialShortTokenAmount, t)

-----------------------------------------------------------------------------
(* What the vault holds for the keys. *)

LEMMA EscrowOfFacts ==
  ASSUME NEW deposit \in Deposit, NEW t \in Tokens
  PROVE  /\ Sides(deposit, t) \in Nat /\ FeeIn(deposit.executionFee, t) \in Nat
         /\ EscrowOf(deposit, t) = Sides(deposit, t) + FeeIn(deposit.executionFee, t)
         /\ EscrowOf(deposit, t) \in Nat
BY DEF EscrowOf, Sides, Side, FeeIn, Deposit

LEMMA EmptyDepositFacts ==
  /\ EmptyDeposit \in Deposit /\ EmptyDeposit.account = NoAddress
  /\ \A t \in Tokens : EscrowOf(EmptyDeposit, t) = 0
BY DEF EscrowOf, FeeIn, Deposit, EmptyDeposit

LEMMA HeldNat ==
  ASSUME DepositTypeOK, NEW t \in Tokens
  PROVE  Held(t) \in [Keys -> Nat]
<1>1. \A k \in Keys : EscrowOf(deposits[k], t) \in Nat
  BY EscrowOfFacts DEF DepositTypeOK
<1>2. FeeIn(call.executionFee, t) \in Nat
  BY DEF DepositTypeOK, VaultTypeOK, Call, FeeIn
<1> QED BY <1>1, <1>2 DEF Held

\* What is held for a key that no transaction is settling, and for the one it is.
LEMMA HeldValues ==
  ASSUME DepositTypeOK, NEW t \in Tokens, NEW k \in Keys
  PROVE  /\ call.key = 0 => Held(t)[k] = EscrowOf(deposits[k], t)
         /\ call.key = k =>
              Held(t)[k] = EscrowOf(deposits[k], t) + FeeIn(call.executionFee, t)
<1>1. EscrowOf(deposits[k], t) \in Nat  BY EscrowOfFacts DEF DepositTypeOK
<1> QED BY <1>1 DEF Held, Keys

LEMMA HeldValuesNext ==
  ASSUME DepositTypeOK', NEW t \in Tokens, NEW k \in Keys
  PROVE  /\ call'.key = 0 => Held(t)'[k] = EscrowOf(deposits'[k], t)
         /\ call'.key = k =>
              Held(t)'[k] = EscrowOf(deposits'[k], t) + FeeIn(call'.executionFee, t)
<1>1. EscrowOf(deposits'[k], t) \in Nat  BY EscrowOfFacts DEF DepositTypeOK
<1> QED BY <1>1 DEF Held, Keys

\* A step about one key changes the total by what it changes for that key.
LEMMA HeldStep ==
  ASSUME DepositTypeOK, DepositTypeOK', NEW t \in Tokens, NEW k \in Keys,
         \A j \in Keys \ {k} : deposits'[j] = deposits[j],
         call.key \in {0, k}, call'.key \in {0, k}
  PROVE  /\ Held(t)[k] \in Nat /\ Held(t)'[k] \in Nat
         /\ Total(Held(t), MaxNonce) \in Nat
         /\ Total(Held(t), MaxNonce)' \in Nat
         /\ Held(t)[k] <= Total(Held(t), MaxNonce)
         /\ Total(Held(t), MaxNonce)'
              = Total(Held(t), MaxNonce) - Held(t)[k] + Held(t)'[k]
<1> DEFINE f == Held(t)
           g == Held(t)'
<1>1. f \in [Keys -> Nat]  BY HeldNat
<1>2. g \in [Keys -> Nat]
  <2>1. \A j \in Keys : EscrowOf(deposits'[j], t) \in Nat
    BY EscrowOfFacts DEF DepositTypeOK
  <2>2. FeeIn(call'.executionFee, t) \in Nat
    BY DEF DepositTypeOK, VaultTypeOK, Call, FeeIn
  <2> QED BY <2>1, <2>2 DEF Held
<1>3. \A j \in Keys \ {k} : g[j] = f[j]
  BY DEF Held, Keys
<1> HIDE DEF f, g
<1>5. MaxNonce \in Nat /\ Keys = 1..MaxNonce  BY DEF Keys
<1>6. f \in [1..MaxNonce -> Nat] /\ g \in [1..MaxNonce -> Nat] /\ k \in 1..MaxNonce
  BY <1>1, <1>2, <1>5
<1>7. Total(g, MaxNonce) = Total(f, MaxNonce) - f[k] + g[k]
  <2>1. \A j \in 1..MaxNonce : j # k => g[j] = f[j]  BY <1>3, <1>5
  <2>2. MaxNonce \in Nat  BY <1>5
  <2> QED BY ONLY <2>1, <2>2, <1>6, TotalChange
<1>8. /\ Total(f, MaxNonce) \in Nat /\ Total(g, MaxNonce) \in Nat
      /\ f[k] <= Total(f, MaxNonce)
  BY <1>5, <1>6, TotalBounds
<1>9. Total(Held(t), MaxNonce)' = Total(g, MaxNonce)  BY DEF g
<1> QED BY <1>1, <1>2, <1>7, <1>8, <1>9 DEF f, g

\* A key is covered by the vault: its tokens and its fee can be paid out.
LEMMA KeyIsCovered ==
  ASSUME IInv, NEW k \in Keys, NEW t \in Tokens
  PROVE  /\ Held(t)[k] \in Nat /\ Held(t)[k] <= vault.recorded[t]
         /\ vault.recorded[t] <= vault.balance[t]
         /\ vault.recorded[t] \in Nat /\ vault.balance[t] \in Nat
<1>1. Held(t) \in [1..MaxNonce -> Nat] /\ MaxNonce \in Nat /\ k \in 1..MaxNonce
  BY HeldNat DEF IInv, Keys
<1>2. Total(Held(t), MaxNonce) \in Nat /\ Held(t)[k] <= Total(Held(t), MaxNonce)
  BY <1>1, TotalBounds
<1>3. /\ Total(Held(t), MaxNonce) <= vault.recorded[t]
      /\ vault.recorded[t] <= vault.balance[t]
      /\ vault.recorded[t] \in Nat /\ vault.balance[t] \in Nat
  BY DEF IInv, VaultCoversDeposits, DepositTypeOK, VaultTypeOK, Bank
<1>4. Held(t)[k] \in Nat  BY <1>1
<1> HIDE DEF Held
<1> QED BY <1>2, <1>3, <1>4

\* The invariant after a step about one key.
LEMMA KeyStep ==
  ASSUME IInv, DepositTypeOK', NEW k \in Keys, k <= nonce', nonce <= nonce',
         \A j \in Keys \ {k} : deposits'[j] = deposits[j],
         call.key \in {0, k}, call'.key \in {0, k},
         call'.key # 0 => guard' = "ENTERED",
         call'.key # 0 => deposits'[k] = EmptyDeposit,
         \/ deposits'[k] = EmptyDeposit
         \/ /\ deposits'[k].account # NoAddress
            /\ deposits'[k].initialLongToken \in Tokens
            /\ deposits'[k].initialShortToken \in Tokens,
         \A t \in Tokens :
           /\ vault'.recorded[t] <= vault'.balance[t]
           /\ vault'.balance[t] <= MaxBalance
           /\ Held(t)'[k] - Held(t)[k] <= vault'.recorded[t] - vault.recorded[t]
  PROVE  IInv'
<1>1. ASSUME NEW t \in Tokens
      PROVE  Total(Held(t), MaxNonce)' <= vault'.recorded[t]
  <2>1. /\ Held(t)[k] \in Nat /\ Held(t)'[k] \in Nat
        /\ Total(Held(t), MaxNonce) \in Nat
        /\ Total(Held(t), MaxNonce)' \in Nat
        /\ Total(Held(t), MaxNonce)'
             = Total(Held(t), MaxNonce) - Held(t)[k] + Held(t)'[k]
    BY HeldStep DEF IInv
  <2>2. Total(Held(t), MaxNonce) <= vault.recorded[t]
    BY DEF IInv, VaultCoversDeposits
  <2>3. vault.recorded[t] \in Nat /\ vault'.recorded[t] \in Nat
    BY DEF IInv, DepositTypeOK, VaultTypeOK, Bank
  <2>4. Held(t)'[k] - Held(t)[k] <= vault'.recorded[t] - vault.recorded[t]
    OBVIOUS
  <2> HIDE DEF Held
  <2> QED BY <2>1, <2>2, <2>3, <2>4
<1>2. VaultCoversDeposits'  BY <1>1 DEF VaultCoversDeposits
<1>3. BalancesAreBounded'  BY DEF BalancesAreBounded
<1>4. k \in Nat /\ k # 0 /\ nonce \in Nat /\ nonce' \in Nat
  BY DEF IInv, DepositTypeOK, VaultTypeOK, Keys
<1>5. ASSUME NEW j \in Keys
      PROVE  /\ j > nonce' => deposits'[j] = EmptyDeposit
             /\ \/ deposits'[j] = EmptyDeposit
                \/ /\ deposits'[j].account # NoAddress
                   /\ deposits'[j].initialLongToken \in Tokens
                   /\ deposits'[j].initialShortToken \in Tokens
  <2>1. CASE j = k  BY <1>4, <2>1
  <2>2. CASE j # k
    <3>1. deposits'[j] = deposits[j]  BY <2>2
    <3>2. j > nonce' => j > nonce  BY <1>4 DEF Keys
    <3> QED BY <3>1, <3>2 DEF IInv, SettledKeysAreEmpty
  <2> QED BY <2>1, <2>2
<1>6. SettledKeysAreEmpty'  BY <1>4, <1>5 DEF SettledKeysAreEmpty
<1> QED BY <1>2, <1>3, <1>6 DEF IInv

-----------------------------------------------------------------------------
(* The state and the steps of the escrow. *)

heldNow  == [t \in Tokens |-> Held(t)]
phaseNow == [k \in Keys |-> phaseOf(k)]

\* A key is open: its deposit is pending, or in the transaction in progress.
IsOpen(k) == k <= nonce /\ (deposits[k].account # NoAddress \/ call.key = k)

LEMMA PhaseValues ==
  ASSUME NEW k \in Keys, nonce \in Nat
  PROVE  /\ k > nonce => phaseNow[k] = "unused"
         /\ IsOpen(k) => phaseNow[k] = "open"
         /\ k <= nonce /\ ~ IsOpen(k) => phaseNow[k] = "closed"
<1>1. k \in Nat  BY DEF Keys
<1>2. k > nonce <=> ~ (k <= nonce)  BY <1>1
<1>3. phaseNow[k] = phaseOf(k)  BY DEF phaseNow
<1> QED BY <1>2, <1>3 DEF phaseOf, IsOpen, Waiting

LEMMA PhaseValuesNext ==
  ASSUME NEW k \in Keys, nonce' \in Nat
  PROVE  /\ IsOpen(k)' => phaseOf(k)' = "open"
         /\ k <= nonce' /\ ~ IsOpen(k)' => phaseOf(k)' = "closed"
<1>1. k \in Nat  BY DEF Keys
<1>2. k > nonce' <=> ~ (k <= nonce')  BY <1>1
<1> QED BY <1>2 DEF phaseOf, IsOpen, Waiting

\* A step about one key changes what is held for it, and its phase, only.
LEMMA OneKeyChanges ==
  ASSUME DepositTypeOK, DepositTypeOK', NEW k \in Keys,
         \A j \in Keys \ {k} : deposits'[j] = deposits[j],
         call.key \in {0, k}, call'.key \in {0, k},
         nonce' = nonce \/ (nonce' = nonce + 1 /\ k = nonce + 1)
  PROVE  /\ \A t \in Tokens : heldNow'[t] = [heldNow[t] EXCEPT ![k] = Held(t)'[k]]
         /\ \A t \in Tokens : heldNow[t][k] = Held(t)[k]
         /\ phaseNow' = [phaseNow EXCEPT ![k] = phaseOf(k)']
<1>1. ASSUME NEW t \in Tokens
      PROVE  /\ heldNow'[t] = [heldNow[t] EXCEPT ![k] = Held(t)'[k]]
             /\ heldNow[t][k] = Held(t)[k]
  <2>1. heldNow[t] = Held(t) /\ heldNow'[t] = Held(t)'  BY DEF heldNow
  <2>2. \A j \in Keys \ {k} : Held(t)'[j] = Held(t)[j]  BY DEF Held, Keys
  <2> QED BY <2>1, <2>2 DEF Held
<1>2. ASSUME NEW j \in Keys \ {k} PROVE phaseOf(j)' = phaseOf(j)
  <2>1. j \in Nat /\ j # 0 /\ nonce \in Nat /\ (j > nonce' <=> j > nonce)
        /\ (j <= nonce' <=> j <= nonce)
    BY DEF Keys, DepositTypeOK, VaultTypeOK
  <2>2. deposits'[j] = deposits[j] /\ call.key # j /\ call'.key # j  BY <2>1
  <2> QED BY <2>1, <2>2 DEF phaseOf, Waiting
<1>3. phaseNow' = [phaseNow EXCEPT ![k] = phaseOf(k)']
  <2>1. phaseNow' = [j \in Keys |-> phaseOf(j)']  BY DEF phaseNow
  <2> QED BY <1>2, <2>1 DEF phaseNow
<1> QED BY <1>1, <1>3

LEMMA EscrowTotal == \A f, n : Escrow!Total(f, n) = Total(f, n)
BY DEF Total, Escrow!Total, PrefixSum, Escrow!PrefixSum

\* A new key takes tokens that had arrived.
LEMMA OpenStep ==
  ASSUME IInv, IInv', NEW k \in Keys, k = nonce + 1, nonce' = nonce + 1,
         \A j \in Keys \ {k} : deposits'[j] = deposits[j],
         call.key = 0, call'.key = 0, IsOpen(k)',
         vault'.balance = vault.balance
  PROVE  Escrow!Next
<1> DEFINE amounts == [t \in Tokens |-> Held(t)'[k]]
<1>1. DepositTypeOK /\ DepositTypeOK' /\ nonce \in Nat /\ nonce' \in Nat /\ k > nonce
  BY DEF IInv, DepositTypeOK, VaultTypeOK
<1>2. /\ \A t \in Tokens : heldNow'[t] = [heldNow[t] EXCEPT ![k] = Held(t)'[k]]
      /\ phaseNow' = [phaseNow EXCEPT ![k] = phaseOf(k)']
  BY <1>1, OneKeyChanges
<1>3. phaseNow[k] = "unused"  BY <1>1, PhaseValues
<1>4. phaseOf(k)' = "open"  BY <1>1, PhaseValuesNext
<1>5. ASSUME NEW t \in Tokens
      PROVE  amounts[t] \in 0..MaxBalance /\ amounts[t] <= Escrow!Free(t)
  <2>1. deposits[k] = EmptyDeposit  BY <1>1 DEF IInv, SettledKeysAreEmpty
  <2>2. Held(t)[k] = 0  BY <1>1, <2>1, HeldValues, EmptyDepositFacts
  <2>3. amounts[t] = Held(t)'[k]  OBVIOUS
  <2>4. Escrow!Free(t) = vault.balance[t] - Total(Held(t), MaxNonce)
    BY EscrowTotal DEF Escrow!Free
  <2>5. /\ Held(t)'[k] \in Nat
        /\ Total(Held(t), MaxNonce) \in Nat /\ Total(Held(t), MaxNonce)' \in Nat
        /\ Total(Held(t), MaxNonce)' = Total(Held(t), MaxNonce) - Held(t)[k] + Held(t)'[k]
    BY <1>1, HeldStep
  <2>6. /\ Total(Held(t), MaxNonce)' <= vault'.recorded[t]
        /\ vault'.recorded[t] <= vault'.balance[t] /\ vault'.balance[t] <= MaxBalance
    BY DEF IInv, VaultCoversDeposits, BalancesAreBounded
  <2>7. /\ vault.balance[t] \in Nat /\ vault'.recorded[t] \in Nat
        /\ vault'.balance[t] = vault.balance[t] /\ MaxBalance \in Nat
    BY <1>1 DEF DepositTypeOK, VaultTypeOK, Bank
  <2> HIDE DEF amounts, Held
  <2> QED BY <2>2, <2>3, <2>4, <2>5, <2>6, <2>7
<1>6. amounts \in [Tokens -> Escrow!Amounts]  BY <1>5 DEF Escrow!Amounts
<1>7. heldNow' = [t \in Tokens |-> [heldNow[t] EXCEPT ![k] = amounts[t]]]
  BY <1>2 DEF heldNow
<1>8. k \in Escrow!Keys  BY DEF Keys, Escrow!Keys
<1> HIDE DEF amounts
<1>9. Escrow!Open(k, amounts)
  BY <1>2, <1>3, <1>4, <1>5, <1>7 DEF Escrow!Open, heldNow, phaseNow
<1> QED BY <1>6, <1>8, <1>9 DEF Escrow!Next

\* An open key pays out some of its tokens, and stays open or has none left.
LEMMA ReleaseStep ==
  ASSUME IInv, IInv', NEW k \in Keys, nonce' = nonce,
         \A j \in Keys \ {k} : deposits'[j] = deposits[j],
         call.key \in {0, k}, call'.key \in {0, k}, IsOpen(k),
         \A t \in Tokens :
           /\ Held(t)'[k] <= Held(t)[k]
           /\ vault'.balance[t] = vault.balance[t] - (Held(t)[k] - Held(t)'[k]),
         IsOpen(k)' \/ \A t \in Tokens : Held(t)'[k] = 0
  PROVE  Escrow!Next
<1> DEFINE amounts == [t \in Tokens |-> Held(t)[k] - Held(t)'[k]]
<1>1. DepositTypeOK /\ DepositTypeOK' /\ nonce \in Nat /\ nonce' \in Nat
  BY DEF IInv, DepositTypeOK, VaultTypeOK
<1>2. /\ \A t \in Tokens : heldNow'[t] = [heldNow[t] EXCEPT ![k] = Held(t)'[k]]
      /\ \A t \in Tokens : heldNow[t][k] = Held(t)[k]
      /\ phaseNow' = [phaseNow EXCEPT ![k] = phaseOf(k)']
  BY <1>1, OneKeyChanges
<1>3. phaseNow[k] = "open"  BY <1>1, PhaseValues
<1>4. ASSUME NEW t \in Tokens
      PROVE  /\ amounts[t] \in 0..MaxBalance
             /\ amounts[t] <= heldNow[t][k]
             /\ vault'.balance[t] = vault.balance[t] - amounts[t]
             /\ Held(t)'[k] = heldNow[t][k] - amounts[t]
             /\ Held(t)'[k] = 0 => amounts[t] = heldNow[t][k]
  <2>1. Held(t)[k] \in Nat /\ Held(t)'[k] \in Nat  BY <1>1, HeldStep
  <2>2. /\ Held(t)'[k] <= Held(t)[k]
        /\ vault'.balance[t] = vault.balance[t] - (Held(t)[k] - Held(t)'[k])
    OBVIOUS
  <2>3. /\ vault.balance[t] \in Nat /\ vault'.balance[t] \in Nat
        /\ vault.balance[t] <= MaxBalance /\ MaxBalance \in Nat
    BY <1>1 DEF DepositTypeOK, VaultTypeOK, Bank, IInv, BalancesAreBounded
  <2>4. amounts[t] = Held(t)[k] - Held(t)'[k]  OBVIOUS
  <2>5. heldNow[t][k] = Held(t)[k]  BY <1>2
  <2> HIDE DEF amounts, Held
  <2> QED BY <2>1, <2>2, <2>3, <2>4, <2>5
<1>6. amounts \in [Tokens -> Escrow!Amounts]  BY <1>4 DEF Escrow!Amounts
<1>7. vault'.balance = [t \in Tokens |-> vault.balance[t] - amounts[t]]
  <2>1. vault'.balance = [t \in Tokens |-> vault'.balance[t]]
    BY <1>1 DEF DepositTypeOK, VaultTypeOK, Bank
  <2> HIDE DEF amounts
  <2> QED BY <2>1, <1>4
<1>8. heldNow' = [t \in Tokens |-> [heldNow[t] EXCEPT ![k] = @ - amounts[t]]]
  <2>1. heldNow' = [t \in Tokens |-> heldNow'[t]]  BY DEF heldNow
  <2>2. ASSUME NEW t \in Tokens
        PROVE  heldNow'[t] = [heldNow[t] EXCEPT ![k] = @ - amounts[t]]
    <3>1. Held(t)'[k] = heldNow[t][k] - amounts[t]  BY <1>4
    <3> HIDE DEF amounts, Held
    <3> QED BY <3>1, <1>2
  <2> HIDE DEF amounts
  <2> QED BY <2>1, <2>2
<1>9. \/ UNCHANGED phaseNow
      \/ /\ \A t \in Tokens : amounts[t] = heldNow[t][k]
         /\ phaseNow' = [phaseNow EXCEPT ![k] = "closed"]
  <2>1. CASE IsOpen(k)'
    <3>1. phaseOf(k)' = "open"  BY <1>1, <2>1, PhaseValuesNext
    <3>2. UNCHANGED phaseNow  BY <3>1, <1>2, <1>3 DEF phaseNow
    <3> QED BY <3>2
  <2>2. CASE ~ IsOpen(k)'
    <3>1. k <= nonce'  BY DEF IsOpen
    <3>2. phaseOf(k)' = "closed"  BY <1>1, <2>2, <3>1, PhaseValuesNext
    <3>3. \A t \in Tokens : amounts[t] = heldNow[t][k]  BY <1>4, <2>2
    <3> QED BY <3>2, <3>3, <1>2
  <2> QED BY <2>1, <2>2
<1> HIDE DEF amounts
<1>10. Escrow!Release(k, amounts)
  BY <1>3, <1>4, <1>7, <1>8, <1>9 DEF Escrow!Release, heldNow, phaseNow
<1>11. k \in Escrow!Keys  BY DEF Keys, Escrow!Keys
<1> QED BY <1>6, <1>10, <1>11 DEF Escrow!Next

-----------------------------------------------------------------------------
(* The vault. *)

\* What a transfer of one side does to every token.
LEMMA TransferOutIfAnyBank ==
  ASSUME NEW bank \in Bank, NEW token, NEW amount \in Nat,
         amount = 0 \/ (token \in Tokens /\ amount <= bank.balance[token]),
         \A t \in Tokens : bank.recorded[t] <= bank.balance[t]
  PROVE  LET after == TransferOutIfAny(bank, token, amount) IN
         /\ after \in Bank
         /\ \A t \in Tokens :
              /\ after.balance[t] = bank.balance[t] - Side(token, amount, t)
              /\ after.recorded[t] <= after.balance[t]
              /\ bank.recorded[t] - after.recorded[t] <= Side(token, amount, t)
<1> DEFINE after == TransferOutIfAny(bank, token, amount)
           moved == TransferOut(bank, token, amount)
<1>1. \A t \in Tokens : bank.balance[t] \in Nat /\ bank.recorded[t] \in Nat
  BY DEF Bank
<1>2. CASE amount = 0
  <2>1. after = bank  BY <1>2 DEF TransferOutIfAny
  <2>2. \A t \in Tokens : Side(token, amount, t) = 0  BY <1>2 DEF Side
  <2> HIDE DEF after
  <2> QED BY <1>1, <2>1, <2>2 DEF after
<1>3. CASE amount # 0
  <2>1. after = moved  BY <1>3 DEF TransferOutIfAny
  <2>2. token \in Tokens /\ amount <= bank.balance[token]  BY <1>3
  <2>3. /\ moved \in Bank
        /\ moved.balance[token] = bank.balance[token] - amount
        /\ moved.recorded[token] = bank.balance[token] - amount
        /\ \A t \in Tokens \ {token} : /\ moved.balance[t] = bank.balance[t]
                                       /\ moved.recorded[t] = bank.recorded[t]
    BY <2>2, TransferOutBank
  <2> HIDE DEF moved, after
  <2>4. ASSUME NEW t \in Tokens
        PROVE  /\ after.balance[t] = bank.balance[t] - Side(token, amount, t)
               /\ after.recorded[t] <= after.balance[t]
               /\ bank.recorded[t] - after.recorded[t] <= Side(token, amount, t)
    <3>1. CASE t = token  BY <3>1, <1>1, <2>1, <2>2, <2>3 DEF Side
    <3>2. CASE t # token  BY <3>2, <1>1, <2>1, <2>3 DEF Side
    <3> QED BY <3>1, <3>2
  <2> QED BY <2>1, <2>3, <2>4 DEF after
<1> QED BY <1>2, <1>3

\* A deposit's two sides leave the vault, and nothing else of it.
LEMMA SendDepositOutBank ==
  ASSUME IInv, NEW key \in Keys, call.key = 0, SendDepositOut(deposits[key])
  PROVE  /\ vault' \in Bank
         /\ \A t \in Tokens :
              /\ vault'.balance[t] = vault.balance[t] - Sides(deposits[key], t)
              /\ vault'.recorded[t] <= vault'.balance[t]
              /\ vault.recorded[t] - vault'.recorded[t] <= Sides(deposits[key], t)
<1> DEFINE deposit   == deposits[key]
           long      == deposit.initialLongToken
           short     == deposit.initialShortToken
           longs     == deposit.initialLongTokenAmount
           shorts    == deposit.initialShortTokenAmount
           afterLong == TransferOutIfAny(vault, long, longs)
           after     == TransferOutIfAny(afterLong, short, shorts)
<1>1. deposit \in Deposit /\ longs \in Nat /\ shorts \in Nat
  BY DEF IInv, DepositTypeOK, Deposit
<1>2. vault \in Bank  BY DEF IInv, DepositTypeOK, VaultTypeOK
<1>3. ASSUME NEW t \in Tokens
      PROVE  /\ vault.balance[t] \in Nat /\ vault.recorded[t] \in Nat
             /\ vault.recorded[t] <= vault.balance[t]
             /\ Sides(deposit, t) = Side(long, longs, t) + Side(short, shorts, t)
             /\ Side(long, longs, t) \in Nat /\ Side(short, shorts, t) \in Nat
             /\ Sides(deposit, t) <= vault.balance[t]
  <2>1. /\ Held(t)[key] <= vault.recorded[t] /\ Held(t)[key] \in Nat
        /\ vault.recorded[t] <= vault.balance[t]
        /\ vault.recorded[t] \in Nat /\ vault.balance[t] \in Nat
    BY KeyIsCovered
  <2>2. Held(t)[key] = EscrowOf(deposit, t)  BY HeldValues DEF IInv
  <2>3. /\ Sides(deposit, t) \in Nat /\ FeeIn(deposit.executionFee, t) \in Nat
        /\ EscrowOf(deposit, t) = Sides(deposit, t) + FeeIn(deposit.executionFee, t)
    BY <1>1, EscrowOfFacts
  <2>4. Side(long, longs, t) \in Nat /\ Side(short, shorts, t) \in Nat
    BY <1>1 DEF Side
  <2>5. Sides(deposit, t) = Side(long, longs, t) + Side(short, shorts, t)
    BY DEF Sides
  <2> HIDE DEF deposit, long, longs, short, shorts, Held
  <2> QED BY <2>1, <2>2, <2>3, <2>4, <2>5
<1>4. \/ longs = 0 /\ shorts = 0
      \/ long \in Tokens /\ short \in Tokens
  BY DEF IInv, SettledKeysAreEmpty, EmptyDeposit
<1>5. vault' = after  BY DEF SendDepositOut
<1> HIDE DEF deposit, long, longs, short, shorts
<1>6. longs = 0 \/ (long \in Tokens /\ longs <= vault.balance[long])
  <2> SUFFICES ASSUME longs # 0 PROVE long \in Tokens /\ longs <= vault.balance[long]
    OBVIOUS
  <2>1. long \in Tokens  BY <1>4
  <2>2. Side(long, longs, long) = longs  BY DEF Side
  <2> QED BY <2>1, <2>2, <1>1, <1>3
<1>7. /\ afterLong \in Bank
      /\ \A t \in Tokens :
           /\ afterLong.balance[t] = vault.balance[t] - Side(long, longs, t)
           /\ afterLong.recorded[t] <= afterLong.balance[t]
           /\ vault.recorded[t] - afterLong.recorded[t] <= Side(long, longs, t)
  BY <1>1, <1>2, <1>3, <1>6, TransferOutIfAnyBank
<1> HIDE DEF afterLong
<1>8. shorts = 0 \/ (short \in Tokens /\ shorts <= afterLong.balance[short])
  <2> SUFFICES ASSUME shorts # 0
               PROVE  short \in Tokens /\ shorts <= afterLong.balance[short]
    OBVIOUS
  <2>1. short \in Tokens  BY <1>4
  <2>2. Side(short, shorts, short) = shorts  BY DEF Side
  <2> QED BY <2>1, <2>2, <1>1, <1>3, <1>7
<1>9. /\ after \in Bank
      /\ \A t \in Tokens :
           /\ after.balance[t] = afterLong.balance[t] - Side(short, shorts, t)
           /\ after.recorded[t] <= after.balance[t]
           /\ afterLong.recorded[t] - after.recorded[t] <= Side(short, shorts, t)
  BY <1>1, <1>7, <1>8, TransferOutIfAnyBank
<1> HIDE DEF after
<1>10. ASSUME NEW t \in Tokens
       PROVE  /\ after.balance[t] = vault.balance[t] - Sides(deposit, t)
              /\ after.recorded[t] <= after.balance[t]
              /\ vault.recorded[t] - after.recorded[t] <= Sides(deposit, t)
  <2>1. /\ after.recorded[t] \in Nat /\ afterLong.recorded[t] \in Nat
        /\ after.balance[t] \in Nat /\ afterLong.balance[t] \in Nat
    BY <1>7, <1>9 DEF Bank
  <2> QED BY <2>1, <1>3, <1>7, <1>9
<1> QED BY <1>5, <1>9, <1>10 DEF deposit

\* What createDeposit records of each token is what it writes into the deposit.
LEMMA CreateDepositBank ==
  ASSUME NEW bank \in Bank, NEW long \in Tokens, NEW short \in Tokens,
         \A t \in Tokens : bank.recorded[t] <= bank.balance[t]
  PROVE  LET afterLong  == RecordTransferIn(bank, long)
             afterShort == RecordTransferIn(afterLong, short)
             afterWnt   == RecordTransferIn(afterShort, Wnt)
         IN  /\ afterShort \in Bank /\ afterWnt \in Bank
             /\ afterShort.balance = bank.balance /\ afterWnt.balance = bank.balance
             /\ \A t \in Tokens :
                  /\ afterShort.recorded[t] =
                       IF t \in {long, short} THEN bank.balance[t] ELSE bank.recorded[t]
                  /\ afterWnt.recorded[t] =
                       IF t \in {long, short, Wnt} THEN bank.balance[t]
                       ELSE bank.recorded[t]
             /\ Unrecorded(bank, long) = bank.balance[long] - bank.recorded[long]
             /\ Unrecorded(afterLong, short) =
                  IF short = long THEN 0 ELSE bank.balance[short] - bank.recorded[short]
             /\ Unrecorded(afterShort, Wnt) =
                  IF Wnt \in {long, short} THEN 0
                  ELSE bank.balance[Wnt] - bank.recorded[Wnt]
<1> DEFINE afterLong  == RecordTransferIn(bank, long)
           afterShort == RecordTransferIn(afterLong, short)
           afterWnt   == RecordTransferIn(afterShort, Wnt)
<1>1. /\ afterLong \in Bank /\ afterLong.balance = bank.balance
      /\ afterLong.recorded[long] = bank.balance[long]
      /\ \A t \in Tokens \ {long} : afterLong.recorded[t] = bank.recorded[t]
  BY RecordTransferInBank
<1> HIDE DEF afterLong
<1>2. /\ afterShort \in Bank /\ afterShort.balance = afterLong.balance
      /\ afterShort.recorded[short] = afterLong.balance[short]
      /\ \A t \in Tokens \ {short} : afterShort.recorded[t] = afterLong.recorded[t]
  BY <1>1, RecordTransferInBank
<1> HIDE DEF afterShort
<1>3. /\ afterWnt \in Bank /\ afterWnt.balance = afterShort.balance
      /\ afterWnt.recorded[Wnt] = afterShort.balance[Wnt]
      /\ \A t \in Tokens \ {Wnt} : afterWnt.recorded[t] = afterShort.recorded[t]
  BY <1>2, RecordTransferInBank
<1> HIDE DEF afterWnt
<1>4. \A t \in Tokens : bank.balance[t] \in Nat /\ bank.recorded[t] \in Nat
  BY DEF Bank
<1>5. \A t \in Tokens :
        afterShort.recorded[t] =
          IF t \in {long, short} THEN bank.balance[t] ELSE bank.recorded[t]
  BY <1>1, <1>2
<1>6. \A t \in Tokens :
        afterWnt.recorded[t] =
          IF t \in {long, short, Wnt} THEN bank.balance[t] ELSE bank.recorded[t]
  BY <1>2, <1>1, <1>3, <1>5
<1>7. Unrecorded(afterLong, short) =
        IF short = long THEN 0 ELSE bank.balance[short] - bank.recorded[short]
  BY <1>1, <1>4 DEF Unrecorded
<1>8. Unrecorded(afterShort, Wnt) =
        IF Wnt \in {long, short} THEN 0 ELSE bank.balance[Wnt] - bank.recorded[Wnt]
  BY <1>1, <1>2, <1>4, <1>5 DEF Unrecorded
<1> QED BY <1>1, <1>2, <1>3, <1>5, <1>6, <1>7, <1>8
        DEF afterLong, afterShort, afterWnt, Unrecorded

-----------------------------------------------------------------------------
(* Every action keeps the invariant and is a step of the escrow. *)

\* Between transactions no key is being settled.
LEMMA NoCallKey ==
  ASSUME IInv, NotEntered
  PROVE  call.key = 0 /\ guard # "ENTERED"
BY DEF IInv, SettledKeysAreEmpty, NotEntered

LEMMA CreateDepositStep ==
  ASSUME IInv, NEW account \in Accounts, NEW receiver \in Receivers,
         NEW long \in Tokens, NEW short \in Tokens, NEW minMarketTokens \in Nat,
         NEW executionFee \in Nat,
         CreateDeposit(account, receiver, long, short, minMarketTokens, executionFee)
  PROVE  IInv' /\ Escrow!Next
<1> DEFINE afterLong     == RecordTransferIn(vault, long)
           afterShort    == RecordTransferIn(afterLong, short)
           afterWnt      == RecordTransferIn(afterShort, Wnt)
           longReceived  == Unrecorded(vault, long)
           shortReceived == Unrecorded(afterLong, short)
           wntAmount     == Unrecorded(afterShort, Wnt)
           available     == IF long = Wnt THEN longReceived
                            ELSE IF short = Wnt THEN shortReceived
                            ELSE wntAmount
           longAmount    == IF long = Wnt THEN longReceived - executionFee
                            ELSE longReceived
           shortAmount   == IF long # Wnt /\ short = Wnt
                            THEN shortReceived - executionFee
                            ELSE shortReceived
           fee           == IF Wnt \in {long, short} THEN executionFee ELSE wntAmount
           deposit       == [account                 |-> account,
                             receiver                |-> receiver,
                             initialLongToken        |-> long,
                             initialShortToken       |-> short,
                             initialLongTokenAmount  |-> longAmount,
                             initialShortTokenAmount |-> shortAmount,
                             minMarketTokens         |-> minMarketTokens,
                             executionFee            |-> fee,
                             updatedAtBlock          |-> block]
<1>0. PICK key : key = nonce + 1  OBVIOUS
<1>1. /\ NotEntered /\ available >= executionFee
      /\ nonce < MaxNonce /\ nonce' = key
      /\ deposits' = [deposits EXCEPT ![key] = deposit]
      /\ vault' = IF Wnt \in {long, short} THEN afterShort ELSE afterWnt
      /\ UNCHANGED <<supply, disabled, block, guard, call, shares>>
  BY <1>0 DEF CreateDeposit
<1>2. /\ vault \in Bank /\ block \in Nat /\ nonce \in Nat /\ MaxNonce \in Nat
      /\ \A t \in Tokens : /\ vault.balance[t] \in Nat /\ vault.recorded[t] \in Nat
                            /\ vault.recorded[t] <= vault.balance[t]
  BY DEF IInv, DepositTypeOK, VaultTypeOK, VaultCoversDeposits, Bank
<1>3. /\ afterShort \in Bank /\ afterWnt \in Bank
      /\ afterShort.balance = vault.balance /\ afterWnt.balance = vault.balance
      /\ \A t \in Tokens :
           /\ afterShort.recorded[t] =
                IF t \in {long, short} THEN vault.balance[t] ELSE vault.recorded[t]
           /\ afterWnt.recorded[t] =
                IF t \in {long, short, Wnt} THEN vault.balance[t] ELSE vault.recorded[t]
      /\ longReceived = vault.balance[long] - vault.recorded[long]
      /\ shortReceived =
           IF short = long THEN 0 ELSE vault.balance[short] - vault.recorded[short]
      /\ wntAmount =
           IF Wnt \in {long, short} THEN 0 ELSE vault.balance[Wnt] - vault.recorded[Wnt]
  BY <1>2, CreateDepositBank
<1> HIDE DEF longReceived, shortReceived, wntAmount
<1> HIDE DEF afterWnt
<1> HIDE DEF afterShort
<1> HIDE DEF afterLong
<1>4. /\ vault' \in Bank /\ vault'.balance = vault.balance
      /\ \A t \in Tokens : vault'.recorded[t] =
           IF t \in {long, short, Wnt} THEN vault.balance[t] ELSE vault.recorded[t]
  BY <1>1, <1>3
<1>5. longAmount \in Nat /\ shortAmount \in Nat /\ fee \in Nat
  <2>1. longReceived \in Nat /\ shortReceived \in Nat /\ wntAmount \in Nat
    BY <1>2, <1>3
  <2>2. CASE long = Wnt  BY <1>1, <2>1, <2>2
  <2>3. CASE long # Wnt /\ short = Wnt  BY <1>1, <2>1, <2>3
  <2>4. CASE long # Wnt /\ short # Wnt  BY <2>1, <2>4
  <2> QED BY <2>2, <2>3, <2>4
<1>6. ASSUME NEW t \in Tokens
      PROVE  Side(long, longAmount, t) + Side(short, shortAmount, t) + FeeIn(fee, t)
               = vault'.recorded[t] - vault.recorded[t]
  <2> DEFINE sum == Side(long, longAmount, t) + Side(short, shortAmount, t) + FeeIn(fee, t)
             gap == vault.balance[t] - vault.recorded[t]
  <2>1. /\ vault'.recorded[t] - vault.recorded[t] =
             IF t \in {long, short, Wnt} THEN gap ELSE 0
        /\ gap \in Nat
    BY <1>2, <1>4
  <2>2. CASE t \notin {long, short, Wnt}
    <3>1. sum = 0  BY <2>2 DEF Side, FeeIn
    <3> HIDE DEF sum, gap
    <3> QED BY <2>1, <2>2, <3>1 DEF sum
  <2>3. CASE t = Wnt /\ long = Wnt
    <3>1. /\ longAmount = gap - executionFee /\ fee = executionFee
          /\ short = Wnt => shortAmount = 0
      BY <2>3, <1>3
    <3> HIDE DEF longAmount, shortAmount, fee, gap
    <3>2. sum = gap
      <4>1. Side(long, longAmount, t) = longAmount /\ FeeIn(fee, t) = fee
        BY <2>3 DEF Side, FeeIn
      <4>2. Side(short, shortAmount, t) = 0  BY <2>3, <3>1 DEF Side
      <4> QED BY <2>1, <3>1, <4>1, <4>2, <1>5
    <3> HIDE DEF sum
    <3> QED BY <2>1, <2>3, <3>2 DEF sum
  <2>4. CASE t = Wnt /\ long # Wnt /\ short = Wnt
    <3>1. shortAmount = gap - executionFee /\ fee = executionFee
      BY <2>4, <1>3
    <3> HIDE DEF longAmount, shortAmount, fee, gap
    <3>2. sum = gap
      <4>1. /\ Side(short, shortAmount, t) = shortAmount /\ FeeIn(fee, t) = fee
            /\ Side(long, longAmount, t) = 0
        BY <2>4 DEF Side, FeeIn
      <4> QED BY <2>1, <3>1, <4>1, <1>5
    <3> HIDE DEF sum
    <3> QED BY <2>1, <2>4, <3>2 DEF sum
  <2>5. CASE t = Wnt /\ long # Wnt /\ short # Wnt
    <3>1. fee = gap  BY <2>5, <1>3
    <3> HIDE DEF longAmount, shortAmount, fee, gap
    <3>2. sum = gap
      <4>1. /\ Side(short, shortAmount, t) = 0 /\ FeeIn(fee, t) = fee
            /\ Side(long, longAmount, t) = 0
        BY <2>5 DEF Side, FeeIn
      <4> QED BY <2>1, <3>1, <4>1, <1>5
    <3> HIDE DEF sum
    <3> QED BY <2>1, <2>5, <3>2 DEF sum
  <2>6. CASE t # Wnt /\ t = long
    <3>1. longAmount = gap /\ (short = long => shortAmount = 0)
      BY <2>6, <1>3
    <3> HIDE DEF longAmount, shortAmount, fee, gap
    <3>2. sum = gap
      <4>1. /\ Side(long, longAmount, t) = longAmount /\ FeeIn(fee, t) = 0
        BY <2>6 DEF Side, FeeIn
      <4>2. Side(short, shortAmount, t) = 0  BY <2>6, <3>1 DEF Side
      <4> QED BY <2>1, <3>1, <4>1, <4>2, <1>5
    <3> HIDE DEF sum
    <3> QED BY <2>1, <2>6, <3>2 DEF sum
  <2>7. CASE t # Wnt /\ t # long /\ t = short
    <3>1. shortAmount = gap  BY <2>7, <1>3
    <3> HIDE DEF longAmount, shortAmount, fee, gap
    <3>2. sum = gap
      <4>1. /\ Side(long, longAmount, t) = 0 /\ FeeIn(fee, t) = 0
            /\ Side(short, shortAmount, t) = shortAmount
        BY <2>7 DEF Side, FeeIn
      <4> QED BY <2>1, <3>1, <4>1, <1>5
    <3> HIDE DEF sum
    <3> QED BY <2>1, <2>7, <3>2 DEF sum
  <2> QED BY <2>2, <2>3, <2>4, <2>5, <2>6, <2>7
<1> HIDE DEF longAmount, shortAmount, fee, available
<1>7. /\ deposit \in Deposit /\ deposit.account # NoAddress
      /\ deposit.initialLongToken \in Tokens /\ deposit.initialShortToken \in Tokens
      /\ \A t \in Tokens : EscrowOf(deposit, t) = vault'.recorded[t] - vault.recorded[t]
  <2>1. deposit \in Deposit  BY <1>2, <1>5 DEF Deposit
  <2>2. \A t \in Tokens : EscrowOf(deposit, t) =
          Side(long, longAmount, t) + Side(short, shortAmount, t) + FeeIn(fee, t)
    BY DEF EscrowOf, Side
  <2> QED BY <2>1, <2>2, <1>6
<1> HIDE DEF deposit
<1>8. /\ key \in Keys /\ key \in Nat /\ key > nonce /\ key <= nonce'
      /\ nonce' \in 0..MaxNonce /\ nonce <= nonce'
  BY <1>0, <1>1, <1>2 DEF Keys
<1>9. /\ deposits' \in [Keys -> Deposit] /\ deposits'[key] = deposit
      /\ \A j \in Keys \ {key} : deposits'[j] = deposits[j]
  BY <1>1, <1>7, <1>8 DEF IInv, DepositTypeOK
<1>10. DepositTypeOK'
  BY <1>1, <1>4, <1>8, <1>9 DEF IInv, DepositTypeOK, VaultTypeOK
<1>11. call.key = 0 /\ call'.key = 0 /\ guard' # "ENTERED"  BY <1>1, NoCallKey
<1>12. ASSUME NEW t \in Tokens
       PROVE  /\ vault'.recorded[t] <= vault'.balance[t]
              /\ vault'.balance[t] <= MaxBalance
              /\ Held(t)'[key] - Held(t)[key] <= vault'.recorded[t] - vault.recorded[t]
  <2>1. deposits[key] = EmptyDeposit  BY <1>8 DEF IInv, SettledKeysAreEmpty
  <2>2. Held(t)[key] = 0  BY <1>8, <1>11, <2>1, HeldValues, EmptyDepositFacts DEF IInv
  <2>3. Held(t)'[key] = EscrowOf(deposit, t)
    BY <1>8, <1>9, <1>10, <1>11, HeldValuesNext
  <2>4. vault'.recorded[t] <= vault'.balance[t]  BY <1>2, <1>4
  <2>5. vault'.balance[t] <= MaxBalance  BY <1>4 DEF IInv, BalancesAreBounded
  <2>6. EscrowOf(deposit, t) = vault'.recorded[t] - vault.recorded[t]
        /\ EscrowOf(deposit, t) \in Nat
    BY <1>7, EscrowOfFacts
  <2> HIDE DEF Held
  <2> QED BY <2>2, <2>3, <2>4, <2>5, <2>6
<1>13. IInv'
  BY <1>7, <1>8, <1>9, <1>10, <1>11, <1>12, KeyStep
<1>14. IsOpen(key)'  BY <1>7, <1>8, <1>9 DEF IsOpen
<1>15. Escrow!Next
  BY <1>0, <1>1, <1>4, <1>8, <1>9, <1>11, <1>13, <1>14, OpenStep
<1> QED BY <1>13, <1>15

\* A cancellation or an execution: the tokens leave the vault, the fee moves to
\* the transaction, which keeps the key open.
LEMMA RemovalStep ==
  ASSUME IInv, NotEntered, NEW key \in Keys, deposits[key].account # NoAddress,
         RemoveDeposit(key), SendDepositOut(deposits[key]),
         NEW outcome \in {"executed", "cancelled"},
         EnterCall(key, deposits[key].executionFee, outcome),
         nonce' = nonce, supply' \in Nat, disabled' = disabled, block' = block,
         shares' \in [Receivers -> Nat]
  PROVE  IInv' /\ Escrow!Next
<1> DEFINE deposit == deposits[key]
           fee     == deposit.executionFee
<1>1. /\ deposits' = [deposits EXCEPT ![key] = EmptyDeposit]
      /\ guard' = "ENTERED"
      /\ call' = [key |-> key, executionFee |-> fee, outcome |-> outcome]
  BY DEF RemoveDeposit, EnterCall
<1>2. /\ deposits \in [Keys -> Deposit] /\ deposit \in Deposit /\ fee \in Nat
      /\ nonce \in Nat /\ key \in Nat /\ key # 0
  BY DEF IInv, DepositTypeOK, VaultTypeOK, Deposit, Keys
<1>3. call.key = 0  BY NoCallKey
<1>4. key <= nonce
  <2>1. ~ (key > nonce)
    BY EmptyDepositFacts DEF IInv, SettledKeysAreEmpty
  <2> QED BY <2>1, <1>2
<1>5. /\ vault' \in Bank
      /\ \A t \in Tokens :
           /\ vault'.balance[t] = vault.balance[t] - Sides(deposit, t)
           /\ vault'.recorded[t] <= vault'.balance[t]
           /\ vault.recorded[t] - vault'.recorded[t] <= Sides(deposit, t)
  BY <1>3, SendDepositOutBank
<1> HIDE DEF deposit, fee
<1>6. call' \in Call /\ call'.key = key /\ call'.executionFee = fee
  BY <1>1, <1>2 DEF Call
<1>7. /\ deposits' \in [Keys -> Deposit] /\ deposits'[key] = EmptyDeposit
      /\ \A j \in Keys \ {key} : deposits'[j] = deposits[j]
  BY <1>1, <1>2, EmptyDepositFacts
<1>8. DepositTypeOK'
  BY <1>1, <1>5, <1>6, <1>7 DEF IInv, DepositTypeOK, VaultTypeOK
<1>9. ASSUME NEW t \in Tokens
      PROVE  /\ Held(t)'[key] <= Held(t)[key]
             /\ vault'.balance[t] = vault.balance[t] - (Held(t)[key] - Held(t)'[key])
             /\ vault'.recorded[t] <= vault'.balance[t]
             /\ vault'.balance[t] <= MaxBalance
             /\ Held(t)'[key] - Held(t)[key] <= vault'.recorded[t] - vault.recorded[t]
  <2>1. Held(t)[key] = EscrowOf(deposit, t)
    BY <1>3, HeldValues DEF IInv, deposit
  <2>2. Held(t)'[key] = EscrowOf(EmptyDeposit, t) + FeeIn(fee, t)
    BY <1>6, <1>7, <1>8, HeldValuesNext
  <2>3. /\ Sides(deposit, t) \in Nat /\ FeeIn(fee, t) \in Nat
        /\ EscrowOf(deposit, t) = Sides(deposit, t) + FeeIn(fee, t)
    BY <1>2, EscrowOfFacts DEF fee
  <2>4. EscrowOf(EmptyDeposit, t) = 0  BY EmptyDepositFacts
  <2>5. /\ vault.balance[t] \in Nat /\ vault.balance[t] <= MaxBalance
        /\ vault'.balance[t] \in Nat /\ MaxBalance \in Nat
        /\ vault.recorded[t] \in Nat /\ vault'.recorded[t] \in Nat
    BY <1>5 DEF IInv, DepositTypeOK, VaultTypeOK, Bank, BalancesAreBounded
  <2>6. /\ vault'.balance[t] = vault.balance[t] - Sides(deposit, t)
        /\ vault'.recorded[t] <= vault'.balance[t]
        /\ vault.recorded[t] - vault'.recorded[t] <= Sides(deposit, t)
    BY <1>5
  <2> HIDE DEF Held
  <2> QED BY <2>1, <2>2, <2>3, <2>4, <2>5, <2>6
<1>10. IInv'
  <2>1. /\ key <= nonce' /\ nonce <= nonce' /\ call.key \in {0, key}
        /\ call'.key \in {0, key} /\ (call'.key # 0 => guard' = "ENTERED")
    BY <1>1, <1>2, <1>3, <1>4, <1>6
  <2> QED BY <2>1, <1>7, <1>8, <1>9, KeyStep
<1>11. IsOpen(key) /\ IsOpen(key)'  BY <1>4, <1>6 DEF IsOpen
<1>12. Escrow!Next
  BY <1>3, <1>6, <1>7, <1>9, <1>10, <1>11, ReleaseStep
<1> QED BY <1>10, <1>12

LEMMA cancelDepositStep ==
  ASSUME IInv, NotEntered, NEW key \in Keys, cancelDeposit(key)
  PROVE  IInv' /\ Escrow!Next
<1>1. /\ deposits[key].account # NoAddress
      /\ RemoveDeposit(key) /\ SendDepositOut(deposits[key])
      /\ EnterCall(key, deposits[key].executionFee, "cancelled")
      /\ UNCHANGED <<nonce, supply, disabled, block, shares>>
  BY DEF cancelDeposit
<1>2. supply \in Nat /\ shares \in [Receivers -> Nat]
  BY DEF IInv, DepositTypeOK, VaultTypeOK
<1> QED BY <1>1, <1>2, RemovalStep

LEMMA ExecuteDepositStep ==
  ASSUME IInv, NEW key \in Keys, NEW keeper, NEW minBlock, NEW maxBlock,
         NEW minted \in Nat, ExecuteDeposit(key, keeper, minBlock, maxBlock, minted)
  PROVE  IInv' /\ Escrow!Next
<1>1. /\ NotEntered /\ deposits[key].account # NoAddress
      /\ RemoveDeposit(key) /\ SendDepositOut(deposits[key])
      /\ EnterCall(key, deposits[key].executionFee, "executed")
      /\ supply' = supply + minted
      /\ shares' = [shares EXCEPT ![deposits[key].receiver] = @ + minted]
      /\ UNCHANGED <<nonce, disabled, block>>
  BY DEF ExecuteDeposit
<1>2. supply \in Nat /\ shares \in [Receivers -> Nat]
  BY DEF IInv, DepositTypeOK, VaultTypeOK
<1>3. supply' \in Nat  BY <1>1, <1>2
<1>4. shares' \in [Receivers -> Nat]
  <2> DEFINE receiver == deposits[key].receiver
             sum      == shares[receiver] + minted
  <2>1. shares' = [shares EXCEPT ![receiver] = sum]  BY <1>1
  <2>2. receiver \in Receivers => sum \in Nat
    <3> HIDE DEF receiver
    <3> QED BY <1>2
  <2> HIDE DEF receiver, sum
  <2> QED BY <2>1, <2>2, <1>2
<1> QED BY <1>1, <1>3, <1>4, RemovalStep

\* The end of a transaction pays the last thing its key held, the fee.
LEMMA FinishCallStep ==
  ASSUME IInv, NEW gasCost \in GasCosts, FinishCall(gasCost),
         UNCHANGED <<deposits, shares>>
  PROVE  IInv' /\ Escrow!Next
<1> DEFINE fee == call.executionFee
<1>0. PICK k : k = call.key  OBVIOUS
<1>1. /\ vault' = PayExecutionFee(vault, fee, gasCost)
      /\ call' = NoCall /\ call'.key = 0 /\ guard' # "ENTERED" /\ k # 0
      /\ UNCHANGED <<nonce, supply, disabled, block, deposits, shares>>
  BY <1>0 DEF FinishCall, NoCall
<1>2. /\ k \in Keys /\ k <= nonce /\ fee \in Nat /\ gasCost \in Nat /\ nonce \in Nat
      /\ deposits[k] = EmptyDeposit
  <2>1. call \in Call /\ nonce \in 0..MaxNonce  BY DEF IInv, DepositTypeOK, VaultTypeOK
  <2>2. k \in Nat /\ fee \in Nat  BY <1>0, <2>1 DEF Call
  <2>3. k <= nonce /\ deposits[k] = EmptyDeposit
    BY <1>0, <1>1 DEF IInv, SettledKeysAreEmpty
  <2>4. gasCost \in Nat  OBVIOUS
  <2> HIDE DEF fee
  <2> QED BY <1>1, <2>1, <2>2, <2>3, <2>4 DEF Keys
<1>3. ASSUME NEW t \in Tokens
      PROVE  /\ Held(t)[k] = FeeIn(fee, t)
             /\ Held(t)[k] <= vault.recorded[t] /\ vault.recorded[t] <= vault.balance[t]
             /\ vault.recorded[t] \in Nat /\ vault.balance[t] \in Nat
  <2>1. Held(t)[k] = EscrowOf(deposits[k], t) + FeeIn(fee, t)
    BY <1>0, <1>2, HeldValues DEF IInv
  <2>2. EscrowOf(deposits[k], t) = 0 /\ FeeIn(fee, t) \in Nat
    BY <1>2, EmptyDepositFacts DEF FeeIn
  <2>3. /\ Held(t)[k] <= vault.recorded[t] /\ vault.recorded[t] <= vault.balance[t]
        /\ vault.recorded[t] \in Nat /\ vault.balance[t] \in Nat
    BY <1>2, KeyIsCovered
  <2> HIDE DEF Held, fee
  <2> QED BY <2>1, <2>2, <2>3
<1>4. vault \in Bank /\ fee <= vault.balance[Wnt]
  <2>1. vault \in Bank  BY DEF IInv, DepositTypeOK, VaultTypeOK
  <2>2. FeeIn(fee, Wnt) = fee  BY DEF FeeIn
  <2> HIDE DEF fee, Held
  <2> QED BY <1>2, <1>3, <2>1, <2>2
<1>5. /\ vault' \in Bank
      /\ vault'.balance[Wnt] = vault.balance[Wnt] - fee
      /\ vault'.recorded[Wnt] = vault.balance[Wnt] - fee
      /\ \A t \in Tokens \ {Wnt} : /\ vault'.balance[t] = vault.balance[t]
                                   /\ vault'.recorded[t] = vault.recorded[t]
  BY <1>1, <1>2, <1>4, PayExecutionFeeBank, TransferOutBank
<1> HIDE DEF fee
<1>6. DepositTypeOK'
  BY <1>1, <1>5 DEF IInv, DepositTypeOK, VaultTypeOK, FinishCall, NoCall, Call
<1>7. ASSUME NEW t \in Tokens
      PROVE  /\ Held(t)'[k] = 0
             /\ Held(t)'[k] <= Held(t)[k]
             /\ vault'.balance[t] = vault.balance[t] - (Held(t)[k] - Held(t)'[k])
             /\ vault'.recorded[t] <= vault'.balance[t]
             /\ vault'.balance[t] <= MaxBalance
             /\ Held(t)'[k] - Held(t)[k] <= vault'.recorded[t] - vault.recorded[t]
  <2>1. Held(t)'[k] = 0
    BY <1>1, <1>2, <1>6, HeldValuesNext, EmptyDepositFacts
  <2>2. vault.balance[t] <= MaxBalance /\ MaxBalance \in Nat
    BY DEF IInv, BalancesAreBounded
  <2>3. FeeIn(fee, t) = IF t = Wnt THEN fee ELSE 0  BY DEF FeeIn
  <2> HIDE DEF Held
  <2> QED BY <1>2, <1>3, <1>5, <2>1, <2>2, <2>3
<1>8. IInv'
  <2>1. /\ k <= nonce' /\ nonce <= nonce' /\ call.key \in {0, k} /\ call'.key \in {0, k}
        /\ (call'.key # 0 => guard' = "ENTERED")
        /\ deposits'[k] = EmptyDeposit /\ \A j \in Keys \ {k} : deposits'[j] = deposits[j]
    BY <1>0, <1>1, <1>2
  <2> QED BY <2>1, <1>2, <1>6, <1>7, KeyStep
<1>9. Escrow!Next
  <2>1. call.key \in {0, k} /\ call'.key \in {0, k} /\ IsOpen(k) /\ nonce' = nonce
    BY <1>0, <1>1, <1>2 DEF IsOpen
  <2>2. \A j \in Keys \ {k} : deposits'[j] = deposits[j]  BY <1>1
  <2> QED BY <2>1, <2>2, <1>2, <1>7, <1>8, ReleaseStep
<1> QED BY <1>8, <1>9

LEMMA SendTokensStep ==
  ASSUME IInv, NEW token \in Tokens, NEW amount \in TransferAmounts,
         SendTokens(token, amount), UNCHANGED <<deposits, shares>>
  PROVE  IInv' /\ Escrow!Next
<1>1. /\ vault \in Bank /\ vault.balance \in [Tokens -> Nat] /\ amount \in Nat
      /\ MaxBalance \in Nat
  BY DEF IInv, DepositTypeOK, VaultTypeOK, Bank
<1>2. /\ vault.balance[token] + amount <= MaxBalance
      /\ vault' = TransferIn(vault, token, amount)
      /\ UNCHANGED <<nonce, supply, disabled, block, guard, call, deposits, shares>>
  BY DEF SendTokens
<1>3. /\ vault' \in Bank /\ vault'.recorded = vault.recorded
      /\ vault'.balance = [vault.balance EXCEPT ![token] = @ + amount]
  BY <1>1, <1>2 DEF TransferIn, Bank
<1>4. UNCHANGED <<heldNow, phaseNow>> /\ \A t \in Tokens : Held(t)' = Held(t)
  BY <1>2 DEF heldNow, phaseNow, Held, phaseOf, Waiting
<1>5. amount \in Escrow!Amounts  BY <1>1, <1>2 DEF Escrow!Amounts
<1>6. Escrow!Receive(token, amount)
  BY <1>2, <1>3, <1>4 DEF Escrow!Receive, heldNow, phaseNow
<1>7. \A t \in Tokens : /\ vault'.balance[t] >= vault.balance[t]
                         /\ vault'.balance[t] <= MaxBalance
  BY <1>1, <1>2, <1>3 DEF IInv, BalancesAreBounded
<1>8. DepositTypeOK'  BY <1>2, <1>3 DEF IInv, DepositTypeOK, VaultTypeOK
<1>9. VaultCoversDeposits'
  <2> SUFFICES ASSUME NEW t \in Tokens
               PROVE  /\ vault'.recorded[t] <= vault'.balance[t]
                      /\ Total(Held(t), MaxNonce)' <= vault'.recorded[t]
    BY DEF VaultCoversDeposits
  <2>1. Total(Held(t), MaxNonce)' = Total(Held(t), MaxNonce)  BY <1>4
  <2>2. /\ Total(Held(t), MaxNonce) <= vault.recorded[t]
        /\ vault.recorded[t] <= vault.balance[t]
    BY DEF IInv, VaultCoversDeposits
  <2>3. vault.recorded[t] \in Nat /\ vault.balance[t] \in Nat /\ vault'.balance[t] \in Nat
    BY <1>1, <1>3 DEF Bank
  <2>4. vault'.recorded[t] <= vault'.balance[t]  BY <1>3, <1>7, <2>2, <2>3
  <2> QED BY <1>3, <2>1, <2>2, <2>4
<1>10. SettledKeysAreEmpty'  BY <1>2 DEF IInv, SettledKeysAreEmpty
<1>11. BalancesAreBounded'  BY <1>7 DEF BalancesAreBounded
<1>12. Escrow!Next  BY <1>5, <1>6 DEF Escrow!Next
<1> QED BY <1>8, <1>9, <1>10, <1>11, <1>12 DEF IInv

\* Steps that leave the deposits, the transaction and the vault alone.
LEMMA OtherStep ==
  ASSUME IInv, DepositTypeOK', UNCHANGED <<nonce, deposits, vault, guard, call>>
  PROVE  IInv' /\ UNCHANGED Escrow!vars
<1>1. UNCHANGED <<heldNow, phaseNow>> /\ \A t \in Tokens : Held(t)' = Held(t)
  BY DEF heldNow, phaseNow, Held, phaseOf, Waiting
<1>2. UNCHANGED Escrow!vars  BY <1>1 DEF Escrow!vars, heldNow, phaseNow
<1>3. VaultCoversDeposits'
  <2>1. \A t \in Tokens : Total(Held(t), MaxNonce)' = Total(Held(t), MaxNonce)
    BY <1>1
  <2> QED BY <2>1 DEF IInv, VaultCoversDeposits
<1>4. SettledKeysAreEmpty' /\ BalancesAreBounded'
  BY DEF IInv, SettledKeysAreEmpty, BalancesAreBounded
<1> QED BY <1>2, <1>3, <1>4 DEF IInv

LEMMA NextStep ==
  ASSUME IInv, [DepositNext]_depositVars
  PROVE  IInv' /\ [Escrow!Next]_(Escrow!vars)
<1> DEFINE Good == IInv' /\ [Escrow!Next]_(Escrow!vars)
<1>1. ASSUME NEW account \in Accounts, DepositUserStep(account) PROVE Good
  <2>1. ASSUME NEW receiver \in Receivers, NEW long \in Tokens \ {Market},
               NEW short \in Tokens \ {Market}, NEW minimum \in RequestedMinima,
               NEW fee \in RequestedFees,
               CreateDeposit(account, receiver, long, short, minimum, fee)
        PROVE  Good
    <3>1. long \in Tokens /\ short \in Tokens /\ minimum \in Nat /\ fee \in Nat
      OBVIOUS
    <3> QED BY <2>1, <3>1, CreateDepositStep
  <2>2. ASSUME NEW key \in Keys, CancelDeposit(key, account) PROVE Good
    BY <2>2, cancelDepositStep DEF CancelDeposit
  <2> HIDE DEF Good
  <2> QED BY <1>1, <2>1, <2>2 DEF DepositUserStep
<1>2. ASSUME NEW key \in Keys, NEW keeper, NEW minBlock, NEW maxBlock,
             NEW minted \in MintAmounts,
             ExecuteDeposit(key, keeper, minBlock, maxBlock, minted)
      PROVE  Good
  <2>1. ExecuteDeposit(key, keeper, minBlock, maxBlock, minted)  BY <1>2
  <2>2. minted \in Nat  OBVIOUS
  <2> QED BY <2>1, <2>2, ExecuteDepositStep
<1>3. ASSUME NEW key \in Keys, NEW keeper, NEW minBlock, NEW maxBlock,
             ExecutionCancelsDeposit(key, keeper, minBlock, maxBlock)
      PROVE  Good
  BY <1>3, cancelDepositStep DEF ExecutionCancelsDeposit
<1>4. ASSUME NEW gasCost \in GasCosts, FinishCall(gasCost), UNCHANGED <<deposits, shares>>
      PROVE  Good
  BY <1>4, FinishCallStep
<1>5. ASSUME NEW token \in Tokens \ {Market}, NEW amount \in TransferAmounts,
             SendTokens(token, amount), UNCHANGED <<deposits, shares>>
      PROVE  Good
  BY <1>5, SendTokensStep
<1>6. ASSUME NextBlock, UNCHANGED <<deposits, shares>> PROVE Good
  <2>1. DepositTypeOK'
    BY <1>6 DEF NextBlock, IInv, DepositTypeOK, VaultTypeOK
  <2> QED BY <1>6, <2>1, OtherStep DEF NextBlock
<1>7. ASSUME NEW operation \in Operations, SwitchFeature(operation),
             UNCHANGED <<deposits, shares>>
      PROVE  Good
  <2>1. disabled' \in SUBSET Operations
    BY <1>7 DEF SwitchFeature, IInv, DepositTypeOK, VaultTypeOK
  <2>2. DepositTypeOK'
    BY <1>7, <2>1 DEF SwitchFeature, IInv, DepositTypeOK, VaultTypeOK
  <2> QED BY <1>7, <2>2, OtherStep DEF SwitchFeature
<1>8. ASSUME UNCHANGED depositVars PROVE Good
  <2>1. DepositTypeOK'  BY <1>8 DEF depositVars, IInv, DepositTypeOK, VaultTypeOK
  <2> QED BY <1>8, <2>1, OtherStep DEF depositVars
<1> HIDE DEF Good
<1>9. Good
  BY <1>1, <1>2, <1>3, <1>4, <1>5, <1>6, <1>7, <1>8 DEF DepositNext, Attempt
<1> QED BY <1>9 DEF Good

LEMMA InitStep ==
  DepositInit => IInv /\ Escrow!Init
<1> SUFFICES ASSUME DepositInit PROVE IInv /\ Escrow!Init
  OBVIOUS
<1>1. NoCall \in Call /\ NoCall.key = 0  BY DEF NoCall, Call
<1>2. EmptyBank \in Bank /\ EmptyBank.balance = [t \in Tokens |-> 0]
      /\ \A t \in Tokens : EmptyBank.balance[t] = 0 /\ EmptyBank.recorded[t] = 0
  BY DEF EmptyBank, Bank
<1>3. DepositTypeOK
  BY <1>1, <1>2, EmptyDepositFacts DEF DepositInit, VaultInit, DepositTypeOK, VaultTypeOK
<1>4. SettledKeysAreEmpty
  BY <1>1 DEF DepositInit, VaultInit, SettledKeysAreEmpty
<1>5. BalancesAreBounded
  BY <1>2 DEF DepositInit, VaultInit, BalancesAreBounded
<1>6. ASSUME NEW t \in Tokens
      PROVE  Held(t) = [k \in Keys |-> 0] /\ Total(Held(t), MaxNonce) = 0
  <2>1. Held(t) \in [1..MaxNonce -> Nat] /\ MaxNonce \in Nat
    BY <1>3, HeldNat DEF Keys
  <2>2. \A k \in Keys : Held(t)[k] = 0
    BY <1>1, <1>3, HeldValues, EmptyDepositFacts DEF DepositInit, VaultInit
  <2>3. Total(Held(t), MaxNonce) = 0  BY <2>1, <2>2, TotalZero DEF Keys
  <2> HIDE DEF Held
  <2> QED BY <2>1, <2>2, <2>3 DEF Keys
<1>7. VaultCoversDeposits
  BY <1>2, <1>6 DEF DepositInit, VaultInit, VaultCoversDeposits
<1>8. \A k \in Keys : phaseOf(k) = "unused"
  <2>1. nonce = 0 /\ \A k \in Keys : k > nonce  BY DEF DepositInit, VaultInit, Keys
  <2>2. \A k \in Keys : phaseNow[k] = "unused"  BY <2>1, PhaseValues
  <2> QED BY <2>2 DEF phaseNow
<1>9. vault.balance = [t \in Tokens |-> 0]  BY <1>2 DEF DepositInit, VaultInit
<1>10. Escrow!Keys = Keys  BY DEF Keys, Escrow!Keys
<1> HIDE DEF Held, phaseOf
<1>11. Escrow!Init  BY <1>6, <1>8, <1>9, <1>10 DEF Escrow!Init
<1> QED BY <1>3, <1>4, <1>5, <1>7, <1>11 DEF IInv

-----------------------------------------------------------------------------
(* The theorems of the DepositHandler.                                    *)

\* The DepositVault covers the tokens and fees of all pending deposits, and the
\* fee of the transaction in progress.
THEOREM DepositsAreCovered ==
  DepositSpec => []VaultCoversDeposits
<1>1. DepositInit => IInv  BY InitStep
<1>2. IInv /\ [DepositNext]_depositVars => IInv'  BY NextStep
<1>3. IInv => VaultCoversDeposits  BY DEF IInv
<1> QED BY <1>1, <1>2, <1>3, PTL DEF DepositSpec

\* DepositHandler implements the escrow: a deposit is paid out once, whole, to the
\* market or back, and its fee once, when its transaction ends.
THEOREM DepositsAreEscrowed ==
  DepositSpec => ImplementsEscrow
<1>1. DepositInit => IInv /\ Escrow!Init  BY InitStep
<1>2. IInv /\ [DepositNext]_depositVars => IInv' /\ [Escrow!Next]_(Escrow!vars)
  BY NextStep
<1> QED BY <1>1, <1>2, PTL DEF DepositSpec, ImplementsEscrow, Escrow!Spec

-----------------------------------------------------------------------------
(* Withdrawals beside the deposits.                                        *)

\* The WithdrawalHandler's helpers are the DepositHandler's.
LEMMA SameHelpers ==
  /\ W!Bank = Bank /\ W!Call = Call /\ W!NoCall = NoCall /\ W!Keys = Keys
  /\ W!EmptyBank = EmptyBank
  /\ \A fee, t : W!FeeIn(fee, t) = FeeIn(fee, t)
  /\ \A f, n : W!Total(f, n) = Total(f, n)
BY DEF W!Bank, Bank, W!Call, Call, W!NoCall, NoCall, W!Keys, Keys, W!EmptyBank,
       EmptyBank, W!FeeIn, FeeIn, W!Total, Total, W!PrefixSum, PrefixSum

\* So is what they do to a bank.
LEMMA SameBankSteps ==
  ASSUME NEW bank, NEW t
  PROVE  /\ W!Unrecorded(bank, t) = Unrecorded(bank, t)
         /\ W!RecordTransferIn(bank, t) = RecordTransferIn(bank, t)
         /\ \A amount : /\ W!TransferIn(bank, t, amount) = TransferIn(bank, t, amount)
                        /\ W!TransferOut(bank, t, amount) = TransferOut(bank, t, amount)
         /\ \A fee, cost : W!PayExecutionFee(bank, fee, cost)
                             = PayExecutionFee(bank, fee, cost)
BY DEF W!Unrecorded, Unrecorded, W!RecordTransferIn, RecordTransferIn,
       W!TransferIn, TransferIn, W!TransferOut, TransferOut,
       W!PayExecutionFee, PayExecutionFee

-----------------------------------------------------------------------------
(* The invariant of the withdrawals. *)

WTypeOK ==
  /\ nonce \in 0..MaxNonce
  /\ supply \in Nat /\ block \in Nat
  /\ guard \in {"NOT_ENTERED", "ENTERED"}
  /\ withdrawalVault \in Bank
  /\ withdrawalsDisabled \in SUBSET Operations
  /\ withdrawalCall \in Call
  /\ withdrawals \in [Keys -> W!Withdrawal]

WCovered ==
  \A t \in Tokens :
    /\ withdrawalVault.recorded[t] <= withdrawalVault.balance[t]
    /\ Total(W!Held(t), MaxNonce) <= withdrawalVault.recorded[t]

\* A key not given out, and one whose transaction is in its callback, have no
\* withdrawal.
WSettled ==
  /\ withdrawalCall.key <= nonce
  /\ withdrawalCall.key # 0 => guard = "ENTERED"
  /\ withdrawalCall.key # 0 => withdrawals[withdrawalCall.key] = W!EmptyWithdrawal
  /\ \A k \in Keys : k > nonce => withdrawals[k] = W!EmptyWithdrawal

WBounded == \A t \in Tokens : withdrawalVault.balance[t] <= MaxBalance

WInv == WTypeOK /\ WCovered /\ WSettled /\ WBounded

LEMMA WTypeOKIsTypeOK == WTypeOK => W!WithdrawalTypeOK
BY SameHelpers DEF WTypeOK, W!WithdrawalTypeOK, W!VaultTypeOK, W!Operations, Operations

LEMMA WCoveredIsCovered == WCovered => W!VaultCoversWithdrawals
BY SameHelpers DEF WCovered, W!VaultCoversWithdrawals

-----------------------------------------------------------------------------
(* What the WithdrawalVault holds for the keys. *)

LEMMA WEscrowOfFacts ==
  ASSUME NEW withdrawal \in W!Withdrawal, NEW t \in Tokens
  PROVE  /\ FeeIn(withdrawal.executionFee, t) \in Nat
         /\ withdrawal.marketTokenAmount \in Nat
         /\ W!EscrowOf(withdrawal, t)
              = (IF t = Market THEN withdrawal.marketTokenAmount ELSE 0)
                + FeeIn(withdrawal.executionFee, t)
         /\ W!EscrowOf(withdrawal, t) \in Nat
BY DEF W!EscrowOf, W!FeeIn, FeeIn, W!Withdrawal

LEMMA EmptyWithdrawalFacts ==
  /\ W!EmptyWithdrawal \in W!Withdrawal /\ W!EmptyWithdrawal.account = NoAddress
  /\ \A t \in Tokens : W!EscrowOf(W!EmptyWithdrawal, t) = 0
BY DEF W!EscrowOf, W!FeeIn, W!Withdrawal, W!EmptyWithdrawal

LEMMA WHeldNat ==
  ASSUME WTypeOK, NEW t \in Tokens
  PROVE  W!Held(t) \in [Keys -> Nat]
<1>1. \A k \in Keys : W!EscrowOf(withdrawals[k], t) \in Nat
  BY WEscrowOfFacts DEF WTypeOK
<1>2. FeeIn(withdrawalCall.executionFee, t) \in Nat
  BY DEF WTypeOK, Call, FeeIn
<1> QED BY <1>1, <1>2 DEF W!Held, W!Keys, W!FeeIn, FeeIn, Keys

\* What is held for a key that no transaction is settling, and for the one it is.
LEMMA WHeldValues ==
  ASSUME WTypeOK, NEW t \in Tokens, NEW k \in Keys
  PROVE  /\ withdrawalCall.key = 0 => W!Held(t)[k] = W!EscrowOf(withdrawals[k], t)
         /\ withdrawalCall.key = k =>
              W!Held(t)[k] = W!EscrowOf(withdrawals[k], t) + FeeIn(withdrawalCall.executionFee, t)
<1>1. W!EscrowOf(withdrawals[k], t) \in Nat  BY WEscrowOfFacts DEF WTypeOK
<1> QED BY <1>1 DEF W!Held, W!Keys, W!FeeIn, FeeIn, Keys

LEMMA WHeldValuesNext ==
  ASSUME WTypeOK', NEW t \in Tokens, NEW k \in Keys
  PROVE  /\ withdrawalCall'.key = 0 => W!Held(t)'[k] = W!EscrowOf(withdrawals'[k], t)
         /\ withdrawalCall'.key = k =>
              W!Held(t)'[k] = W!EscrowOf(withdrawals'[k], t) + FeeIn(withdrawalCall'.executionFee, t)
<1>1. W!EscrowOf(withdrawals'[k], t) \in Nat  BY WEscrowOfFacts DEF WTypeOK
<1> QED BY <1>1 DEF W!Held, W!Keys, W!FeeIn, FeeIn, Keys

\* A step about one key changes the total by what it changes for that key.
LEMMA WHeldStep ==
  ASSUME WTypeOK, WTypeOK', NEW t \in Tokens, NEW k \in Keys,
         \A j \in Keys \ {k} : withdrawals'[j] = withdrawals[j],
         withdrawalCall.key \in {0, k}, withdrawalCall'.key \in {0, k}
  PROVE  /\ W!Held(t)[k] \in Nat /\ W!Held(t)'[k] \in Nat
         /\ Total(W!Held(t), MaxNonce) \in Nat
         /\ Total(W!Held(t), MaxNonce)' \in Nat
         /\ W!Held(t)[k] <= Total(W!Held(t), MaxNonce)
         /\ Total(W!Held(t), MaxNonce)'
              = Total(W!Held(t), MaxNonce) - W!Held(t)[k] + W!Held(t)'[k]
<1> DEFINE f == W!Held(t)
           g == W!Held(t)'
<1>1. f \in [Keys -> Nat]  BY WHeldNat
<1>2. g \in [Keys -> Nat]
  <2>1. \A j \in Keys : W!EscrowOf(withdrawals'[j], t) \in Nat
    BY WEscrowOfFacts DEF WTypeOK
  <2>2. FeeIn(withdrawalCall'.executionFee, t) \in Nat
    BY DEF WTypeOK, Call, FeeIn
  <2> QED BY <2>1, <2>2 DEF W!Held, W!Keys, W!FeeIn, FeeIn, Keys
<1>3. \A j \in Keys \ {k} : g[j] = f[j]
  BY DEF W!Held, W!Keys, W!FeeIn, FeeIn, Keys
<1> HIDE DEF f, g
<1>5. MaxNonce \in Nat /\ Keys = 1..MaxNonce  BY DEF Keys
<1>6. f \in [1..MaxNonce -> Nat] /\ g \in [1..MaxNonce -> Nat] /\ k \in 1..MaxNonce
  BY <1>1, <1>2, <1>5
<1>7. Total(g, MaxNonce) = Total(f, MaxNonce) - f[k] + g[k]
  <2>1. \A j \in 1..MaxNonce : j # k => g[j] = f[j]  BY <1>3, <1>5
  <2>2. MaxNonce \in Nat  BY <1>5
  <2> QED BY ONLY <2>1, <2>2, <1>6, TotalChange
<1>8. /\ Total(f, MaxNonce) \in Nat /\ Total(g, MaxNonce) \in Nat
      /\ f[k] <= Total(f, MaxNonce)
  BY <1>5, <1>6, TotalBounds
<1>9. Total(W!Held(t), MaxNonce)' = Total(g, MaxNonce)  BY DEF g
<1> QED BY <1>1, <1>2, <1>7, <1>8, <1>9 DEF f, g

\* A key is covered by the withdrawalVault: its tokens and its fee can be paid out.
LEMMA WKeyIsCovered ==
  ASSUME WInv, NEW k \in Keys, NEW t \in Tokens
  PROVE  /\ W!Held(t)[k] \in Nat /\ W!Held(t)[k] <= withdrawalVault.recorded[t]
         /\ withdrawalVault.recorded[t] <= withdrawalVault.balance[t]
         /\ withdrawalVault.recorded[t] \in Nat /\ withdrawalVault.balance[t] \in Nat
<1>1. W!Held(t) \in [1..MaxNonce -> Nat] /\ MaxNonce \in Nat /\ k \in 1..MaxNonce
  BY WHeldNat DEF WInv, Keys
<1>2. Total(W!Held(t), MaxNonce) \in Nat /\ W!Held(t)[k] <= Total(W!Held(t), MaxNonce)
  BY <1>1, TotalBounds
<1>3. /\ Total(W!Held(t), MaxNonce) <= withdrawalVault.recorded[t]
      /\ withdrawalVault.recorded[t] <= withdrawalVault.balance[t]
      /\ withdrawalVault.recorded[t] \in Nat /\ withdrawalVault.balance[t] \in Nat
  BY DEF WInv, WCovered, WTypeOK, Bank
<1>4. W!Held(t)[k] \in Nat  BY <1>1
<1> HIDE DEF W!Held, W!Keys, W!FeeIn, FeeIn, Keys
<1> QED BY <1>2, <1>3, <1>4

\* The invariant after a step about one key.
LEMMA WKeyStep ==
  ASSUME WInv, WTypeOK', NEW k \in Keys, k <= nonce', nonce <= nonce',
         \A j \in Keys \ {k} : withdrawals'[j] = withdrawals[j],
         withdrawalCall.key \in {0, k}, withdrawalCall'.key \in {0, k},
         withdrawalCall'.key # 0 => guard' = "ENTERED",
         withdrawalCall'.key # 0 => withdrawals'[k] = W!EmptyWithdrawal,
         \A t \in Tokens :
           /\ withdrawalVault'.recorded[t] <= withdrawalVault'.balance[t]
           /\ withdrawalVault'.balance[t] <= MaxBalance
           /\ W!Held(t)'[k] - W!Held(t)[k] <= withdrawalVault'.recorded[t] - withdrawalVault.recorded[t]
  PROVE  WInv'
<1>1. ASSUME NEW t \in Tokens
      PROVE  Total(W!Held(t), MaxNonce)' <= withdrawalVault'.recorded[t]
  <2>1. /\ W!Held(t)[k] \in Nat /\ W!Held(t)'[k] \in Nat
        /\ Total(W!Held(t), MaxNonce) \in Nat
        /\ Total(W!Held(t), MaxNonce)' \in Nat
        /\ Total(W!Held(t), MaxNonce)'
             = Total(W!Held(t), MaxNonce) - W!Held(t)[k] + W!Held(t)'[k]
    BY WHeldStep DEF WInv
  <2>2. Total(W!Held(t), MaxNonce) <= withdrawalVault.recorded[t]
    BY DEF WInv, WCovered
  <2>3. withdrawalVault.recorded[t] \in Nat /\ withdrawalVault'.recorded[t] \in Nat
    BY DEF WInv, WTypeOK, Bank
  <2>4. W!Held(t)'[k] - W!Held(t)[k] <= withdrawalVault'.recorded[t] - withdrawalVault.recorded[t]
    OBVIOUS
  <2> HIDE DEF W!Held, W!Keys, W!FeeIn, FeeIn, Keys
  <2> QED BY <2>1, <2>2, <2>3, <2>4
<1>2. WCovered'  BY <1>1 DEF WCovered
<1>3. WBounded'  BY DEF WBounded
<1>4. k \in Nat /\ k # 0 /\ nonce \in Nat /\ nonce' \in Nat
  BY DEF WInv, WTypeOK, Keys
<1>5. ASSUME NEW j \in Keys, j > nonce' PROVE withdrawals'[j] = W!EmptyWithdrawal
  <2>1. j # k /\ j > nonce  BY <1>4, <1>5 DEF Keys
  <2> QED BY <2>1 DEF WInv, WSettled
<1>6. WSettled'  BY <1>4, <1>5 DEF WSettled
<1> QED BY <1>2, <1>3, <1>6 DEF WInv

-----------------------------------------------------------------------------
(* The state and the steps of the escrow. *)

wHeldNow  == [t \in Tokens |-> W!Held(t)]
wPhaseNow == [k \in Keys |-> W!phaseOf(k)]

\* A key is open: its deposit is pending, or in the transaction in progress.
WIsOpen(k) == k <= nonce /\ (withdrawals[k].account # NoAddress \/ withdrawalCall.key = k)

LEMMA WPhaseValues ==
  ASSUME NEW k \in Keys, nonce \in Nat
  PROVE  /\ k > nonce => wPhaseNow[k] = "unused"
         /\ WIsOpen(k) => wPhaseNow[k] = "open"
         /\ k <= nonce /\ ~ WIsOpen(k) => wPhaseNow[k] = "closed"
<1>1. k \in Nat  BY DEF Keys
<1>2. k > nonce <=> ~ (k <= nonce)  BY <1>1
<1>3. wPhaseNow[k] = W!phaseOf(k)  BY DEF wPhaseNow
<1> QED BY <1>2, <1>3 DEF W!phaseOf, WIsOpen, W!Waiting

LEMMA WPhaseValuesNext ==
  ASSUME NEW k \in Keys, nonce' \in Nat
  PROVE  /\ WIsOpen(k)' => W!phaseOf(k)' = "open"
         /\ k <= nonce' /\ ~ WIsOpen(k)' => W!phaseOf(k)' = "closed"
<1>1. k \in Nat  BY DEF Keys
<1>2. k > nonce' <=> ~ (k <= nonce')  BY <1>1
<1> QED BY <1>2 DEF W!phaseOf, WIsOpen, W!Waiting

\* A step about one key changes what is held for it, and its phase, only.
LEMMA WOneKeyChanges ==
  ASSUME WTypeOK, WTypeOK', NEW k \in Keys,
         \A j \in Keys \ {k} : withdrawals'[j] = withdrawals[j],
         withdrawalCall.key \in {0, k}, withdrawalCall'.key \in {0, k},
         nonce' = nonce \/ (nonce' = nonce + 1 /\ k = nonce + 1)
  PROVE  /\ \A t \in Tokens : wHeldNow'[t] = [wHeldNow[t] EXCEPT ![k] = W!Held(t)'[k]]
         /\ \A t \in Tokens : wHeldNow[t][k] = W!Held(t)[k]
         /\ wPhaseNow' = [wPhaseNow EXCEPT ![k] = W!phaseOf(k)']
<1>1. ASSUME NEW t \in Tokens
      PROVE  /\ wHeldNow'[t] = [wHeldNow[t] EXCEPT ![k] = W!Held(t)'[k]]
             /\ wHeldNow[t][k] = W!Held(t)[k]
  <2>1. wHeldNow[t] = W!Held(t) /\ wHeldNow'[t] = W!Held(t)'  BY DEF wHeldNow
  <2>2. \A j \in Keys \ {k} : W!Held(t)'[j] = W!Held(t)[j]  BY DEF W!Held, W!Keys, W!FeeIn, FeeIn, Keys
  <2> QED BY <2>1, <2>2 DEF W!Held, W!Keys, W!FeeIn, FeeIn, Keys
<1>2. ASSUME NEW j \in Keys \ {k} PROVE W!phaseOf(j)' = W!phaseOf(j)
  <2>1. j \in Nat /\ j # 0 /\ nonce \in Nat /\ (j > nonce' <=> j > nonce)
        /\ (j <= nonce' <=> j <= nonce)
    BY DEF Keys, WTypeOK
  <2>2. withdrawals'[j] = withdrawals[j] /\ withdrawalCall.key # j /\ withdrawalCall'.key # j  BY <2>1
  <2> QED BY <2>1, <2>2 DEF W!phaseOf, W!Waiting
<1>3. wPhaseNow' = [wPhaseNow EXCEPT ![k] = W!phaseOf(k)']
  <2>1. wPhaseNow' = [j \in Keys |-> W!phaseOf(j)']  BY DEF wPhaseNow
  <2> QED BY <1>2, <2>1 DEF wPhaseNow
<1> QED BY <1>1, <1>3

LEMMA WEscrowTotal == \A f, n : W!Escrow!Total(f, n) = Total(f, n)
BY DEF Total, W!Escrow!Total, PrefixSum, W!Escrow!PrefixSum

\* A new key takes tokens that had arrived.
LEMMA WOpenStep ==
  ASSUME WInv, WInv', NEW k \in Keys, k = nonce + 1, nonce' = nonce + 1,
         \A j \in Keys \ {k} : withdrawals'[j] = withdrawals[j],
         withdrawalCall.key = 0, withdrawalCall'.key = 0, WIsOpen(k)',
         withdrawalVault'.balance = withdrawalVault.balance
  PROVE  W!Escrow!Next
<1> DEFINE amounts == [t \in Tokens |-> W!Held(t)'[k]]
<1>1. WTypeOK /\ WTypeOK' /\ nonce \in Nat /\ nonce' \in Nat /\ k > nonce
  BY DEF WInv, WTypeOK
<1>2. /\ \A t \in Tokens : wHeldNow'[t] = [wHeldNow[t] EXCEPT ![k] = W!Held(t)'[k]]
      /\ wPhaseNow' = [wPhaseNow EXCEPT ![k] = W!phaseOf(k)']
  BY <1>1, WOneKeyChanges
<1>3. wPhaseNow[k] = "unused"  BY <1>1, WPhaseValues
<1>4. W!phaseOf(k)' = "open"  BY <1>1, WPhaseValuesNext
<1>5. ASSUME NEW t \in Tokens
      PROVE  amounts[t] \in 0..MaxBalance /\ amounts[t] <= W!Escrow!Free(t)
  <2>1. withdrawals[k] = W!EmptyWithdrawal  BY <1>1 DEF WInv, WSettled
  <2>2. W!Held(t)[k] = 0  BY <1>1, <2>1, WHeldValues, EmptyWithdrawalFacts
  <2>3. amounts[t] = W!Held(t)'[k]  OBVIOUS
  <2>4. W!Escrow!Free(t) = withdrawalVault.balance[t] - Total(W!Held(t), MaxNonce)
    BY WEscrowTotal DEF W!Escrow!Free
  <2>5. /\ W!Held(t)'[k] \in Nat
        /\ Total(W!Held(t), MaxNonce) \in Nat /\ Total(W!Held(t), MaxNonce)' \in Nat
        /\ Total(W!Held(t), MaxNonce)' = Total(W!Held(t), MaxNonce) - W!Held(t)[k] + W!Held(t)'[k]
    BY <1>1, WHeldStep
  <2>6. /\ Total(W!Held(t), MaxNonce)' <= withdrawalVault'.recorded[t]
        /\ withdrawalVault'.recorded[t] <= withdrawalVault'.balance[t] /\ withdrawalVault'.balance[t] <= MaxBalance
    BY DEF WInv, WCovered, WBounded
  <2>7. /\ withdrawalVault.balance[t] \in Nat /\ withdrawalVault'.recorded[t] \in Nat
        /\ withdrawalVault'.balance[t] = withdrawalVault.balance[t] /\ MaxBalance \in Nat
    BY <1>1 DEF WTypeOK, Bank
  <2> HIDE DEF amounts, W!Held
  <2> QED BY <2>2, <2>3, <2>4, <2>5, <2>6, <2>7
<1>6. amounts \in [Tokens -> W!Escrow!Amounts]  BY <1>5 DEF W!Escrow!Amounts
<1>7. wHeldNow' = [t \in Tokens |-> [wHeldNow[t] EXCEPT ![k] = amounts[t]]]
  BY <1>2 DEF wHeldNow
<1>8. k \in W!Escrow!Keys  BY DEF Keys, W!Escrow!Keys
<1> HIDE DEF amounts
<1>9. W!Escrow!Open(k, amounts)
  BY <1>2, <1>3, <1>4, <1>5, <1>7 DEF W!Escrow!Open, wHeldNow, wPhaseNow, W!Keys, Keys
<1> QED BY <1>6, <1>8, <1>9 DEF W!Escrow!Next

\* An open key pays out some of its tokens, and stays open or has none left.
LEMMA WReleaseStep ==
  ASSUME WInv, WInv', NEW k \in Keys, nonce' = nonce,
         \A j \in Keys \ {k} : withdrawals'[j] = withdrawals[j],
         withdrawalCall.key \in {0, k}, withdrawalCall'.key \in {0, k}, WIsOpen(k),
         \A t \in Tokens :
           /\ W!Held(t)'[k] <= W!Held(t)[k]
           /\ withdrawalVault'.balance[t] = withdrawalVault.balance[t] - (W!Held(t)[k] - W!Held(t)'[k]),
         WIsOpen(k)' \/ \A t \in Tokens : W!Held(t)'[k] = 0
  PROVE  W!Escrow!Next
<1> DEFINE amounts == [t \in Tokens |-> W!Held(t)[k] - W!Held(t)'[k]]
<1>1. WTypeOK /\ WTypeOK' /\ nonce \in Nat /\ nonce' \in Nat
  BY DEF WInv, WTypeOK
<1>2. /\ \A t \in Tokens : wHeldNow'[t] = [wHeldNow[t] EXCEPT ![k] = W!Held(t)'[k]]
      /\ \A t \in Tokens : wHeldNow[t][k] = W!Held(t)[k]
      /\ wPhaseNow' = [wPhaseNow EXCEPT ![k] = W!phaseOf(k)']
  BY <1>1, WOneKeyChanges
<1>3. wPhaseNow[k] = "open"  BY <1>1, WPhaseValues
<1>4. ASSUME NEW t \in Tokens
      PROVE  /\ amounts[t] \in 0..MaxBalance
             /\ amounts[t] <= wHeldNow[t][k]
             /\ withdrawalVault'.balance[t] = withdrawalVault.balance[t] - amounts[t]
             /\ W!Held(t)'[k] = wHeldNow[t][k] - amounts[t]
             /\ W!Held(t)'[k] = 0 => amounts[t] = wHeldNow[t][k]
  <2>1. W!Held(t)[k] \in Nat /\ W!Held(t)'[k] \in Nat  BY <1>1, WHeldStep
  <2>2. /\ W!Held(t)'[k] <= W!Held(t)[k]
        /\ withdrawalVault'.balance[t] = withdrawalVault.balance[t] - (W!Held(t)[k] - W!Held(t)'[k])
    OBVIOUS
  <2>3. /\ withdrawalVault.balance[t] \in Nat /\ withdrawalVault'.balance[t] \in Nat
        /\ withdrawalVault.balance[t] <= MaxBalance /\ MaxBalance \in Nat
    BY <1>1 DEF WTypeOK, Bank, WInv, WBounded
  <2>4. amounts[t] = W!Held(t)[k] - W!Held(t)'[k]  OBVIOUS
  <2>5. wHeldNow[t][k] = W!Held(t)[k]  BY <1>2
  <2> HIDE DEF amounts, W!Held
  <2> QED BY <2>1, <2>2, <2>3, <2>4, <2>5
<1>6. amounts \in [Tokens -> W!Escrow!Amounts]  BY <1>4 DEF W!Escrow!Amounts
<1>7. withdrawalVault'.balance = [t \in Tokens |-> withdrawalVault.balance[t] - amounts[t]]
  <2>1. withdrawalVault'.balance = [t \in Tokens |-> withdrawalVault'.balance[t]]
    BY <1>1 DEF WTypeOK, Bank
  <2> HIDE DEF amounts
  <2> QED BY <2>1, <1>4
<1>8. wHeldNow' = [t \in Tokens |-> [wHeldNow[t] EXCEPT ![k] = @ - amounts[t]]]
  <2>1. wHeldNow' = [t \in Tokens |-> wHeldNow'[t]]  BY DEF wHeldNow
  <2>2. ASSUME NEW t \in Tokens
        PROVE  wHeldNow'[t] = [wHeldNow[t] EXCEPT ![k] = @ - amounts[t]]
    <3>1. W!Held(t)'[k] = wHeldNow[t][k] - amounts[t]  BY <1>4
    <3> HIDE DEF amounts, W!Held
    <3> QED BY <3>1, <1>2
  <2> HIDE DEF amounts
  <2> QED BY <2>1, <2>2
<1>9. \/ UNCHANGED wPhaseNow
      \/ /\ \A t \in Tokens : amounts[t] = wHeldNow[t][k]
         /\ wPhaseNow' = [wPhaseNow EXCEPT ![k] = "closed"]
  <2>1. CASE WIsOpen(k)'
    <3>1. W!phaseOf(k)' = "open"  BY <1>1, <2>1, WPhaseValuesNext
    <3>2. UNCHANGED wPhaseNow  BY <3>1, <1>2, <1>3 DEF wPhaseNow
    <3> QED BY <3>2
  <2>2. CASE ~ WIsOpen(k)'
    <3>1. k <= nonce'  BY DEF WIsOpen
    <3>2. W!phaseOf(k)' = "closed"  BY <1>1, <2>2, <3>1, WPhaseValuesNext
    <3>3. \A t \in Tokens : amounts[t] = wHeldNow[t][k]  BY <1>4, <2>2
    <3> QED BY <3>2, <3>3, <1>2
  <2> QED BY <2>1, <2>2
<1> HIDE DEF amounts
<1>10. W!Escrow!Release(k, amounts)
  BY <1>3, <1>4, <1>7, <1>8, <1>9 DEF W!Escrow!Release, wHeldNow, wPhaseNow, W!Keys, Keys
<1>11. k \in W!Escrow!Keys  BY DEF Keys, W!Escrow!Keys
<1> QED BY <1>6, <1>10, <1>11 DEF W!Escrow!Next

-----------------------------------------------------------------------------
(* Every step keeps the invariant of the withdrawals and is one of the escrow. *)

\* Between transactions no withdrawal is being settled.
LEMMA WNoCallKey ==
  ASSUME WInv, guard = "NOT_ENTERED"
  PROVE  withdrawalCall.key = 0
BY DEF WInv, WSettled

\* Steps that leave the withdrawals, their transaction and their vault alone; the
\* next key may be given to a deposit.
LEMMA WPassStep ==
  ASSUME WInv, WTypeOK', UNCHANGED <<withdrawalVault, withdrawalCall, withdrawals>>,
         withdrawalCall.key # 0 => guard' = "ENTERED",
         nonce' = nonce \/ (nonce' = nonce + 1 /\ withdrawalCall.key = 0)
  PROVE  WInv' /\ [W!Escrow!Next]_(W!Escrow!vars)
<1>1. /\ WTypeOK /\ nonce \in Nat /\ nonce' \in Nat /\ withdrawalCall.key \in Nat
      /\ MaxNonce \in Nat /\ nonce' <= MaxNonce
  BY DEF WInv, WTypeOK, Call
<1>2. UNCHANGED wHeldNow /\ \A t \in Tokens : W!Held(t)' = W!Held(t)
  BY DEF wHeldNow, W!Held
<1>3. WCovered'
  <2>1. \A t \in Tokens : Total(W!Held(t), MaxNonce)' = Total(W!Held(t), MaxNonce)
    BY <1>2
  <2> QED BY <2>1 DEF WInv, WCovered
<1>4. WSettled' /\ WBounded'
  <2>1. \A k \in Keys : k > nonce' => k > nonce  BY <1>1 DEF Keys
  <2>2. withdrawalCall.key <= nonce'  BY <1>1 DEF WInv, WSettled
  <2> QED BY <2>1, <2>2 DEF WInv, WSettled, WBounded
<1>5. CASE nonce' = nonce
  <2>1. UNCHANGED wPhaseNow  BY <1>5 DEF wPhaseNow, W!phaseOf, W!Waiting
  <2>2. UNCHANGED W!Escrow!vars
    BY <2>1, <1>2 DEF W!Escrow!vars, wHeldNow, wPhaseNow, W!Keys, Keys
  <2> QED BY <2>2, <1>3, <1>4 DEF WInv
<1>6. CASE nonce' = nonce + 1 /\ withdrawalCall.key = 0
  <2>0. PICK k : k = nonce + 1  OBVIOUS
  <2>1. k \in Keys /\ k > nonce /\ k <= nonce'  BY <1>1, <1>6, <2>0 DEF Keys
  <2>2. wPhaseNow' = [wPhaseNow EXCEPT ![k] = W!phaseOf(k)']
    BY <1>1, <1>6, <2>0, <2>1, WOneKeyChanges
  <2>3. wPhaseNow[k] = "unused"  BY <1>1, <2>1, WPhaseValues
  <2>4. ~ WIsOpen(k)'
    <3>1. withdrawals'[k].account = NoAddress
      BY <2>1, EmptyWithdrawalFacts DEF WInv, WSettled
    <3>2. withdrawalCall'.key # k  BY <1>1, <1>6, <2>0
    <3> QED BY <3>1, <3>2 DEF WIsOpen
  <2>5. W!phaseOf(k)' = "closed"  BY <1>1, <2>1, <2>4, WPhaseValuesNext
  <2>6. W!Escrow!Pass(k)
    BY <1>2, <2>2, <2>3, <2>5 DEF W!Escrow!Pass, wHeldNow, wPhaseNow, W!Keys, Keys
  <2>7. k \in W!Escrow!Keys  BY <2>1 DEF Keys, W!Escrow!Keys
  <2>8. W!Escrow!Next  BY <2>6, <2>7 DEF W!Escrow!Next
  <2> QED BY <2>8, <1>3, <1>4 DEF WInv
<1> QED BY <1>5, <1>6

\* What createWithdrawal records of the fee and of the market tokens is what it
\* writes into the withdrawal.
LEMMA CreateWithdrawalStep ==
  ASSUME WInv, NEW account \in Accounts, NEW executionFee \in Nat,
         W!CreateWithdrawal(account, executionFee)
  PROVE  /\ WInv' /\ W!Escrow!Next
         /\ withdrawalVault'.balance = withdrawalVault.balance
<1> DEFINE afterWnt == RecordTransferIn(withdrawalVault, Wnt)
           after    == RecordTransferIn(afterWnt, Market)
           fee      == Unrecorded(withdrawalVault, Wnt)
           amount   == Unrecorded(withdrawalVault, Market)
           withdrawal == [account           |-> account,
                          marketTokenAmount |-> amount,
                          executionFee      |-> fee,
                          updatedAtBlock    |-> block]
<1>0. PICK key : key = nonce + 1  OBVIOUS
<1>1. /\ guard = "NOT_ENTERED" /\ nonce < MaxNonce /\ nonce' = key
      /\ withdrawals' = [withdrawals EXCEPT ![key] = withdrawal]
      /\ withdrawalVault' = after
      /\ UNCHANGED <<supply, withdrawalsDisabled, block, guard, withdrawalCall>>
  BY <1>0, SameBankSteps DEF W!CreateWithdrawal, W!NotEntered
<1>2. /\ withdrawalVault \in Bank /\ block \in Nat /\ nonce \in Nat /\ MaxNonce \in Nat
      /\ \A t \in Tokens :
           /\ withdrawalVault.balance[t] \in Nat /\ withdrawalVault.recorded[t] \in Nat
           /\ withdrawalVault.recorded[t] <= withdrawalVault.balance[t]
  BY DEF WInv, WTypeOK, WCovered, Bank
<1>3. /\ afterWnt \in Bank /\ afterWnt.balance = withdrawalVault.balance
      /\ afterWnt.recorded[Wnt] = withdrawalVault.balance[Wnt]
      /\ \A t \in Tokens \ {Wnt} : afterWnt.recorded[t] = withdrawalVault.recorded[t]
  BY <1>2, RecordTransferInBank
<1> HIDE DEF afterWnt
<1>4. /\ after \in Bank /\ after.balance = afterWnt.balance
      /\ after.recorded[Market] = afterWnt.balance[Market]
      /\ \A t \in Tokens \ {Market} : after.recorded[t] = afterWnt.recorded[t]
  BY <1>3, RecordTransferInBank
<1> HIDE DEF after
<1>5. /\ fee = withdrawalVault.balance[Wnt] - withdrawalVault.recorded[Wnt]
      /\ amount = withdrawalVault.balance[Market] - withdrawalVault.recorded[Market]
      /\ fee \in Nat /\ amount \in Nat
  BY <1>2 DEF Unrecorded
<1> HIDE DEF fee, amount
<1>6. withdrawal \in W!Withdrawal /\ withdrawal.account # NoAddress
  BY <1>2, <1>5 DEF W!Withdrawal
<1>7. ASSUME NEW t \in Tokens
      PROVE  /\ W!EscrowOf(withdrawal, t)
                  = withdrawalVault'.recorded[t] - withdrawalVault.recorded[t]
             /\ withdrawalVault'.recorded[t] <= withdrawalVault'.balance[t]
  <2>1. W!EscrowOf(withdrawal, t) =
          (IF t = Market THEN amount ELSE 0) + (IF t = Wnt THEN fee ELSE 0)
    BY <1>6, WEscrowOfFacts DEF FeeIn
  <2> HIDE DEF withdrawal
  <2>2. CASE t = Market  BY <2>1, <2>2, <1>1, <1>2, <1>3, <1>4, <1>5
  <2>3. CASE t = Wnt  BY <2>1, <2>3, <1>1, <1>2, <1>3, <1>4, <1>5
  <2>4. CASE t # Market /\ t # Wnt  BY <2>1, <2>4, <1>1, <1>2, <1>3, <1>4
  <2> QED BY <2>2, <2>3, <2>4
<1> HIDE DEF withdrawal
<1>8. /\ key \in Keys /\ key \in Nat /\ key > nonce /\ key <= nonce'
      /\ nonce' \in 0..MaxNonce /\ nonce <= nonce'
  BY <1>0, <1>1, <1>2 DEF Keys
<1>9. /\ withdrawals' \in [Keys -> W!Withdrawal] /\ withdrawals'[key] = withdrawal
      /\ \A j \in Keys \ {key} : withdrawals'[j] = withdrawals[j]
  BY <1>1, <1>6, <1>8 DEF WInv, WTypeOK
<1>10. WTypeOK'  BY <1>1, <1>4, <1>8, <1>9 DEF WInv, WTypeOK
<1>11. withdrawalCall.key = 0 /\ withdrawalCall'.key = 0  BY <1>1, WNoCallKey
<1>12. ASSUME NEW t \in Tokens
       PROVE  /\ withdrawalVault'.recorded[t] <= withdrawalVault'.balance[t]
              /\ withdrawalVault'.balance[t] <= MaxBalance
              /\ W!Held(t)'[key] - W!Held(t)[key]
                   <= withdrawalVault'.recorded[t] - withdrawalVault.recorded[t]
  <2>1. withdrawals[key] = W!EmptyWithdrawal  BY <1>8 DEF WInv, WSettled
  <2>2. W!Held(t)[key] = 0
    BY <1>8, <1>11, <2>1, WHeldValues, EmptyWithdrawalFacts DEF WInv
  <2>3. W!Held(t)'[key] = W!EscrowOf(withdrawal, t)
    BY <1>8, <1>9, <1>10, <1>11, WHeldValuesNext
  <2>4. withdrawalVault'.balance[t] <= MaxBalance
    BY <1>1, <1>3, <1>4 DEF WInv, WBounded
  <2>5. W!EscrowOf(withdrawal, t) \in Nat  BY <1>6, WEscrowOfFacts
  <2> QED BY <2>2, <2>3, <2>4, <2>5, <1>7
<1>13. WInv'  BY <1>8, <1>9, <1>10, <1>11, <1>12, WKeyStep
<1>14. WIsOpen(key)'  BY <1>6, <1>8, <1>9 DEF WIsOpen
<1>15. withdrawalVault'.balance = withdrawalVault.balance  BY <1>1, <1>3, <1>4
<1>16. W!Escrow!Next
  BY <1>0, <1>1, <1>8, <1>9, <1>11, <1>13, <1>14, <1>15, WOpenStep
<1> QED BY <1>13, <1>15, <1>16

LEMMA BurnIsTransferOut ==
  ASSUME NEW bank \in Bank, NEW amount \in Nat
  PROVE  W!Burn(bank, amount) = TransferOut(bank, Market, amount)
<1> DEFINE balance  == [bank.balance EXCEPT ![Market] = @ - amount]
           recorded == [bank.recorded EXCEPT ![Market] = bank.balance[Market] - amount]
           burnt    == [bank EXCEPT !.balance[Market] = @ - amount]
<1>1. /\ Market \in Tokens /\ bank.balance \in [Tokens -> Nat]
      /\ bank = [balance |-> bank.balance, recorded |-> bank.recorded]
  BY DEF Bank
<1>2. burnt = [balance |-> balance, recorded |-> bank.recorded]  BY <1>1
<1>3. balance[Market] = bank.balance[Market] - amount  BY <1>1
<1>4. W!Burn(bank, amount) = [burnt EXCEPT !.recorded[Market] = burnt.balance[Market]]
  BY DEF W!Burn, W!SyncTokenBalance, W!RecordTransferIn
<1>5. TransferOut(bank, Market, amount) = [balance |-> balance, recorded |-> recorded]
  BY DEF TransferOut
<1> HIDE DEF balance, burnt
<1> QED BY <1>2, <1>3, <1>4, <1>5

\* The market tokens of a pending withdrawal are in the vault.
LEMMA AmountIsCovered ==
  ASSUME WInv, guard = "NOT_ENTERED", NEW key \in Keys
  PROVE  /\ withdrawals[key].marketTokenAmount \in Nat
         /\ withdrawals[key].marketTokenAmount <= withdrawalVault.balance[Market]
<1> DEFINE withdrawal == withdrawals[key]
<1>1. withdrawal \in W!Withdrawal /\ WTypeOK /\ Market \in Tokens /\ Market # Wnt
  BY DEF WInv, WTypeOK
<1>2. W!Held(Market)[key] = W!EscrowOf(withdrawal, Market)
  BY <1>1, WNoCallKey, WHeldValues
<1> HIDE DEF withdrawal
<1>3. /\ withdrawal.marketTokenAmount \in Nat
      /\ FeeIn(withdrawal.executionFee, Market) \in Nat
      /\ W!EscrowOf(withdrawal, Market)
           = withdrawal.marketTokenAmount + FeeIn(withdrawal.executionFee, Market)
  BY <1>1, WEscrowOfFacts
<1>4. /\ W!Held(Market)[key] <= withdrawalVault.recorded[Market]
      /\ withdrawalVault.recorded[Market] <= withdrawalVault.balance[Market]
      /\ withdrawalVault.recorded[Market] \in Nat
      /\ withdrawalVault.balance[Market] \in Nat
  BY <1>1, WKeyIsCovered
<1> QED BY <1>2, <1>3, <1>4 DEF withdrawal

\* A cancellation or an execution: the market tokens leave the vault, the fee moves
\* to the transaction, which keeps the key open.
LEMMA WRemovalStep ==
  ASSUME WInv, guard = "NOT_ENTERED", NEW key \in Keys,
         withdrawals[key].account # NoAddress, W!RemoveWithdrawal(key),
         withdrawalVault' =
           TransferOut(withdrawalVault, Market, withdrawals[key].marketTokenAmount),
         NEW outcome \in {"executed", "cancelled"},
         W!EnterCall(key, withdrawals[key].executionFee, outcome),
         nonce' = nonce, supply' \in Nat, withdrawalsDisabled' = withdrawalsDisabled,
         block' = block
  PROVE  /\ WInv' /\ W!Escrow!Next
         /\ withdrawalVault'.balance[Market]
              = withdrawalVault.balance[Market] - withdrawals[key].marketTokenAmount
<1> DEFINE withdrawal == withdrawals[key]
           fee        == withdrawal.executionFee
           amount     == withdrawal.marketTokenAmount
<1>1. /\ withdrawals' = [withdrawals EXCEPT ![key] = W!EmptyWithdrawal]
      /\ guard' = "ENTERED"
      /\ withdrawalCall' = [key |-> key, executionFee |-> fee, outcome |-> outcome]
  BY DEF W!RemoveWithdrawal, W!EnterCall
<1>2. /\ withdrawals \in [Keys -> W!Withdrawal] /\ withdrawal \in W!Withdrawal
      /\ fee \in Nat /\ nonce \in Nat /\ key \in Nat /\ key # 0
      /\ withdrawalVault \in Bank
  BY DEF WInv, WTypeOK, W!Withdrawal, Keys
<1>3. /\ withdrawalCall.key = 0 /\ amount \in Nat
      /\ amount <= withdrawalVault.balance[Market]
  BY WNoCallKey, AmountIsCovered
<1>4. key <= nonce
  <2>1. ~ (key > nonce)  BY EmptyWithdrawalFacts DEF WInv, WSettled
  <2> QED BY <2>1, <1>2
<1> HIDE DEF withdrawal, fee, amount
<1>5. /\ withdrawalVault' \in Bank
      /\ withdrawalVault'.balance[Market] = withdrawalVault.balance[Market] - amount
      /\ withdrawalVault'.recorded[Market] = withdrawalVault.balance[Market] - amount
      /\ \A t \in Tokens \ {Market} :
           /\ withdrawalVault'.balance[t] = withdrawalVault.balance[t]
           /\ withdrawalVault'.recorded[t] = withdrawalVault.recorded[t]
  <2>1. withdrawalVault' = TransferOut(withdrawalVault, Market, amount)
    BY DEF amount, withdrawal
  <2>2. Market \in Tokens  OBVIOUS
  <2> QED BY <2>1, <2>2, <1>2, <1>3, TransferOutBank
<1>6. /\ withdrawalCall' \in Call /\ withdrawalCall'.key = key
      /\ withdrawalCall'.executionFee = fee
  BY <1>1, <1>2 DEF Call
<1>7. /\ withdrawals' \in [Keys -> W!Withdrawal]
      /\ withdrawals'[key] = W!EmptyWithdrawal
      /\ \A j \in Keys \ {key} : withdrawals'[j] = withdrawals[j]
  BY <1>1, <1>2, EmptyWithdrawalFacts
<1>8. WTypeOK'  BY <1>1, <1>5, <1>6, <1>7 DEF WInv, WTypeOK
<1>9. ASSUME NEW t \in Tokens
      PROVE  /\ W!Held(t)'[key] <= W!Held(t)[key]
             /\ withdrawalVault'.balance[t]
                  = withdrawalVault.balance[t] - (W!Held(t)[key] - W!Held(t)'[key])
             /\ withdrawalVault'.recorded[t] <= withdrawalVault'.balance[t]
             /\ withdrawalVault'.balance[t] <= MaxBalance
             /\ W!Held(t)'[key] - W!Held(t)[key]
                  <= withdrawalVault'.recorded[t] - withdrawalVault.recorded[t]
  <2>1. W!Held(t)[key] = W!EscrowOf(withdrawal, t)
    BY <1>3, WHeldValues DEF WInv, withdrawal
  <2>2. W!Held(t)'[key] = FeeIn(fee, t)
    <3>1. W!Held(t)'[key] = W!EscrowOf(W!EmptyWithdrawal, t) + FeeIn(fee, t)
      BY <1>6, <1>7, <1>8, WHeldValuesNext
    <3>2. W!EscrowOf(W!EmptyWithdrawal, t) = 0 /\ FeeIn(fee, t) \in Nat
      BY <1>2, EmptyWithdrawalFacts DEF FeeIn
    <3> QED BY <3>1, <3>2
  <2>3. /\ FeeIn(fee, t) \in Nat
        /\ W!EscrowOf(withdrawal, t)
             = (IF t = Market THEN amount ELSE 0) + FeeIn(fee, t)
    BY <1>2, WEscrowOfFacts DEF fee, amount
  <2>4. /\ withdrawalVault.balance[t] \in Nat /\ withdrawalVault.balance[t] <= MaxBalance
        /\ withdrawalVault'.balance[t] \in Nat /\ MaxBalance \in Nat
        /\ withdrawalVault.recorded[t] \in Nat
        /\ withdrawalVault.recorded[t] <= withdrawalVault.balance[t]
    BY <1>5 DEF WInv, WTypeOK, WCovered, Bank, WBounded
  <2>5. CASE t = Market  BY <2>1, <2>2, <2>3, <2>4, <2>5, <1>3, <1>5
  <2>6. CASE t # Market  BY <2>1, <2>2, <2>3, <2>4, <2>6, <1>5
  <2> QED BY <2>5, <2>6
<1>10. WInv'
  <2>1. /\ key <= nonce' /\ nonce <= nonce' /\ withdrawalCall.key \in {0, key}
        /\ withdrawalCall'.key \in {0, key} /\ (withdrawalCall'.key # 0 => guard' = "ENTERED")
    BY <1>1, <1>2, <1>3, <1>4, <1>6
  <2> QED BY <2>1, <1>7, <1>8, <1>9, WKeyStep
<1>11. WIsOpen(key) /\ WIsOpen(key)'  BY <1>4, <1>6 DEF WIsOpen
<1>12. W!Escrow!Next
  BY <1>3, <1>6, <1>7, <1>9, <1>10, <1>11, WReleaseStep
<1> QED BY <1>5, <1>10, <1>12 DEF amount, withdrawal

\* The end of a transaction pays the last thing its key held, the fee.
LEMMA WFinishCallStep ==
  ASSUME WInv, NEW gasCost \in GasCosts, W!FinishCall(gasCost), UNCHANGED withdrawals
  PROVE  /\ WInv' /\ W!Escrow!Next
         /\ withdrawalVault'.balance[Market] = withdrawalVault.balance[Market]
<1> DEFINE fee == withdrawalCall.executionFee
<1>0. PICK k : k = withdrawalCall.key  OBVIOUS
<1>1. /\ withdrawalVault' = PayExecutionFee(withdrawalVault, fee, gasCost)
      /\ withdrawalCall' = NoCall /\ withdrawalCall'.key = 0
      /\ guard' = "NOT_ENTERED" /\ k # 0
      /\ UNCHANGED <<nonce, supply, withdrawalsDisabled, block, withdrawals>>
  BY <1>0, SameHelpers, SameBankSteps DEF W!FinishCall, NoCall
<1>2. /\ k \in Keys /\ k <= nonce /\ fee \in Nat /\ gasCost \in Nat /\ nonce \in Nat
      /\ withdrawals[k] = W!EmptyWithdrawal
  <2>1. withdrawalCall \in Call /\ nonce \in 0..MaxNonce  BY DEF WInv, WTypeOK
  <2>2. k \in Nat /\ fee \in Nat  BY <1>0, <2>1 DEF Call
  <2>3. k <= nonce /\ withdrawals[k] = W!EmptyWithdrawal
    BY <1>0, <1>1 DEF WInv, WSettled
  <2>4. gasCost \in Nat  OBVIOUS
  <2> HIDE DEF fee
  <2> QED BY <1>1, <2>1, <2>2, <2>3, <2>4 DEF Keys
<1>3. ASSUME NEW t \in Tokens
      PROVE  /\ W!Held(t)[k] = FeeIn(fee, t)
             /\ W!Held(t)[k] <= withdrawalVault.recorded[t]
             /\ withdrawalVault.recorded[t] <= withdrawalVault.balance[t]
             /\ withdrawalVault.recorded[t] \in Nat /\ withdrawalVault.balance[t] \in Nat
  <2>1. W!Held(t)[k] = W!EscrowOf(withdrawals[k], t) + FeeIn(fee, t)
    BY <1>0, <1>2, WHeldValues DEF WInv
  <2>2. W!EscrowOf(withdrawals[k], t) = 0 /\ FeeIn(fee, t) \in Nat
    BY <1>2, EmptyWithdrawalFacts DEF FeeIn
  <2>3. /\ W!Held(t)[k] <= withdrawalVault.recorded[t]
        /\ withdrawalVault.recorded[t] <= withdrawalVault.balance[t]
        /\ withdrawalVault.recorded[t] \in Nat /\ withdrawalVault.balance[t] \in Nat
    BY <1>2, WKeyIsCovered
  <2> HIDE DEF fee
  <2> QED BY <2>1, <2>2, <2>3
<1>4. withdrawalVault \in Bank /\ fee <= withdrawalVault.balance[Wnt]
  <2>1. withdrawalVault \in Bank  BY DEF WInv, WTypeOK
  <2>2. FeeIn(fee, Wnt) = fee  BY DEF FeeIn
  <2> HIDE DEF fee
  <2> QED BY <1>2, <1>3, <2>1, <2>2
<1>5. /\ withdrawalVault' \in Bank
      /\ withdrawalVault'.balance[Wnt] = withdrawalVault.balance[Wnt] - fee
      /\ withdrawalVault'.recorded[Wnt] = withdrawalVault.balance[Wnt] - fee
      /\ \A t \in Tokens \ {Wnt} :
           /\ withdrawalVault'.balance[t] = withdrawalVault.balance[t]
           /\ withdrawalVault'.recorded[t] = withdrawalVault.recorded[t]
  BY <1>1, <1>2, <1>4, PayExecutionFeeBank, TransferOutBank
<1> HIDE DEF fee
<1>6. WTypeOK'
  BY <1>1, <1>5 DEF WInv, WTypeOK, NoCall, Call
<1>7. ASSUME NEW t \in Tokens
      PROVE  /\ W!Held(t)'[k] = 0
             /\ W!Held(t)'[k] <= W!Held(t)[k]
             /\ withdrawalVault'.balance[t]
                  = withdrawalVault.balance[t] - (W!Held(t)[k] - W!Held(t)'[k])
             /\ withdrawalVault'.recorded[t] <= withdrawalVault'.balance[t]
             /\ withdrawalVault'.balance[t] <= MaxBalance
             /\ W!Held(t)'[k] - W!Held(t)[k]
                  <= withdrawalVault'.recorded[t] - withdrawalVault.recorded[t]
  <2>1. W!Held(t)'[k] = 0
    BY <1>1, <1>2, <1>6, WHeldValuesNext, EmptyWithdrawalFacts
  <2>2. withdrawalVault.balance[t] <= MaxBalance /\ MaxBalance \in Nat
    BY DEF WInv, WBounded
  <2>3. FeeIn(fee, t) = IF t = Wnt THEN fee ELSE 0  BY DEF FeeIn
  <2>4. CASE t = Wnt  BY <1>2, <1>3, <1>5, <2>1, <2>2, <2>3, <2>4
  <2>5. CASE t # Wnt  BY <1>2, <1>3, <1>5, <2>1, <2>2, <2>3, <2>5
  <2> QED BY <2>4, <2>5
<1>8. WInv'
  <2>1. /\ k <= nonce' /\ nonce <= nonce' /\ withdrawalCall.key \in {0, k}
        /\ withdrawalCall'.key \in {0, k}
        /\ (withdrawalCall'.key # 0 => guard' = "ENTERED")
        /\ withdrawals'[k] = W!EmptyWithdrawal
        /\ \A j \in Keys \ {k} : withdrawals'[j] = withdrawals[j]
    BY <1>0, <1>1, <1>2
  <2> QED BY <2>1, <1>2, <1>6, <1>7, WKeyStep
<1>9. W!Escrow!Next
  <2>1. /\ withdrawalCall.key \in {0, k} /\ withdrawalCall'.key \in {0, k}
        /\ WIsOpen(k) /\ nonce' = nonce
    BY <1>0, <1>1, <1>2 DEF WIsOpen
  <2>2. \A j \in Keys \ {k} : withdrawals'[j] = withdrawals[j]  BY <1>1
  <2> QED BY <2>1, <2>2, <1>2, <1>7, <1>8, WReleaseStep
<1> QED BY <1>5, <1>8, <1>9

LEMMA WSendTokensStep ==
  ASSUME WInv, NEW token \in Tokens, NEW amount \in TransferAmounts,
         W!SendTokens(token, amount), UNCHANGED withdrawals
  PROVE  /\ WInv' /\ W!Escrow!Next
         /\ withdrawalVault'.balance[Market] =
              withdrawalVault.balance[Market] + IF token = Market THEN amount ELSE 0
<1>1. /\ withdrawalVault \in Bank /\ withdrawalVault.balance \in [Tokens -> Nat]
      /\ amount \in Nat /\ MaxBalance \in Nat
  BY DEF WInv, WTypeOK, Bank
<1>2. /\ withdrawalVault.balance[token] + amount <= MaxBalance
      /\ withdrawalVault' = TransferIn(withdrawalVault, token, amount)
      /\ UNCHANGED <<nonce, supply, withdrawalsDisabled, block, guard, withdrawalCall,
                     withdrawals>>
  BY SameBankSteps DEF W!SendTokens
<1>3. /\ withdrawalVault' \in Bank /\ withdrawalVault'.recorded = withdrawalVault.recorded
      /\ withdrawalVault'.balance = [withdrawalVault.balance EXCEPT ![token] = @ + amount]
  BY <1>1, <1>2 DEF TransferIn, Bank
<1>4. UNCHANGED <<wHeldNow, wPhaseNow>> /\ \A t \in Tokens : W!Held(t)' = W!Held(t)
  BY <1>2 DEF wHeldNow, wPhaseNow, W!Held, W!phaseOf, W!Waiting
<1>5. amount \in W!Escrow!Amounts  BY <1>1, <1>2 DEF W!Escrow!Amounts
<1>6. W!Escrow!Receive(token, amount)
  BY <1>2, <1>3, <1>4 DEF W!Escrow!Receive, wHeldNow, wPhaseNow, W!Keys, Keys
<1>7. \A t \in Tokens : /\ withdrawalVault'.balance[t] >= withdrawalVault.balance[t]
                         /\ withdrawalVault'.balance[t] <= MaxBalance
  BY <1>1, <1>2, <1>3 DEF WInv, WBounded
<1>8. WTypeOK'  BY <1>2, <1>3 DEF WInv, WTypeOK
<1>9. WCovered'
  <2> SUFFICES ASSUME NEW t \in Tokens
               PROVE  /\ withdrawalVault'.recorded[t] <= withdrawalVault'.balance[t]
                      /\ Total(W!Held(t), MaxNonce)' <= withdrawalVault'.recorded[t]
    BY DEF WCovered
  <2>1. Total(W!Held(t), MaxNonce)' = Total(W!Held(t), MaxNonce)  BY <1>4
  <2>2. /\ Total(W!Held(t), MaxNonce) <= withdrawalVault.recorded[t]
        /\ withdrawalVault.recorded[t] <= withdrawalVault.balance[t]
    BY DEF WInv, WCovered
  <2>3. /\ withdrawalVault.recorded[t] \in Nat /\ withdrawalVault.balance[t] \in Nat
        /\ withdrawalVault'.balance[t] \in Nat
    BY <1>1, <1>3 DEF Bank
  <2>4. withdrawalVault'.recorded[t] <= withdrawalVault'.balance[t]
    BY <1>3, <1>7, <2>2, <2>3
  <2> QED BY <1>3, <2>1, <2>2, <2>4
<1>10. WSettled'  BY <1>2 DEF WInv, WSettled
<1>11. WBounded'  BY <1>7 DEF WBounded
<1>12. W!Escrow!Next  BY <1>5, <1>6 DEF W!Escrow!Next
<1>13. withdrawalVault'.balance[Market] =
         withdrawalVault.balance[Market] + IF token = Market THEN amount ELSE 0
  BY <1>1, <1>3
<1> QED BY <1>8, <1>9, <1>10, <1>11, <1>12, <1>13 DEF WInv

LEMMA WInitStep ==
  W!WithdrawalInit => WInv /\ W!Escrow!Init
<1> SUFFICES ASSUME W!WithdrawalInit PROVE WInv /\ W!Escrow!Init
  OBVIOUS
<1>0. /\ nonce = 0 /\ withdrawalVault = EmptyBank /\ supply = 0 /\ block = 1
      /\ withdrawalsDisabled = {} /\ guard = "NOT_ENTERED" /\ withdrawalCall = NoCall
      /\ withdrawals = [k \in Keys |-> W!EmptyWithdrawal]
  BY SameHelpers DEF W!WithdrawalInit, W!VaultInit
<1>1. NoCall \in Call /\ NoCall.key = 0  BY DEF NoCall, Call
<1>2. EmptyBank \in Bank /\ EmptyBank.balance = [t \in Tokens |-> 0]
      /\ \A t \in Tokens : EmptyBank.balance[t] = 0 /\ EmptyBank.recorded[t] = 0
  BY DEF EmptyBank, Bank
<1>3. WTypeOK  BY <1>0, <1>1, <1>2, EmptyWithdrawalFacts DEF WTypeOK
<1>4. WSettled  BY <1>0, <1>1 DEF WSettled
<1>5. WBounded  BY <1>0, <1>2 DEF WBounded
<1>6. ASSUME NEW t \in Tokens
      PROVE  W!Held(t) = [k \in Keys |-> 0] /\ Total(W!Held(t), MaxNonce) = 0
  <2>1. W!Held(t) \in [1..MaxNonce -> Nat] /\ MaxNonce \in Nat
    BY <1>3, WHeldNat DEF Keys
  <2>2. \A k \in Keys : W!Held(t)[k] = 0
    BY <1>0, <1>1, <1>3, WHeldValues, EmptyWithdrawalFacts
  <2>3. Total(W!Held(t), MaxNonce) = 0  BY <2>1, <2>2, TotalZero DEF Keys
  <2> QED BY <2>1, <2>2, <2>3 DEF Keys
<1>7. WCovered  BY <1>0, <1>2, <1>6 DEF WCovered
<1>8. \A k \in Keys : W!phaseOf(k) = "unused"
  <2>1. nonce \in Nat /\ \A k \in Keys : k > nonce  BY <1>0 DEF Keys
  <2>2. \A k \in Keys : wPhaseNow[k] = "unused"  BY <2>1, WPhaseValues
  <2> QED BY <2>2 DEF wPhaseNow
<1>9. withdrawalVault.balance = [t \in Tokens |-> 0]  BY <1>0, <1>2
<1>10. W!Escrow!Init
  BY <1>6, <1>8, <1>9 DEF W!Escrow!Init, W!Escrow!Keys, W!Keys, Keys
<1> QED BY <1>3, <1>4, <1>5, <1>7, <1>10 DEF WInv

-----------------------------------------------------------------------------
(* Both handlers. *)

\* What is known of a deposit that is pending, but not by the handler alone.
PendingReceivers ==
  \A k \in Keys : deposits[k].account # NoAddress => deposits[k].receiver \in Receivers

\* One handler's transaction is in progress at a time.
Exclusive == call.key = 0 \/ withdrawalCall.key = 0

\* The inductive invariant.
LInv == /\ IInv /\ WInv
        /\ Exclusive /\ PendingReceivers /\ SupplyAddsUp /\ LockedSharesStay

\* The step of the WithdrawalVault's escrow that a step is.
EscrowStep == [W!Escrow!Next]_(W!Escrow!vars)

LEMMA ReceiversAreFinite ==
  /\ IsFiniteSet(Receivers) /\ FirstDepositReceiver \in Receivers
  /\ Accounts \subseteq Receivers /\ FirstDepositReceiver \notin Accounts
BY LiquidityAssumption, FS_AddElement DEF Receivers

\* A receiver's market tokens change by some amount.
Moved(f, g, r, d) == g = [f EXCEPT ![r] = @ + d]

LEMMA SharesChange ==
  ASSUME NEW f \in [Receivers -> Nat], NEW r \in Receivers, NEW d \in Int, f[r] + d \in Nat,
         NEW g, Moved(f, g, r, d)
  PROVE  /\ g \in [Receivers -> Nat]
         /\ g[r] = f[r] + d /\ \A x \in Receivers \ {r} : g[x] = f[x]
         /\ SumFunctionOnSet(f, Receivers) \in Nat
         /\ SumFunctionOnSet(g, Receivers) = SumFunctionOnSet(f, Receivers) + d
<1>1. /\ g \in [Receivers -> Nat]
      /\ g[r] = f[r] + d /\ \A x \in Receivers \ {r} : g[x] = f[x]
  BY DEF Moved
<1>2. IsFiniteSet(Receivers) /\ \A x \in Receivers : f[x] \in Nat /\ f[x] \in Int
  BY ReceiversAreFinite
<1>3. SumFunctionOnSet(f, Receivers) \in Nat  BY <1>2, SumBounds
<1>4. g[r] \in Int  BY <1>1
<1>5. SumFunctionOnSet(g, Receivers) = SumFunctionOnSet(f, Receivers) - f[r] + g[r]
  <2>1. r \in Receivers /\ IsFiniteSet(Receivers)  BY <1>2
  <2>2. (\A x \in Receivers : f[x] \in Int) /\ \A x \in Receivers \ {r} : g[x] = f[x]
    BY <1>1, <1>2
  <2> QED BY ONLY <2>1, <2>2, <1>4, SumChange
<1> HIDE DEF Receivers
<1>6. f[r] \in Nat  OBVIOUS
<1> QED BY <1>1, <1>3, <1>5, <1>6

\* The vault's market tokens, and those of each receiver, are part of the supply.
LEMMA PartsOfTheSupply ==
  ASSUME LInv
  PROVE  /\ supply \in Nat /\ withdrawalVault.balance[Market] \in Nat
         /\ shares \in [Receivers -> Nat] /\ shares[FirstDepositReceiver] \in Nat
         /\ SumFunctionOnSet(shares, Receivers) \in Nat
         /\ supply = SumFunctionOnSet(shares, Receivers) + withdrawalVault.balance[Market]
<1>1. /\ supply \in Nat /\ withdrawalVault \in Bank /\ Market \in Tokens
      /\ shares \in [Receivers -> Nat]
  BY DEF LInv, IInv, DepositTypeOK, WInv, WTypeOK
<1>2. SumFunctionOnSet(shares, Receivers) \in Nat
  BY <1>1, ReceiversAreFinite, SumBounds
<1>3. withdrawalVault.balance[Market] \in Nat  BY <1>1 DEF Bank
<1> QED BY <1>1, <1>2, <1>3, ReceiversAreFinite DEF LInv, SupplyAddsUp

\* After a step: what is locked is part of the supply.
LEMMA LockedIsInSupply ==
  ASSUME shares' \in [Receivers -> Nat], WTypeOK', SupplyAddsUp',
         supply' > 0 => shares'[FirstDepositReceiver] >= MinMarketTokensForFirstDeposit
  PROVE  LockedSharesStay'
<1>1. /\ SumFunctionOnSet(shares', Receivers) \in Nat
      /\ shares'[FirstDepositReceiver] <= SumFunctionOnSet(shares', Receivers)
      /\ shares'[FirstDepositReceiver] \in Nat
  BY ReceiversAreFinite, SumBounds
<1>2. withdrawalVault'.balance[Market] \in Nat /\ supply' \in Nat
  BY DEF WTypeOK, Bank
<1>3. supply' = SumFunctionOnSet(shares', Receivers) + withdrawalVault'.balance[Market]
  BY DEF SupplyAddsUp
<1>4. MinMarketTokensForFirstDeposit \in Nat  OBVIOUS
<1> QED BY <1>1, <1>2, <1>3, <1>4 DEF LockedSharesStay

\* A step of the withdrawals leaves the deposits alone, but may take the next key,
\* and begin or end a transaction of its own.
LEMMA DepositsKept ==
  ASSUME IInv, WTypeOK', UNCHANGED ofDeposits, nonce <= nonce',
         call.key # 0 => guard' = "ENTERED", shares' \in [Receivers -> Nat]
  PROVE  IInv'
<1>1. UNCHANGED <<vault, disabled, call, deposits>>  BY DEF ofDeposits
<1>2. DepositTypeOK'
  BY <1>1 DEF IInv, DepositTypeOK, VaultTypeOK, WTypeOK
<1>3. VaultCoversDeposits'
  <2>1. \A t \in Tokens : Held(t)' = Held(t)  BY <1>1 DEF Held
  <2>2. \A t \in Tokens : Total(Held(t), MaxNonce)' = Total(Held(t), MaxNonce)
    BY <2>1
  <2> HIDE DEF Held
  <2> QED BY <1>1, <2>2 DEF IInv, VaultCoversDeposits
<1>4. BalancesAreBounded'  BY <1>1 DEF IInv, BalancesAreBounded
<1>5. SettledKeysAreEmpty'
  <2>1. nonce \in Nat /\ nonce' \in Nat /\ call.key \in Nat
    BY <1>2 DEF IInv, DepositTypeOK, VaultTypeOK, Call
  <2>2. call.key <= nonce'  BY <2>1 DEF IInv, SettledKeysAreEmpty
  <2>3. \A k \in Keys : k > nonce' => k > nonce  BY <2>1 DEF Keys
  <2> QED BY <1>1, <2>2, <2>3 DEF IInv, SettledKeysAreEmpty
<1> QED BY <1>2, <1>3, <1>4, <1>5 DEF IInv

-----------------------------------------------------------------------------
(* The steps of the deposits. *)

\* A deposit's transaction begins or ends, or the next key is taken between two.
DepositTurn ==
  \/ /\ UNCHANGED <<guard, call>>
     /\ nonce' = nonce \/ (nonce' = nonce + 1 /\ guard = "NOT_ENTERED")
  \/ guard = "NOT_ENTERED" /\ guard' = "ENTERED" /\ nonce' = nonce
  \/ call.key # 0 /\ call'.key = 0 /\ guard' = "NOT_ENTERED" /\ nonce' = nonce

\* Market tokens are minted for a pending deposit.
Minting ==
  \E key \in Keys, minted \in Nat :
    /\ deposits[key].account # NoAddress
    /\ ValidFirstDeposit(deposits[key])
    /\ minted >= deposits[key].minMarketTokens
    /\ supply' = supply + minted
    /\ shares' = [shares EXCEPT ![deposits[key].receiver] = @ + minted]

DepositEffect ==
  DepositTurn /\ (UNCHANGED <<supply, shares>> \/ Minting) /\ PendingReceivers'

LEMMA DepositsStay ==
  ASSUME PendingReceivers, UNCHANGED deposits
  PROVE  PendingReceivers'
BY DEF PendingReceivers

LEMMA DepositRemoved ==
  ASSUME IInv, PendingReceivers, NEW key \in Keys, RemoveDeposit(key)
  PROVE  PendingReceivers'
<1>1. deposits' = [deposits EXCEPT ![key] = EmptyDeposit]  BY DEF RemoveDeposit
<1>2. deposits \in [Keys -> Deposit]  BY DEF IInv, DepositTypeOK
<1>3. ASSUME NEW k \in Keys
      PROVE  deposits'[k] = EmptyDeposit \/ deposits'[k] = deposits[k]
  BY <1>1, <1>2
<1> QED BY <1>3, EmptyDepositFacts DEF PendingReceivers

LEMMA DepositCancelled ==
  ASSUME IInv, PendingReceivers, NotEntered, NEW key \in Keys, cancelDeposit(key)
  PROVE  DepositEffect
<1>1. PendingReceivers'  BY DepositRemoved DEF cancelDeposit
<1>2. DepositTurn
  BY DEF cancelDeposit, EnterCall, DepositTurn, NotEntered
<1>3. UNCHANGED <<supply, shares>>  BY DEF cancelDeposit
<1> QED BY <1>1, <1>2, <1>3 DEF DepositEffect

LEMMA DepositNextEffect ==
  ASSUME IInv, PendingReceivers, DepositNext
  PROVE  DepositEffect
<1>1. ASSUME NEW account \in Accounts, DepositUserStep(account) PROVE DepositEffect
  <2>1. ASSUME NEW receiver \in Receivers, NEW long \in Tokens \ {Market},
               NEW short \in Tokens \ {Market}, NEW minimum \in RequestedMinima,
               NEW fee \in RequestedFees,
               CreateDeposit(account, receiver, long, short, minimum, fee)
        PROVE  DepositEffect
    <3>1. /\ UNCHANGED <<guard, call, supply, shares>> /\ nonce' = nonce + 1
          /\ guard = "NOT_ENTERED"
      BY <2>1 DEF CreateDeposit, NotEntered
    <3>2. deposits \in [Keys -> Deposit]  BY DEF IInv, DepositTypeOK
    <3>3. ASSUME NEW k \in Keys
          PROVE  deposits'[k].receiver = receiver \/ deposits'[k] = deposits[k]
      <4>1. CASE k = nonce + 1  BY <2>1, <3>2, <4>1 DEF CreateDeposit
      <4>2. CASE k # nonce + 1  BY <2>1, <3>2, <4>2 DEF CreateDeposit
      <4> QED BY <4>1, <4>2
    <3>4. PendingReceivers'  BY <3>3 DEF PendingReceivers
    <3> QED BY <3>1, <3>4 DEF DepositEffect, DepositTurn
  <2>2. ASSUME NEW key \in Keys, CancelDeposit(key, account) PROVE DepositEffect
    BY <2>2, DepositCancelled DEF CancelDeposit
  <2> QED BY <1>1, <2>1, <2>2 DEF DepositUserStep
<1>2. ASSUME NEW key \in Keys, NEW keeper, NEW minBlock, NEW maxBlock,
             NEW minted \in MintAmounts,
             ExecuteDeposit(key, keeper, minBlock, maxBlock, minted)
      PROVE  DepositEffect
  <2>1. ExecuteDeposit(key, keeper, minBlock, maxBlock, minted)  BY <1>2
  <2>2. PendingReceivers'  BY <2>1, DepositRemoved DEF ExecuteDeposit
  <2>3. DepositTurn  BY <2>1 DEF ExecuteDeposit, EnterCall, DepositTurn, NotEntered
  <2>4. /\ deposits[key].account # NoAddress
        /\ ValidFirstDeposit(deposits[key])
        /\ minted >= deposits[key].minMarketTokens
        /\ supply' = supply + minted
        /\ shares' = [shares EXCEPT ![deposits[key].receiver] = @ + minted]
    BY <2>1 DEF ExecuteDeposit
  <2>5. minted \in Nat  OBVIOUS
  <2>6. Minting  BY <2>4, <2>5 DEF Minting
  <2> QED BY <2>2, <2>3, <2>6 DEF DepositEffect
<1>3. ASSUME NEW key \in Keys, NEW keeper, NEW minBlock, NEW maxBlock,
             ExecutionCancelsDeposit(key, keeper, minBlock, maxBlock)
      PROVE  DepositEffect
  BY <1>3, DepositCancelled DEF ExecutionCancelsDeposit
<1>4. ASSUME NEW gasCost \in GasCosts, FinishCall(gasCost), UNCHANGED <<deposits, shares>>
      PROVE  DepositEffect
  <2>1. DepositTurn  BY <1>4 DEF FinishCall, NoCall, DepositTurn
  <2>2. UNCHANGED <<supply, shares>>  BY <1>4 DEF FinishCall
  <2> QED BY <1>4, <2>1, <2>2, DepositsStay DEF DepositEffect
<1>5. ASSUME NEW token, NEW amount, SendTokens(token, amount),
             UNCHANGED <<deposits, shares>>
      PROVE  DepositEffect
  BY <1>5, DepositsStay DEF SendTokens, DepositEffect, DepositTurn
<1>6. ASSUME NextBlock, UNCHANGED <<deposits, shares>> PROVE DepositEffect
  BY <1>6, DepositsStay DEF NextBlock, DepositEffect, DepositTurn
<1>7. ASSUME NEW operation, SwitchFeature(operation), UNCHANGED <<deposits, shares>>
      PROVE  DepositEffect
  BY <1>7, DepositsStay DEF SwitchFeature, DepositEffect, DepositTurn
<1> QED BY <1>1, <1>2, <1>3, <1>4, <1>5, <1>6, <1>7 DEF DepositNext, Attempt

\* The first deposit locks the minimum; later ones only add to the supply.
LEMMA MintingKeepsTheSupply ==
  ASSUME LInv, Minting, UNCHANGED withdrawalVault, WTypeOK'
  PROVE  SupplyAddsUp' /\ LockedSharesStay'
<1>1. PICK key \in Keys, minted \in Nat :
        /\ deposits[key].account # NoAddress
        /\ ValidFirstDeposit(deposits[key])
        /\ minted >= deposits[key].minMarketTokens
        /\ supply' = supply + minted
        /\ shares' = [shares EXCEPT ![deposits[key].receiver] = @ + minted]
  BY DEF Minting
<1> DEFINE receiver == deposits[key].receiver
           minimum  == deposits[key].minMarketTokens
           old      == SumFunctionOnSet(shares, Receivers)
           new      == SumFunctionOnSet(shares', Receivers)
<1>2. receiver \in Receivers  BY <1>1 DEF LInv, PendingReceivers
<1>3. minimum \in Nat  BY DEF LInv, IInv, DepositTypeOK, Deposit
<1>4. /\ supply = 0 /\ MinMarketTokensForFirstDeposit > 0 =>
             receiver = FirstDepositReceiver /\ minimum >= MinMarketTokensForFirstDeposit
      /\ minted >= minimum
      /\ shares' = [shares EXCEPT ![receiver] = @ + minted]
  BY <1>1 DEF ValidFirstDeposit
<1>5. /\ supply \in Nat /\ withdrawalVault.balance[Market] \in Nat
      /\ shares \in [Receivers -> Nat] /\ shares[FirstDepositReceiver] \in Nat
      /\ old \in Nat /\ supply = old + withdrawalVault.balance[Market]
      /\ FirstDepositReceiver \in Receivers
  BY PartsOfTheSupply, ReceiversAreFinite
<1> HIDE DEF receiver, minimum
<1>6. shares[receiver] \in Nat /\ shares[receiver] + minted \in Nat /\ minted \in Int
  BY <1>2, <1>5
<1>7. /\ shares' \in [Receivers -> Nat]
      /\ shares'[receiver] = shares[receiver] + minted
      /\ \A x \in Receivers \ {receiver} : shares'[x] = shares[x]
      /\ new = old + minted
  <2>1. /\ receiver \in Receivers /\ shares \in [Receivers -> Nat]
        /\ Moved(shares, shares', receiver, minted)
    BY <1>2, <1>4, <1>5 DEF Moved
  <2> QED BY ONLY <2>1, <1>6, SharesChange DEF old, new
<1> HIDE DEF old, new
<1>8. SupplyAddsUp'  BY <1>1, <1>5, <1>7 DEF SupplyAddsUp, new
<1>9. shares'[FirstDepositReceiver] >= MinMarketTokensForFirstDeposit
  <2>1. MinMarketTokensForFirstDeposit \in Nat  OBVIOUS
  <2>2. shares'[FirstDepositReceiver] >= shares[FirstDepositReceiver]
        /\ shares'[FirstDepositReceiver] \in Nat
    BY <1>2, <1>5, <1>6, <1>7
  <2>3. CASE supply > 0
    BY <2>1, <2>2, <2>3, <1>5 DEF LInv, LockedSharesStay
  <2>4. CASE MinMarketTokensForFirstDeposit = 0  BY <2>2, <2>4
  <2>5. CASE supply = 0 /\ MinMarketTokensForFirstDeposit > 0
    <3>1. receiver = FirstDepositReceiver /\ minimum >= MinMarketTokensForFirstDeposit
      BY <1>4, <2>5
    <3>2. shares'[FirstDepositReceiver] = shares[FirstDepositReceiver] + minted
      BY <3>1, <1>7
    <3> QED BY <3>1, <3>2, <2>1, <1>3, <1>4, <1>5
  <2> QED BY <2>1, <2>3, <2>4, <2>5, <1>5
<1>10. LockedSharesStay'  BY <1>7, <1>8, <1>9, LockedIsInSupply
<1> QED BY <1>8, <1>10

LEMMA DepositStepKeeps ==
  ASSUME LInv, DepositStep
  PROVE  LInv' /\ EscrowStep
<1>1. /\ IInv /\ WInv /\ Exclusive /\ PendingReceivers /\ SupplyAddsUp
      /\ LockedSharesStay /\ WTypeOK
  BY DEF LInv, WInv
<1>2. /\ DepositNext /\ UNCHANGED <<withdrawalVault, withdrawalsDisabled>>
      /\ UNCHANGED <<withdrawalCall, withdrawals>>
  BY DEF DepositStep, ofWithdrawals
<1>3. IInv'  BY <1>1, <1>2, NextStep
<1>4. /\ DepositTurn /\ PendingReceivers'
      /\ UNCHANGED <<supply, shares>> \/ Minting
  BY <1>1, <1>2, DepositNextEffect DEF DepositEffect
<1>5. WTypeOK'
  BY <1>1, <1>2, <1>3 DEF WTypeOK, IInv, DepositTypeOK, VaultTypeOK
<1>6. /\ call.key # 0 => guard = "ENTERED"
      /\ withdrawalCall.key # 0 => guard = "ENTERED"
      /\ call'.key # 0 => guard' = "ENTERED"
  BY <1>1, <1>3 DEF IInv, SettledKeysAreEmpty, WInv, WSettled
<1>7. Exclusive'
  BY <1>1, <1>2, <1>4, <1>6 DEF Exclusive, DepositTurn
<1>8. /\ withdrawalCall.key # 0 => guard' = "ENTERED"
      /\ nonce' = nonce \/ (nonce' = nonce + 1 /\ withdrawalCall.key = 0)
  BY <1>1, <1>4, <1>6 DEF Exclusive, DepositTurn
<1>9. WInv' /\ EscrowStep
  <2>1. UNCHANGED <<withdrawalVault, withdrawalCall, withdrawals>>  BY <1>2
  <2> QED BY <2>1, <1>1, <1>5, <1>8, WPassStep DEF EscrowStep
<1>10. SupplyAddsUp' /\ LockedSharesStay'
  <2>1. CASE UNCHANGED <<supply, shares>>
    BY <2>1, <1>1, <1>2 DEF SupplyAddsUp, LockedSharesStay
  <2>2. CASE Minting  BY <2>2, <1>2, <1>5, MintingKeepsTheSupply
  <2> QED BY <2>1, <2>2, <1>4
<1> QED BY <1>3, <1>4, <1>7, <1>9, <1>10 DEF LInv

-----------------------------------------------------------------------------
(* The steps of the withdrawals. *)

\* A withdrawal's transaction begins or ends, or neither.
WithdrawalTurn ==
  \/ UNCHANGED <<guard, withdrawalCall>>
  \/ guard = "NOT_ENTERED" /\ guard' = "ENTERED"
  \/ withdrawalCall.key # 0 /\ withdrawalCall'.key = 0

\* What every step of the withdrawals has to show; that no account but the first
\* deposit's receiver can be FirstDepositReceiver keeps the locked tokens.
LEMMA WithdrawalStepCloses ==
  ASSUME LInv, WInv', UNCHANGED ofDeposits, nonce <= nonce', WithdrawalTurn,
         shares' \in [Receivers -> Nat],
         shares'[FirstDepositReceiver] = shares[FirstDepositReceiver],
         supply' <= supply, SupplyAddsUp'
  PROVE  LInv'
<1>1. /\ IInv /\ WInv /\ Exclusive /\ PendingReceivers /\ LockedSharesStay
      /\ WTypeOK'
  BY DEF LInv, WInv
<1>2. UNCHANGED <<call, deposits>>  BY DEF ofDeposits
<1>3. /\ call.key # 0 => guard = "ENTERED"
      /\ withdrawalCall.key # 0 => guard = "ENTERED"
  BY <1>1 DEF IInv, SettledKeysAreEmpty, WInv, WSettled
<1>4. Exclusive' /\ (call.key # 0 => guard' = "ENTERED")
  <2>1. withdrawalCall'.key # 0 => guard' = "ENTERED"  BY DEF WInv, WSettled
  <2> QED BY <2>1, <1>1, <1>2, <1>3 DEF WithdrawalTurn, Exclusive
<1>5. IInv'  BY <1>1, <1>4, DepositsKept
<1>6. PendingReceivers'  BY <1>1, <1>2, DepositsStay
<1>7. supply \in Nat /\ supply' \in Nat  BY <1>1 DEF WInv, WTypeOK
<1>8. supply' > 0 => shares'[FirstDepositReceiver] >= MinMarketTokensForFirstDeposit
  <2>1. supply' > 0 => supply > 0  BY <1>7
  <2> QED BY <2>1, <1>1 DEF LockedSharesStay
<1>9. LockedSharesStay'  BY <1>1, <1>8, LockedIsInSupply
<1> QED BY <1>4, <1>5, <1>6, <1>9 DEF LInv

\* The market tokens that the accounts leave alone leave the vault by being burnt.
LEMMA SharesAlone ==
  ASSUME LInv, UNCHANGED shares, NEW d \in Int, supply' = supply + d,
         withdrawalVault'.balance[Market] = withdrawalVault.balance[Market] + d
  PROVE  /\ shares' \in [Receivers -> Nat]
         /\ shares'[FirstDepositReceiver] = shares[FirstDepositReceiver]
         /\ SupplyAddsUp'
<1>1. /\ withdrawalVault.balance[Market] \in Nat /\ shares \in [Receivers -> Nat]
      /\ SumFunctionOnSet(shares, Receivers) \in Nat
      /\ supply = SumFunctionOnSet(shares, Receivers) + withdrawalVault.balance[Market]
  BY PartsOfTheSupply
<1> QED BY <1>1 DEF SupplyAddsUp

\* Market tokens move between an account and the vault.
LEMMA SharesTransferred ==
  ASSUME LInv, NEW account \in Accounts, NEW d \in Int, shares[account] + d \in Nat,
         Moved(shares, shares', account, d), supply' = supply,
         withdrawalVault'.balance[Market] = withdrawalVault.balance[Market] - d
  PROVE  /\ shares' \in [Receivers -> Nat]
         /\ shares'[FirstDepositReceiver] = shares[FirstDepositReceiver]
         /\ SupplyAddsUp'
<1>1. /\ withdrawalVault.balance[Market] \in Nat /\ shares \in [Receivers -> Nat]
      /\ SumFunctionOnSet(shares, Receivers) \in Nat
      /\ supply = SumFunctionOnSet(shares, Receivers) + withdrawalVault.balance[Market]
  BY PartsOfTheSupply
<1>2. /\ account \in Receivers /\ FirstDepositReceiver \in Receivers \ {account}
      /\ shares[account] + d \in Nat /\ d \in Int /\ Moved(shares, shares', account, d)
  BY ReceiversAreFinite
<1>3. /\ shares' \in [Receivers -> Nat]
      /\ \A x \in Receivers \ {account} : shares'[x] = shares[x]
      /\ SumFunctionOnSet(shares', Receivers) = SumFunctionOnSet(shares, Receivers) + d
  BY ONLY <1>1, <1>2, SharesChange
<1>4. supply' = SumFunctionOnSet(shares', Receivers) + withdrawalVault'.balance[Market]
  BY <1>1, <1>3
<1> QED BY <1>2, <1>3, <1>4 DEF SupplyAddsUp

LEMMA CreateKeeps ==
  ASSUME LInv, UNCHANGED <<ofDeposits, shares>>, NEW account \in Accounts,
         NEW fee \in RequestedFees, W!CreateWithdrawal(account, fee)
  PROVE  LInv' /\ EscrowStep
<1>1. /\ WInv' /\ W!Escrow!Next
      /\ withdrawalVault'.balance = withdrawalVault.balance
  <2>1. fee \in Nat /\ WInv  BY DEF LInv
  <2> QED BY <2>1, CreateWithdrawalStep
<1>2. /\ nonce' = nonce + 1 /\ supply' = supply /\ UNCHANGED <<guard, withdrawalCall>>
  BY DEF W!CreateWithdrawal
<1>3. /\ supply \in Nat /\ nonce \in Nat /\ withdrawalVault.balance[Market] \in Nat
  BY PartsOfTheSupply DEF LInv, WInv, WTypeOK
<1>4. /\ shares' \in [Receivers -> Nat]
      /\ shares'[FirstDepositReceiver] = shares[FirstDepositReceiver]
      /\ SupplyAddsUp'
  <2>1. /\ supply' = supply + 0 /\ 0 \in Int /\ UNCHANGED shares
        /\ withdrawalVault'.balance[Market] = withdrawalVault.balance[Market] + 0
    BY <1>1, <1>2, <1>3
  <2> QED BY <2>1, SharesAlone
<1>5. nonce <= nonce' /\ supply' <= supply /\ WithdrawalTurn
  BY <1>2, <1>3 DEF WithdrawalTurn
<1>6. LInv'  BY <1>1, <1>4, <1>5, WithdrawalStepCloses
<1> QED BY <1>1, <1>6 DEF EscrowStep

LEMMA CancelKeeps ==
  ASSUME LInv, UNCHANGED ofDeposits, NEW key \in Keys, guard = "NOT_ENTERED",
         W!cancelWithdrawal(key), ReturnShares(key)
  PROVE  LInv' /\ EscrowStep
<1> DEFINE account == withdrawals[key].account
           amount  == withdrawals[key].marketTokenAmount
<1>1. /\ WInv /\ account \in Accounts \cup {NoAddress} /\ WTypeOK
  BY DEF LInv, WInv, WTypeOK, W!Withdrawal
<1>2. /\ account # NoAddress /\ W!RemoveWithdrawal(key)
      /\ withdrawalVault' = TransferOut(withdrawalVault, Market, amount)
      /\ W!EnterCall(key, withdrawals[key].executionFee, "cancelled")
      /\ UNCHANGED <<nonce, supply, withdrawalsDisabled, block>>
  BY SameBankSteps DEF W!cancelWithdrawal
<1>3. supply \in Nat /\ nonce \in Nat  BY <1>1 DEF WTypeOK
<1>4. /\ WInv' /\ W!Escrow!Next
      /\ withdrawalVault'.balance[Market] = withdrawalVault.balance[Market] - amount
  BY <1>1, <1>2, <1>3, WRemovalStep
<1>5. amount \in Nat  BY <1>1, AmountIsCovered
<1>6. WithdrawalTurn  BY <1>2 DEF W!EnterCall, WithdrawalTurn
<1>7. Moved(shares, shares', account, amount)  BY DEF ReturnShares, Moved
<1> HIDE DEF account, amount
<1>8. /\ account \in Accounts /\ amount \in Int /\ shares[account] + amount \in Nat
      /\ supply' = supply
  BY <1>1, <1>2, <1>5, PartsOfTheSupply, ReceiversAreFinite
<1>9. /\ shares' \in [Receivers -> Nat]
      /\ shares'[FirstDepositReceiver] = shares[FirstDepositReceiver]
      /\ SupplyAddsUp'
  BY <1>4, <1>7, <1>8, SharesTransferred
<1>10. nonce <= nonce' /\ supply' <= supply  BY <1>2, <1>3
<1>11. LInv'  BY <1>4, <1>6, <1>9, <1>10, WithdrawalStepCloses
<1> QED BY <1>4, <1>11 DEF EscrowStep

LEMMA ExecuteKeeps ==
  ASSUME LInv, UNCHANGED <<ofDeposits, shares>>, NEW key \in Keys, NEW keeper,
         NEW minBlock, NEW maxBlock, W!ExecuteWithdrawal(key, keeper, minBlock, maxBlock)
  PROVE  LInv' /\ EscrowStep
<1> DEFINE amount == withdrawals[key].marketTokenAmount
<1>1. WInv /\ WTypeOK /\ withdrawalVault \in Bank  BY DEF LInv, WInv, WTypeOK
<1>2. /\ guard = "NOT_ENTERED" /\ withdrawals[key].account # NoAddress
      /\ W!RemoveWithdrawal(key)
      /\ withdrawalVault' = W!Burn(withdrawalVault, amount)
      /\ supply' = supply - amount
      /\ W!EnterCall(key, withdrawals[key].executionFee, "executed")
      /\ UNCHANGED <<nonce, withdrawalsDisabled, block>>
  BY DEF W!ExecuteWithdrawal, W!NotEntered
<1>3. amount \in Nat /\ amount <= withdrawalVault.balance[Market]
  BY <1>1, <1>2, AmountIsCovered
<1>4. /\ supply \in Nat /\ nonce \in Nat /\ withdrawalVault.balance[Market] \in Nat
      /\ withdrawalVault.balance[Market] <= supply
  BY <1>1, PartsOfTheSupply DEF WTypeOK
<1>5. supply' \in Nat /\ supply' <= supply /\ nonce <= nonce'
  <2> HIDE DEF amount
  <2> QED BY <1>2, <1>3, <1>4
<1>6. withdrawalVault' = TransferOut(withdrawalVault, Market, amount)
  BY <1>1, <1>2, <1>3, BurnIsTransferOut
<1>7. /\ WInv' /\ W!Escrow!Next
      /\ withdrawalVault'.balance[Market] = withdrawalVault.balance[Market] - amount
  BY <1>1, <1>2, <1>5, <1>6, WRemovalStep
<1>8. WithdrawalTurn  BY <1>2 DEF W!EnterCall, WithdrawalTurn
<1> HIDE DEF amount
<1>9. /\ shares' \in [Receivers -> Nat]
      /\ shares'[FirstDepositReceiver] = shares[FirstDepositReceiver]
      /\ SupplyAddsUp'
  <2>1. /\ supply' = supply + (- amount) /\ - amount \in Int /\ UNCHANGED shares
        /\ withdrawalVault'.balance[Market] = withdrawalVault.balance[Market] + (- amount)
    BY <1>2, <1>3, <1>4, <1>7
  <2> QED BY <2>1, SharesAlone
<1>10. LInv'  BY <1>5, <1>7, <1>8, <1>9, WithdrawalStepCloses
<1> QED BY <1>7, <1>10 DEF EscrowStep

LEMMA FinishKeeps ==
  ASSUME LInv, UNCHANGED <<ofDeposits, withdrawals, shares>>, NEW gasCost \in GasCosts,
         W!FinishCall(gasCost)
  PROVE  LInv' /\ EscrowStep
<1>1. /\ WInv' /\ W!Escrow!Next
      /\ withdrawalVault'.balance[Market] = withdrawalVault.balance[Market]
  BY WFinishCallStep DEF LInv
<1>2. /\ nonce' = nonce /\ supply' = supply
      /\ withdrawalCall.key # 0 /\ withdrawalCall' = NoCall
  BY SameHelpers DEF W!FinishCall
<1>3. supply \in Nat /\ nonce \in Nat /\ withdrawalVault.balance[Market] \in Nat
  BY PartsOfTheSupply DEF LInv, WInv, WTypeOK
<1>4. /\ shares' \in [Receivers -> Nat]
      /\ shares'[FirstDepositReceiver] = shares[FirstDepositReceiver]
      /\ SupplyAddsUp'
  <2>1. /\ supply' = supply + 0 /\ 0 \in Int /\ UNCHANGED shares
        /\ withdrawalVault'.balance[Market] = withdrawalVault.balance[Market] + 0
    BY <1>1, <1>2, <1>3
  <2> QED BY <2>1, SharesAlone
<1>5. nonce <= nonce' /\ supply' <= supply /\ WithdrawalTurn
  BY <1>2, <1>3 DEF WithdrawalTurn, NoCall
<1>6. LInv'  BY <1>1, <1>4, <1>5, WithdrawalStepCloses
<1> QED BY <1>1, <1>6 DEF EscrowStep

LEMMA SendWntKeeps ==
  ASSUME LInv, UNCHANGED <<ofDeposits, withdrawals, shares>>,
         NEW amount \in TransferAmounts, W!SendTokens(Wnt, amount)
  PROVE  LInv' /\ EscrowStep
<1>1. /\ WInv' /\ W!Escrow!Next
      /\ withdrawalVault'.balance[Market] =
           withdrawalVault.balance[Market] + IF Wnt = Market THEN amount ELSE 0
  <2>1. WInv /\ Wnt \in Tokens  BY DEF LInv
  <2> QED BY <2>1, WSendTokensStep
<1>2. UNCHANGED <<nonce, supply, guard, withdrawalCall>>  BY DEF W!SendTokens
<1>3. supply \in Nat /\ nonce \in Nat /\ withdrawalVault.balance[Market] \in Nat
  BY PartsOfTheSupply DEF LInv, WInv, WTypeOK
<1>4. /\ shares' \in [Receivers -> Nat]
      /\ shares'[FirstDepositReceiver] = shares[FirstDepositReceiver]
      /\ SupplyAddsUp'
  <2>1. /\ supply' = supply + 0 /\ 0 \in Int /\ UNCHANGED shares
        /\ withdrawalVault'.balance[Market] = withdrawalVault.balance[Market] + 0
    BY <1>1, <1>2, <1>3
  <2> QED BY <2>1, SharesAlone
<1>5. nonce <= nonce' /\ supply' <= supply /\ WithdrawalTurn
  BY <1>2, <1>3 DEF WithdrawalTurn
<1>6. LInv'  BY <1>1, <1>4, <1>5, WithdrawalStepCloses
<1> QED BY <1>1, <1>6 DEF EscrowStep

LEMMA SendSharesKeeps ==
  ASSUME LInv, UNCHANGED ofDeposits, NEW account \in Accounts,
         NEW amount \in TransferAmounts, SendShares(account, amount)
  PROVE  LInv' /\ EscrowStep
<1>0. /\ amount <= shares[account] /\ W!SendTokens(Market, amount)
      /\ UNCHANGED withdrawals /\ Moved(shares, shares', account, - amount)
      /\ amount \in Nat
  <2>1. shares' = [shares EXCEPT ![account] = @ - amount]  BY DEF SendShares
  <2>2. shares[account] \in Nat /\ amount \in Nat
    BY PartsOfTheSupply, ReceiversAreFinite
  <2>3. shares[account] - amount = shares[account] + (- amount)  BY <2>2
  <2>4. shares' = [shares EXCEPT ![account] = @ + (- amount)]  BY <2>1, <2>3
  <2> QED BY <2>2, <2>4 DEF SendShares, Moved
<1>1. /\ WInv' /\ W!Escrow!Next
      /\ withdrawalVault'.balance[Market] = withdrawalVault.balance[Market] + amount
  <2>1. WInv /\ Market \in Tokens  BY DEF LInv
  <2> QED BY <2>1, <1>0, WSendTokensStep
<1>2. UNCHANGED <<nonce, supply, guard, withdrawalCall>>  BY <1>0 DEF W!SendTokens
<1>3. supply \in Nat /\ nonce \in Nat /\ withdrawalVault.balance[Market] \in Nat
      /\ shares[account] \in Nat
  BY PartsOfTheSupply, ReceiversAreFinite DEF LInv, WInv, WTypeOK
<1>4. /\ shares' \in [Receivers -> Nat]
      /\ shares'[FirstDepositReceiver] = shares[FirstDepositReceiver]
      /\ SupplyAddsUp'
  <2>1. /\ - amount \in Int /\ shares[account] + (- amount) \in Nat /\ supply' = supply
        /\ withdrawalVault'.balance[Market] = withdrawalVault.balance[Market] - (- amount)
    BY <1>0, <1>1, <1>2, <1>3
  <2> QED BY <2>1, <1>0, SharesTransferred
<1>5. nonce <= nonce' /\ supply' <= supply /\ WithdrawalTurn
  BY <1>2, <1>3 DEF WithdrawalTurn
<1>6. LInv'  BY <1>1, <1>4, <1>5, WithdrawalStepCloses
<1> QED BY <1>1, <1>6 DEF EscrowStep

LEMMA SwitchKeeps ==
  ASSUME LInv, UNCHANGED <<ofDeposits, withdrawals, shares>>, NEW operation \in Operations,
         W!SwitchFeature(operation)
  PROVE  LInv' /\ EscrowStep
<1>1. /\ guard = "NOT_ENTERED" /\ withdrawalsDisabled' \in SUBSET Operations
      /\ UNCHANGED <<nonce, withdrawalVault, supply, block, guard, withdrawalCall>>
  BY DEF W!SwitchFeature, W!NotEntered, LInv, WInv, WTypeOK
<1>2. WTypeOK'  BY <1>1 DEF LInv, WInv, WTypeOK
<1>3. WInv' /\ EscrowStep
  <2>1. WInv /\ withdrawalCall.key = 0  BY <1>1, WNoCallKey DEF LInv
  <2>2. UNCHANGED <<withdrawalVault, withdrawalCall, withdrawals>>  BY <1>1
  <2> QED BY <2>1, <2>2, <1>1, <1>2, WPassStep DEF EscrowStep
<1>4. supply \in Nat /\ nonce \in Nat /\ withdrawalVault.balance[Market] \in Nat
  BY PartsOfTheSupply DEF LInv, WInv, WTypeOK
<1>5. /\ shares' \in [Receivers -> Nat]
      /\ shares'[FirstDepositReceiver] = shares[FirstDepositReceiver]
      /\ SupplyAddsUp'
  <2>1. /\ supply' = supply + 0 /\ 0 \in Int /\ UNCHANGED shares
        /\ withdrawalVault'.balance[Market] = withdrawalVault.balance[Market] + 0
    BY <1>1, <1>4
  <2> QED BY <2>1, SharesAlone
<1>6. nonce <= nonce' /\ supply' <= supply /\ WithdrawalTurn
  BY <1>1, <1>4 DEF WithdrawalTurn
<1> QED BY <1>3, <1>5, <1>6, WithdrawalStepCloses

LEMMA WithdrawalStepKeeps ==
  ASSUME LInv, WithdrawalStep
  PROVE  LInv' /\ EscrowStep
<1> DEFINE Good == LInv' /\ EscrowStep
<1>0. UNCHANGED ofDeposits  BY DEF WithdrawalStep
<1>1. ASSUME NEW account \in Accounts, NEW fee \in RequestedFees,
             W!CreateWithdrawal(account, fee), UNCHANGED shares
      PROVE  Good
  BY <1>0, <1>1, CreateKeeps
<1>2. ASSUME NEW key \in Keys, NEW account \in Accounts,
             W!CancelWithdrawal(key, account), ReturnShares(key)
      PROVE  Good
  BY <1>0, <1>2, CancelKeeps DEF W!CancelWithdrawal, W!NotEntered
<1>3. ASSUME NEW key \in Keys, NEW keeper, NEW minBlock, NEW maxBlock,
             W!ExecutionCancelsWithdrawal(key, keeper, minBlock, maxBlock), ReturnShares(key)
      PROVE  Good
  BY <1>0, <1>3, CancelKeeps DEF W!ExecutionCancelsWithdrawal, W!NotEntered
<1>4. ASSUME NEW key \in Keys, NEW keeper, W!ExecuteAtSomePrices(key, keeper),
             UNCHANGED shares
      PROVE  Good
  BY <1>0, <1>4, ExecuteKeeps DEF W!ExecuteAtSomePrices
<1>5. ASSUME NEW gasCost \in GasCosts, W!FinishCall(gasCost),
             UNCHANGED <<withdrawals, shares>>
      PROVE  Good
  BY <1>0, <1>5, FinishKeeps
<1>6. ASSUME NEW amount \in TransferAmounts, W!SendTokens(Wnt, amount),
             UNCHANGED <<withdrawals, shares>>
      PROVE  Good
  BY <1>0, <1>6, SendWntKeeps
<1>7. ASSUME NEW operation \in Operations, W!SwitchFeature(operation),
             UNCHANGED <<withdrawals, shares>>
      PROVE  Good
  BY <1>0, <1>7, SwitchKeeps
<1>8. ASSUME NEW account \in Accounts, NEW amount \in TransferAmounts,
             SendShares(account, amount)
      PROVE  Good
  BY <1>0, <1>8, SendSharesKeeps
<1> HIDE DEF Good
<1>9. Good
  BY <1>1, <1>2, <1>3, <1>4, <1>5, <1>6, <1>7, <1>8 DEF WithdrawalStep
<1> QED BY <1>9 DEF Good

-----------------------------------------------------------------------------
(* The theorems of the two handlers.                                      *)

LEMMA LNextStep ==
  ASSUME LInv, [Next]_vars
  PROVE  LInv' /\ EscrowStep
<1>1. CASE DepositStep  BY <1>1, DepositStepKeeps
<1>2. CASE WithdrawalStep  BY <1>2, WithdrawalStepKeeps
<1>3. CASE UNCHANGED vars
  <2>1. UNCHANGED <<nonce, supply, block, guard, shares, vault, disabled, call, deposits>>
        /\ UNCHANGED <<withdrawalVault, withdrawalsDisabled, withdrawalCall, withdrawals>>
    BY <1>3 DEF vars, ofDeposits, ofWithdrawals
  <2>2. IInv'
    <3>1. UNCHANGED depositVars  BY <2>1 DEF depositVars
    <3> QED BY <3>1, NextStep DEF LInv
  <2>3. WTypeOK /\ WTypeOK'  BY <2>1 DEF LInv, WInv, WTypeOK
  <2>4. WInv' /\ EscrowStep
    <3>1. WInv /\ (withdrawalCall.key # 0 => guard' = "ENTERED")
      BY <2>1 DEF LInv, WInv, WSettled
    <3>2. UNCHANGED <<withdrawalVault, withdrawalCall, withdrawals>> /\ nonce' = nonce
      BY <2>1
    <3> QED BY <3>1, <3>2, <2>3, WPassStep DEF EscrowStep
  <2>5. Exclusive' /\ PendingReceivers' /\ SupplyAddsUp' /\ LockedSharesStay'
    BY <2>1 DEF LInv, Exclusive, PendingReceivers, SupplyAddsUp, LockedSharesStay
  <2> QED BY <2>2, <2>4, <2>5 DEF LInv
<1> QED BY <1>1, <1>2, <1>3 DEF Next

LEMMA LInitStep ==
  Init => LInv /\ W!Escrow!Init
<1> SUFFICES ASSUME Init PROVE LInv /\ W!Escrow!Init
  OBVIOUS
<1>1. IInv  BY InitStep DEF Init
<1>2. WInv /\ W!Escrow!Init  BY WInitStep DEF Init
<1>3. /\ call = NoCall /\ supply = 0 /\ withdrawalVault = EmptyBank
      /\ deposits = [k \in Keys |-> EmptyDeposit] /\ shares = [r \in Receivers |-> 0]
  BY SameHelpers DEF Init, DepositInit, VaultInit, W!WithdrawalInit, W!VaultInit
<1>4. Exclusive /\ PendingReceivers
  BY <1>3, EmptyDepositFacts DEF Exclusive, NoCall, PendingReceivers
<1>5. SupplyAddsUp
  <2>1. SumFunctionOnSet(shares, Receivers) = 0  BY <1>3, ReceiversAreFinite, SumZero
  <2>2. withdrawalVault.balance[Market] = 0  BY <1>3 DEF EmptyBank
  <2> QED BY <2>1, <2>2, <1>3 DEF SupplyAddsUp
<1>6. LockedSharesStay  BY <1>3 DEF LockedSharesStay
<1> QED BY <1>1, <1>2, <1>4, <1>5, <1>6 DEF LInv

\* The invariant of both handlers, that the theorems below follow from.
THEOREM LiquidityInvariance ==
  Spec => []LInv
<1>1. Init => LInv  BY LInitStep
<1>2. LInv /\ [Next]_vars => LInv'  BY LNextStep
<1> QED BY <1>1, <1>2, PTL DEF Spec

\* Every variable keeps its type: in particular no burn takes more than the supply,
\* no transfer more than an account or a vault has.
THEOREM TypeCorrect ==
  Spec => []TypeOK
<1>1. LInv => TypeOK
  BY WTypeOKIsTypeOK DEF LInv, IInv, WInv, TypeOK
<1> QED BY <1>1, LiquidityInvariance, PTL

\* The DepositVault and the WithdrawalVault cover the tokens and fees of all their
\* requests while the two handlers take keys from one counter and share the guard.
THEOREM VaultsAlwaysCoverRequests ==
  Spec => []VaultsCoverRequests
<1>1. LInv => VaultsCoverRequests
  BY WCoveredIsCovered DEF LInv, IInv, WInv, VaultsCoverRequests
<1> QED BY <1>1, LiquidityInvariance, PTL

\* No market token is made or lost outside of a deposit's mint and a withdrawal's
\* burn.
THEOREM SupplyAlwaysAddsUp ==
  Spec => []SupplyAddsUp
<1>1. LInv => SupplyAddsUp  BY DEF LInv
<1> QED BY <1>1, LiquidityInvariance, PTL

\* The minimum locked by the first deposit stays with its receiver and in the supply
\* as long as the market has any liquidity.
THEOREM LockedSharesAlwaysStay ==
  Spec => []LockedSharesStay
<1>1. LInv => LockedSharesStay  BY DEF LInv
<1> QED BY <1>1, LiquidityInvariance, PTL

\* WithdrawalHandler implements the escrow while deposits take keys of the same
\* counter: the market tokens of a withdrawal leave its vault once, burnt or sent
\* back, and its fee once, when its transaction ends.
THEOREM WithdrawalsAreEscrowed ==
  Spec => WithdrawalsImplementEscrow
<1>1. Init => LInv /\ W!Escrow!Init  BY LInitStep
<1>2. LInv /\ [Next]_vars => LInv' /\ [W!Escrow!Next]_(W!Escrow!vars)
  BY LNextStep DEF EscrowStep
<1> QED BY <1>1, <1>2, PTL
        DEF Spec, WithdrawalsImplementEscrow, W!ImplementsEscrow, W!Escrow!Spec
=============================================================================
