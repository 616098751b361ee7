------------------------- MODULE RequestEscrowProofs -------------------------
(***************************************************************************)
(* The escrow keeps its promises for any tokens, keys and amounts.         *)
(***************************************************************************)
EXTENDS RequestEscrow, SumProofs

USE DEF Keys, Amounts, Bounds

\* Only an open request holds tokens.
OnlyOpenHold ==
  \A t \in Tokens, k \in Keys : phase[k] # "open" => held[t][k] = 0

IInv == TypeOK /\ Backed /\ OnlyOpenHold

LEMMA InitIInv ==
  ASSUME Bounds PROVE Init => IInv
<1> SUFFICES ASSUME Init PROVE IInv
  OBVIOUS
<1>1. TypeOK  BY DEF Init, TypeOK
<1>2. OnlyOpenHold  BY DEF Init, OnlyOpenHold
<1>3. Backed
  <2> SUFFICES ASSUME NEW t \in Tokens
               PROVE  Total(held[t], MaxKey) = 0 /\ balance[t] = 0
    BY DEF Backed
  <2>1. /\ held[t] \in [1..MaxKey -> Nat]
        /\ \A k \in 1..MaxKey : held[t][k] = 0
    BY DEF Init
  <2> QED BY <2>1, TotalZero DEF Init
<1> QED BY <1>1, <1>2, <1>3 DEF IInv

\* A step that changes one request and the balance of a token by as much keeps
\* the token backed; so does one that takes no more than what is free.
LEMMA BackedStep ==
  ASSUME Bounds, IInv, NEW t \in Tokens, NEW k \in Keys, NEW v \in Nat,
         held'[t] = [held[t] EXCEPT ![k] = v],
         v - held[t][k] <= balance'[t] - Total(held[t], MaxKey),
         balance'[t] \in Int
  PROVE  Total(held'[t], MaxKey) <= balance'[t]
<1>1. /\ held[t] \in [1..MaxKey -> Nat] /\ held[t] \in [1..MaxKey -> Int]
      /\ held[t][k] \in Nat
  <2>1. held[t] \in [Keys -> Nat]  BY DEF IInv, TypeOK
  <2> QED BY <2>1
<1>2. Total([held[t] EXCEPT ![k] = v], MaxKey)
        = Total(held[t], MaxKey) - held[t][k] + v
  BY <1>1, TotalUpdate
<1>3. Total(held[t], MaxKey) \in Nat  BY <1>1, TotalBounds
<1> QED BY <1>1, <1>2, <1>3

LEMMA NextIInv ==
  ASSUME Bounds, IInv, [Next]_vars
  PROVE  IInv'
<1>1. /\ balance \in [Tokens -> Nat]
      /\ held \in [Tokens -> [Keys -> Nat]]
      /\ phase \in [Keys -> {"unused", "open", "closed"}]
      /\ OnlyOpenHold
      /\ \A t \in Tokens : /\ Total(held[t], MaxKey) \in Nat
                           /\ Total(held[t], MaxKey) <= balance[t]
                           /\ \A k \in Keys : held[t][k] <= Total(held[t], MaxKey)
  BY TotalBounds DEF IInv, TypeOK, Backed
<1>2. ASSUME NEW t \in Tokens, NEW amount \in Amounts, Receive(t, amount)
      PROVE  IInv'
  <2>1. TypeOK'  BY <1>1, <1>2 DEF Receive, TypeOK
  <2>2. Backed'  BY <1>1, <1>2 DEF Receive, Backed
  <2>3. OnlyOpenHold'  BY <1>1, <1>2 DEF Receive, OnlyOpenHold
  <2> QED BY <2>1, <2>2, <2>3 DEF IInv
<1>3. ASSUME NEW k \in Keys, NEW amounts \in [Tokens -> Amounts], Open(k, amounts)
      PROVE  IInv'
  <2>1. TypeOK'
    <3>1. held' \in [Tokens -> [Keys -> Nat]]  BY <1>1, <1>3 DEF Open
    <3> QED BY <1>1, <1>3, <3>1 DEF Open, TypeOK
  <2>2. Backed'
    <3> SUFFICES ASSUME NEW t \in Tokens
                 PROVE  Total(held'[t], MaxKey) <= balance'[t]
      BY DEF Backed
    <3>1. amounts[t] <= balance[t] - Total(held[t], MaxKey)
      BY <1>3 DEF Open, Free
    <3>2. held'[t] = [held[t] EXCEPT ![k] = amounts[t]] /\ balance' = balance
      BY <1>3 DEF Open
    <3>3. held[t][k] = 0  BY <1>1, <1>3 DEF Open, OnlyOpenHold
    <3>4. amounts[t] \in Nat /\ balance[t] \in Int  BY <1>1
    <3>5. amounts[t] - held[t][k] <= balance'[t] - Total(held[t], MaxKey)
      BY <3>1, <3>2, <3>3, <3>4, <1>1
    <3>6. balance'[t] \in Int  BY <3>2, <3>4
    <3> QED BY <3>2, <3>4, <3>5, <3>6, BackedStep
  <2>3. OnlyOpenHold'  BY <1>1, <1>3 DEF Open, OnlyOpenHold
  <2> QED BY <2>1, <2>2, <2>3 DEF IInv
<1>4. ASSUME NEW k \in Keys, NEW t \in Tokens, NEW amount \in Amounts,
             TopUp(k, t, amount)
      PROVE  IInv'
  <2> DEFINE v == held[t][k] + amount
  <2>1. v \in Nat /\ amount \in Nat /\ held[t][k] \in Nat  BY <1>1
  <2>2. /\ held' = [held EXCEPT ![t] = [held[t] EXCEPT ![k] = v]]
        /\ UNCHANGED <<balance, phase>> /\ phase[k] = "open"
    BY <1>1, <1>4 DEF TopUp
  <2>3. amount <= balance[t] - Total(held[t], MaxKey)
    BY <1>4 DEF TopUp, Free
  <2>4. v - held[t][k] <= balance[t] - Total(held[t], MaxKey)
    BY <2>1, <2>3, <1>1
  <2> HIDE DEF v
  <2>5. TypeOK'
    <3>1. held' \in [Tokens -> [Keys -> Nat]]  BY <1>1, <2>1, <2>2
    <3> QED BY <1>1, <2>2, <3>1 DEF TypeOK
  <2>6. Backed'
    <3> SUFFICES ASSUME NEW u \in Tokens
                 PROVE  Total(held'[u], MaxKey) <= balance'[u]
      BY DEF Backed
    <3>1. CASE u = t
      <4>1. held'[t] = [held[t] EXCEPT ![k] = v]  BY <1>1, <2>2
      <4>2. balance'[t] = balance[t] /\ balance[t] \in Int  BY <1>1, <2>2
      <4>3. Total(held'[t], MaxKey) <= balance'[t]
        BY <4>1, <4>2, <2>1, <2>4, BackedStep
      <4> QED BY <3>1, <4>3
    <3>2. CASE u # t
      <4>1. held'[u] = held[u] /\ balance'[u] = balance[u]  BY <3>2, <1>1, <2>2
      <4> QED BY <4>1, <1>1
    <3> QED BY <3>1, <3>2
  <2>7. OnlyOpenHold'  BY <1>1, <2>2 DEF OnlyOpenHold
  <2> QED BY <2>5, <2>6, <2>7 DEF IInv
<1>5. ASSUME NEW k \in Keys, NEW amounts \in [Tokens -> Amounts], Release(k, amounts)
      PROVE  IInv'
  <2> DEFINE rest(t) == held[t][k] - amounts[t]
  <2>1. ASSUME NEW t \in Tokens
        PROVE  /\ amounts[t] \in Nat /\ held[t][k] \in Nat
               /\ amounts[t] <= held[t][k]
               /\ balance'[t] = balance[t] - amounts[t] /\ balance'[t] \in Nat
               /\ rest(t) \in Nat /\ rest(t) = held[t][k] - amounts[t]
               /\ held'[t] = [held[t] EXCEPT ![k] = rest(t)]
               /\ held'[t] \in [Keys -> Nat]
               /\ held'[t][k] = rest(t)
               /\ \A j \in Keys \ {k} : held'[t][j] = held[t][j]
    <3>1. /\ amounts[t] \in Nat /\ held[t][k] \in Nat /\ balance[t] \in Nat
          /\ amounts[t] <= held[t][k]
          /\ balance'[t] = balance[t] - amounts[t]
      BY <1>1, <1>5 DEF Release
    <3>2. held[t][k] <= balance[t] /\ Total(held[t], MaxKey) \in Nat
      BY <1>1, <3>1
    <3>3. balance'[t] \in Nat /\ rest(t) \in Nat  BY <3>1, <3>2
    <3>4. held'[t] = [held[t] EXCEPT ![k] = rest(t)]  BY <1>5 DEF Release
    <3>5. held[t] \in [Keys -> Nat]  BY <1>1
    <3> DEFINE r == rest(t)
    <3>6. r \in Nat /\ held'[t] = [held[t] EXCEPT ![k] = r]  BY <3>3, <3>4
    <3> HIDE DEF r
    <3>7. /\ held'[t] \in [Keys -> Nat] /\ held'[t][k] = r
          /\ \A j \in Keys \ {k} : held'[t][j] = held[t][j]
      BY <3>5, <3>6
    <3> QED BY <3>1, <3>3, <3>4, <3>7 DEF r
  <2>2. balance' = [t \in Tokens |-> balance[t] - amounts[t]]
        /\ held' = [t \in Tokens |-> [held[t] EXCEPT ![k] = @ - amounts[t]]]
    BY <1>5 DEF Release
  <2>3. \/ UNCHANGED phase
        \/ /\ \A t \in Tokens : amounts[t] = held[t][k]
           /\ phase' = [phase EXCEPT ![k] = "closed"]
    BY <1>5 DEF Release
  <2>4. TypeOK'
    <3>1. balance' \in [Tokens -> Nat]  BY <2>1, <2>2
    <3>2. held' \in [Tokens -> [Keys -> Nat]]
      <4>1. \A t \in Tokens : held'[t] \in [Keys -> Nat]  BY <2>1
      <4>2. DOMAIN held' = Tokens /\ held' = [t \in Tokens |-> held'[t]]
        BY <2>2
      <4> QED BY <4>1, <4>2
    <3>3. phase' \in [Keys -> {"unused", "open", "closed"}]  BY <1>1, <2>3
    <3> QED BY <3>1, <3>2, <3>3 DEF TypeOK
  <2>5. Backed'
    <3> SUFFICES ASSUME NEW t \in Tokens
                 PROVE  Total(held'[t], MaxKey) <= balance'[t]
      BY DEF Backed
    <3> DEFINE v == rest(t)
    <3>1. v \in Nat /\ held'[t] = [held[t] EXCEPT ![k] = v] /\ balance'[t] \in Int
      BY <2>1
    <3>2. v - held[t][k] <= balance'[t] - Total(held[t], MaxKey)
      <4>1. /\ v = held[t][k] - amounts[t]
            /\ balance'[t] = balance[t] - amounts[t]
            /\ amounts[t] \in Nat /\ held[t][k] \in Nat
        BY <2>1
      <4>2. /\ Total(held[t], MaxKey) \in Nat /\ balance[t] \in Nat
            /\ Total(held[t], MaxKey) <= balance[t]
        BY <1>1
      <4> HIDE DEF v, rest
      <4> QED BY <4>1, <4>2
    <3> HIDE DEF v, rest
    <3> QED BY <3>1, <3>2, BackedStep
  <2>6. OnlyOpenHold'
    <3> SUFFICES ASSUME NEW t \in Tokens, NEW j \in Keys, phase'[j] # "open"
                 PROVE  held'[t][j] = 0
      BY DEF OnlyOpenHold
    <3>1. CASE j # k
      <4>1. phase'[j] = phase[j]  BY <3>1, <1>1, <2>3
      <4>2. held'[t][j] = held[t][j]  BY <3>1, <2>1
      <4> QED BY <4>1, <4>2, <1>1 DEF OnlyOpenHold
    <3>2. CASE j = k
      <4>1. phase[k] = "open"  BY <1>5 DEF Release
      <4>2. amounts[t] = held[t][k]  BY <4>1, <3>2, <2>3
      <4>3. rest(t) = held[t][k] - amounts[t] /\ held[t][k] \in Nat  BY <2>1
      <4>4. held'[t][k] = rest(t)  BY <2>1
      <4> HIDE DEF rest
      <4> QED BY <4>2, <4>3, <4>4, <3>2
    <3> QED BY <3>1, <3>2
  <2> QED BY <2>4, <2>5, <2>6 DEF IInv
<1>6. CASE UNCHANGED vars
  BY <1>6 DEF vars, IInv, TypeOK, Backed, OnlyOpenHold
<1>7. ASSUME NEW k \in Keys, Pass(k)
      PROVE  IInv'
  <2>1. /\ phase' = [phase EXCEPT ![k] = "closed"] /\ phase[k] = "unused"
        /\ UNCHANGED <<balance, held>>
    BY <1>7 DEF Pass
  <2>2. TypeOK'  BY <1>1, <2>1 DEF TypeOK
  <2>3. Backed'  BY <1>1, <2>1 DEF Backed
  <2>4. OnlyOpenHold'  BY <1>1, <2>1 DEF OnlyOpenHold
  <2> QED BY <2>2, <2>3, <2>4 DEF IInv
<1> QED BY <1>2, <1>3, <1>4, <1>5, <1>6, <1>7 DEF Next

\* The escrow has the tokens of all its requests, for any number of requests.
THEOREM EscrowIsBacked ==
  ASSUME Bounds PROVE Spec => []Backed
<1>1. IInv => Backed  BY DEF IInv
<1> QED BY InitIInv, NextIInv, <1>1, PTL DEF Spec

\* A closed request never opens again and never holds anything again.
THEOREM EscrowClosesOnce ==
  ASSUME Bounds PROVE Spec => ClosedIsFinal
<1> DEFINE Final == \A k \in Keys : phase[k] = "closed" =>
                      /\ phase'[k] = "closed"
                      /\ \A t \in Tokens : held[t][k] = 0 /\ held'[t][k] = 0
<1>1. ASSUME IInv, [Next]_vars
      PROVE  [Final]_vars
  <2>1. OnlyOpenHold /\ OnlyOpenHold' /\ phase \in [Keys -> {"unused", "open", "closed"}]
    BY <1>1, NextIInv DEF IInv, TypeOK
  <2> SUFFICES ASSUME NEW k \in Keys, phase[k] = "closed", Next
               PROVE  phase'[k] = "closed"
    BY <1>1, <2>1 DEF OnlyOpenHold
  <2> QED BY <2>1 DEF Next, Receive, Open, Pass, TopUp, Release
<1>2. Spec => []IInv  BY InitIInv, NextIInv, PTL DEF Spec
<1> QED BY <1>1, <1>2, PTL DEF Spec, ClosedIsFinal
=============================================================================
