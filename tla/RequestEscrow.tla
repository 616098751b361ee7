---------------------------- MODULE RequestEscrow ----------------------------
(***************************************************************************)
(* What the request handlers promise about tokens, with nothing else of    *)
(* them: users leave tokens in a vault when they open a request, and every *)
(* token a request holds leaves the vault once, before the request is      *)
(* closed for good.  OrderHandler, DepositHandler and WithdrawalHandler    *)
(* each implement it.                                                      *)
(***************************************************************************)
EXTENDS PrefixSum

CONSTANTS
  Tokens,
  MaxKey,      \* bound on the keys: they are 1..MaxKey
  MaxBalance   \* bound on the balance of a token

\* What the proofs take for granted of the bounds.
Bounds == MaxKey \in Nat /\ MaxBalance \in Nat

VARIABLES
  balance,     \* balance[t]: the tokens in the vault
  held,        \* held[t][k]: those of them that belong to request k
  phase        \* phase[k]: "unused", "open" or "closed"

vars == <<balance, held, phase>>

Keys == 1..MaxKey
Amounts == 0..MaxBalance

TypeOK ==
  /\ balance \in [Tokens -> Nat]
  /\ held \in [Tokens -> [Keys -> Nat]]
  /\ phase \in [Keys -> {"unused", "open", "closed"}]

Init ==
  /\ balance = [t \in Tokens |-> 0]
  /\ held = [t \in Tokens |-> [k \in Keys |-> 0]]
  /\ phase = [k \in Keys |-> "unused"]

\* The tokens in the vault that belong to no request.
Free(t) == balance[t] - Total(held[t], MaxKey)

\* Tokens arrive.
Receive(t, amount) ==
  /\ balance[t] + amount <= MaxBalance
  /\ balance' = [balance EXCEPT ![t] = @ + amount]
  /\ UNCHANGED <<held, phase>>

\* A request takes an unused key, and tokens that arrived for nobody else.
Open(k, amounts) ==
  /\ phase[k] = "unused"
  /\ \A t \in Tokens : amounts[t] <= Free(t)
  /\ held' = [t \in Tokens |-> [held[t] EXCEPT ![k] = amounts[t]]]
  /\ phase' = [phase EXCEPT ![k] = "open"]
  /\ UNCHANGED balance

\* An unused key is given to a request of another vault.
Pass(k) ==
  /\ phase[k] = "unused"
  /\ phase' = [phase EXCEPT ![k] = "closed"]
  /\ UNCHANGED <<balance, held>>

\* An open request gets more tokens.
TopUp(k, t, amount) ==
  /\ phase[k] = "open"
  /\ amount <= Free(t)
  /\ held' = [held EXCEPT ![t][k] = @ + amount]
  /\ UNCHANGED <<balance, phase>>

\* An open request pays out some of its tokens; with the last of them it may
\* be closed.
Release(k, amounts) ==
  /\ phase[k] = "open"
  /\ \A t \in Tokens : amounts[t] <= held[t][k]
  /\ balance' = [t \in Tokens |-> balance[t] - amounts[t]]
  /\ held' = [t \in Tokens |-> [held[t] EXCEPT ![k] = @ - amounts[t]]]
  /\ \/ UNCHANGED phase
     \/ /\ \A t \in Tokens : amounts[t] = held[t][k]
        /\ phase' = [phase EXCEPT ![k] = "closed"]

Next ==
  \/ \E t \in Tokens, amount \in Amounts : Receive(t, amount)
  \/ \E k \in Keys, amounts \in [Tokens -> Amounts] :
       Open(k, amounts) \/ Release(k, amounts)
  \/ \E k \in Keys : Pass(k)
  \/ \E k \in Keys, t \in Tokens, amount \in Amounts : TopUp(k, t, amount)

Spec == Init /\ [][Next]_vars

-----------------------------------------------------------------------------
\* The vault always has the tokens of all its requests.
Backed == \A t \in Tokens : Total(held[t], MaxKey) <= balance[t]

\* A closed request holds nothing, and stays closed.
ClosedIsFinal ==
  [][\A k \in Keys : phase[k] = "closed" =>
       /\ phase'[k] = "closed"
       /\ \A t \in Tokens : held[t][k] = 0 /\ held'[t][k] = 0]_vars
=============================================================================
