--------------------------- MODULE SubaccountProofs --------------------------
(***************************************************************************)
(* What a subaccount can do and draw is bounded by what its account has    *)
(* ever allowed, whatever the wallet's scripts, keepers and helpers do     *)
(* beside it, and whatever the wallet holds and the gas costs.             *)
(***************************************************************************)
EXTENDS Subaccounts, TLAPS

USE SubaccountsAssumption

SubaccountTypeOK ==
    /\ gasPrice \in Nat
    /\ subaccount \in [listed : BOOLEAN, maxCount : Nat, count : Nat, topUp : Nat,
                       enabled : BOOLEAN]
    /\ spent \in [allowed : Nat, topUp : Nat, actions : Nat, toppedUp : Nat]

\* What is in force has been set, and what was set is remembered.
SetBefore ==
    /\ subaccount.maxCount <= spent.allowed
    /\ subaccount.topUp <= spent.topUp

\* Every action is counted, and the count is never more than was allowed.
Counted ==
    /\ spent.actions = subaccount.count
    /\ subaccount.count <= spent.allowed

\* An action draws one amount at most.
DrawnPerAction == spent.toppedUp <= spent.actions * spent.topUp

SInv == SubaccountTypeOK /\ SetBefore /\ Counted /\ DrawnPerAction

-----------------------------------------------------------------------------
\* A product grows with its factors.
LEMMA ProductGrows ==
    ASSUME NEW m \in Nat, NEW n \in Nat, NEW k \in Nat, m <= n
    PROVE  m * k \in Nat /\ m * k <= n * k /\ k * m <= k * n
<1>1. PICK d \in Nat : n = m + d
    <2>1. n - m \in Nat /\ n = m + (n - m)  OBVIOUS
    <2> QED BY <2>1
<1>2. n * k = m * k + d * k /\ k * n = k * m + k * d  BY <1>1
<1>3. m * k \in Nat /\ d * k \in Nat /\ k * m \in Nat /\ k * d \in Nat  BY <1>1
<1> QED BY <1>2, <1>3

LEMMA MostFacts ==
    ASSUME NEW m \in Nat, NEW n \in Nat
    PROVE  Most(m, n) \in Nat /\ m <= Most(m, n) /\ n <= Most(m, n)
BY DEF Most

\* A top-up is never more than the amount set, whatever is left in the wallet,
\* is allowed to the Router, or was used.
LEMMA TopUpIsCapped ==
    ASSUME SubaccountTypeOK, NEW c, NEW executionFee \in Nat, NEW gasUsed \in GasUses
    PROVE  /\ TopUp(c, executionFee, gasUsed) \in Nat
           /\ TopUp(c, executionFee, gasUsed) <= subaccount.topUp
<1>1. gasUsed * gasPrice + executionFee \in Nat
    <2>1. gasUsed \in Nat /\ gasPrice \in Nat  BY DEF SubaccountTypeOK
    <2>2. gasUsed * gasPrice \in Nat  BY <2>1
    <2> QED BY <2>2
<1>2. subaccount.topUp \in Nat  BY DEF SubaccountTypeOK
<1> QED BY <1>1, <1>2 DEF TopUp

-----------------------------------------------------------------------------
LEMMA InitSInv == Init => SInv
<1> SUFFICES ASSUME Init PROVE SInv
    OBVIOUS
<1>1. gasPrice = 1  BY DEF Init, ClientInit
<1>2. /\ subaccount = [listed |-> FALSE, maxCount |-> 0, count |-> 0, topUp |-> 0,
                       enabled |-> TRUE]
      /\ spent = [allowed |-> 0, topUp |-> 0, actions |-> 0, toppedUp |-> 0]
    BY DEF Init
<1> QED BY <1>1, <1>2
        DEF SInv, SubaccountTypeOK, SetBefore, Counted, DrawnPerAction

\* Whatever the wallet and the keepers do, the gas price stays a number.
LEMMA ClientsKeepGasPrice ==
    ASSUME gasPrice \in Nat, ClientNext
    PROVE  gasPrice' \in Nat
<1>1. CASE \E r \in Runs : Look(r) \/ SendMulticall(r) \/ HandleRequest(r)
    BY <1>1 DEF Look, SendMulticall, HandleRequest
<1>2. CASE Mine  BY <1>2 DEF Mine
<1>3. CASE \E v \in Vaults : \E i \in DOMAIN chain.requests[v] : KeeperSettles(v, i)
    BY <1>3 DEF KeeperSettles
<1>4. CASE \E i \in DOMAIN chain.requests["OrderVault"] : KeeperFreezes(i)
    BY <1>4 DEF KeeperFreezes
<1>5. CASE GasPriceRises  BY <1>5 DEF GasPriceRises
<1> QED BY <1>1, <1>2, <1>3, <1>4, <1>5 DEF ClientNext

\* Adding and removing the subaccount and switching the feature off forget nothing.
LEMMA ListingStep ==
    ASSUME SInv, AddSubaccount \/ RemoveSubaccount \/ DisableFeature
    PROVE  SInv'
<1>1. gasPrice' = gasPrice /\ spent' = spent
    BY DEF AddSubaccount, RemoveSubaccount, DisableFeature, clientVars
<1>2. /\ subaccount' \in [listed : BOOLEAN, maxCount : Nat, count : Nat, topUp : Nat,
                          enabled : BOOLEAN]
      /\ subaccount'.maxCount = subaccount.maxCount
      /\ subaccount'.count = subaccount.count
      /\ subaccount'.topUp = subaccount.topUp
    BY DEF AddSubaccount, RemoveSubaccount, DisableFeature, SInv, SubaccountTypeOK
<1> QED BY <1>1, <1>2 DEF SInv, SubaccountTypeOK, SetBefore, Counted, DrawnPerAction

LEMMA SetCountStep ==
    ASSUME SInv, NEW n \in ActionCounts, SetMaxAllowedSubaccountActionCount(n)
    PROVE  SInv'
<1>1. /\ gasPrice' = gasPrice
      /\ subaccount' = [subaccount EXCEPT !.maxCount = n]
      /\ spent' = [spent EXCEPT !.allowed = Most(@, n)]
    BY DEF SetMaxAllowedSubaccountActionCount, clientVars
<1>2. /\ Most(spent.allowed, n) \in Nat
      /\ spent.allowed <= Most(spent.allowed, n) /\ n <= Most(spent.allowed, n)
    BY MostFacts DEF SInv, SubaccountTypeOK
<1> QED BY <1>1, <1>2 DEF SInv, SubaccountTypeOK, SetBefore, Counted, DrawnPerAction

LEMMA SetTopUpStep ==
    ASSUME SInv, NEW n \in TopUpAmounts, SetSubaccountAutoTopUpAmount(n)
    PROVE  SInv'
<1>1. /\ gasPrice' = gasPrice
      /\ subaccount' = [subaccount EXCEPT !.topUp = n]
      /\ spent' = [spent EXCEPT !.topUp = Most(@, n)]
    BY DEF SetSubaccountAutoTopUpAmount, clientVars
<1>2. PICK most \in Nat : /\ most = Most(spent.topUp, n)
                          /\ spent.topUp <= most /\ n <= most
    BY MostFacts DEF SInv, SubaccountTypeOK
<1>3. SubaccountTypeOK' /\ SetBefore' /\ Counted'
    BY <1>1, <1>2 DEF SInv, SubaccountTypeOK, SetBefore, Counted
<1>4. spent.actions * spent.topUp <= spent.actions * most
    BY <1>2, ProductGrows DEF SInv, SubaccountTypeOK
<1>5. DrawnPerAction'
    <2>1. /\ spent'.actions = spent.actions /\ spent'.toppedUp = spent.toppedUp
          /\ spent'.topUp = most
        BY <1>1, <1>2 DEF SInv, SubaccountTypeOK
    <2>2. /\ spent.toppedUp \in Nat /\ spent.actions * spent.topUp \in Nat
          /\ spent.actions * most \in Nat
        BY <1>2, ProductGrows DEF SInv, SubaccountTypeOK
    <2> QED BY <1>4, <2>1, <2>2 DEF SInv, DrawnPerAction
<1> QED BY <1>3, <1>5 DEF SInv

\* An action is counted before it does anything, and draws the capped top-up.
LEMMA ActStep ==
    ASSUME SInv, NEW after, NEW executionFee \in Nat, Act(after, executionFee)
    PROVE  SInv'
<1>1. PICK gasUsed \in GasUses :
        spent' = [spent EXCEPT !.actions = @ + 1,
                               !.toppedUp = @ + TopUp(after, executionFee, gasUsed)]
    BY DEF Act
<1>2. PICK amount \in Nat : /\ amount = TopUp(after, executionFee, gasUsed)
                            /\ amount <= subaccount.topUp
    BY TopUpIsCapped DEF SInv
<1>3. /\ gasPrice' = gasPrice
      /\ subaccount' = [subaccount EXCEPT !.count = @ + 1]
      /\ subaccount.count < subaccount.maxCount
    BY DEF Act
<1>4. spent' = [spent EXCEPT !.actions = @ + 1, !.toppedUp = @ + amount]
    BY <1>1, <1>2
<1>5. SubaccountTypeOK' /\ SetBefore' /\ Counted'
    <2>1. SubaccountTypeOK'
        <3>1. subaccount' \in [listed : BOOLEAN, maxCount : Nat, count : Nat, topUp : Nat,
                               enabled : BOOLEAN]
            BY <1>3 DEF SInv, SubaccountTypeOK
        <3>2. spent' \in [allowed : Nat, topUp : Nat, actions : Nat, toppedUp : Nat]
            <4>1. spent.actions + 1 \in Nat /\ spent.toppedUp + amount \in Nat
                BY DEF SInv, SubaccountTypeOK
            <4> QED BY <1>4, <4>1 DEF SInv, SubaccountTypeOK
        <3> QED BY <1>3, <3>1, <3>2 DEF SInv, SubaccountTypeOK
    <2>2. /\ subaccount'.maxCount = subaccount.maxCount
          /\ subaccount'.count = subaccount.count + 1
          /\ subaccount'.topUp = subaccount.topUp
        BY <1>3 DEF SInv, SubaccountTypeOK
    <2>3. /\ spent'.allowed = spent.allowed /\ spent'.topUp = spent.topUp
          /\ spent'.actions = spent.actions + 1
        BY <1>4 DEF SInv, SubaccountTypeOK
    <2>4. SetBefore'  BY <2>2, <2>3 DEF SInv, SetBefore
    <2>5. Counted'
        <3>1. /\ subaccount.count \in Nat /\ subaccount.maxCount \in Nat
              /\ spent.allowed \in Nat
            BY DEF SInv, SubaccountTypeOK
        <3> QED BY <1>3, <2>2, <2>3, <3>1 DEF SInv, SetBefore, Counted
    <2> QED BY <2>1, <2>4, <2>5
<1>6. DrawnPerAction'
    <2>1. PICK actions \in Nat, drawn \in Nat, most \in Nat :
            /\ actions = spent.actions /\ drawn = spent.toppedUp /\ most = spent.topUp
        BY DEF SInv, SubaccountTypeOK
    <2>2. /\ spent'.actions = actions + 1 /\ spent'.toppedUp = drawn + amount
          /\ spent'.topUp = most
        BY <1>4, <2>1 DEF SInv, SubaccountTypeOK
    <2>3. amount <= most
        <3>1. subaccount.topUp \in Nat /\ subaccount.topUp <= most
            BY <2>1 DEF SInv, SubaccountTypeOK, SetBefore
        <3> QED BY <1>2, <3>1
    <2>4. drawn <= actions * most  BY <2>1 DEF SInv, DrawnPerAction
    <2>5. PICK product \in Nat : product = actions * most  OBVIOUS
    <2>6. (actions + 1) * most = product + most  BY <2>5
    <2>7. drawn + amount <= product + most  BY <2>3, <2>4, <2>5
    <2> QED BY <2>2, <2>6, <2>7 DEF DrawnPerAction
<1> QED BY <1>5, <1>6 DEF SInv

LEMMA NextSInv == SInv /\ [Next]_vars => SInv'
<1> SUFFICES ASSUME SInv, [Next]_vars PROVE SInv'
    OBVIOUS
<1>1. CASE ClientNext /\ UNCHANGED subaccountVars
    <2>1. gasPrice' \in Nat  BY <1>1, ClientsKeepGasPrice DEF SInv, SubaccountTypeOK
    <2>2. subaccount' = subaccount /\ spent' = spent  BY <1>1 DEF subaccountVars
    <2> QED BY <2>1, <2>2
            DEF SInv, SubaccountTypeOK, SetBefore, Counted, DrawnPerAction
<1>2. CASE AccountNext
    BY <1>2, ListingStep, SetCountStep, SetTopUpStep DEF AccountNext
<1>3. CASE SubaccountNext
    <2>1. ASSUME NEW token, NEW fee \in SubaccountFees, NEW sent,
                 CreateSubaccountOrder(token, 3, fee, sent)
          PROVE  SInv'
        <3>1. fee \in Nat  OBVIOUS
        <3> QED BY <2>1, <3>1, ActStep DEF CreateSubaccountOrder
    <2>2. ASSUME NEW i, CancelSubaccountOrder(i)  PROVE SInv'
        BY <2>2, ActStep DEF CancelSubaccountOrder
    <2>3. ASSUME NEW i, NEW sent, UpdateSubaccountOrder(i, sent)  PROVE SInv'
        BY <2>3, ActStep DEF UpdateSubaccountOrder
    <2> QED BY <1>3, <2>1, <2>2, <2>3 DEF SubaccountNext
<1>4. CASE UNCHANGED vars
    <2>1. gasPrice' = gasPrice /\ subaccount' = subaccount /\ spent' = spent
        BY <1>4 DEF vars, clientVars, subaccountVars
    <2> QED BY <2>1 DEF SInv, SubaccountTypeOK, SetBefore, Counted, DrawnPerAction
<1> QED BY <1>1, <1>2, <1>3, <1>4 DEF Next

\* Whatever the account sets, removes and sets again, and whatever its wallet and
\* the keepers do meanwhile, its subaccount neither acts more often nor draws more
\* than it was allowed at the most generous.
THEOREM SubaccountsStayBounded == Spec => []SubaccountIsBounded
<1>1. SInv => SubaccountIsBounded
    <2> SUFFICES ASSUME SInv PROVE SubaccountIsBounded
        OBVIOUS
    <2>1. PICK actions \in Nat, allowed \in Nat, most \in Nat, drawn \in Nat :
            /\ actions = spent.actions /\ allowed = spent.allowed
            /\ most = spent.topUp /\ drawn = spent.toppedUp
        BY DEF SInv, SubaccountTypeOK
    <2>2. actions <= allowed  BY <2>1 DEF SInv, SubaccountTypeOK, Counted
    <2>3. drawn <= actions * most  BY <2>1 DEF SInv, DrawnPerAction
    <2>4. actions * most \in Nat /\ allowed * most \in Nat
          /\ actions * most <= allowed * most
        BY <2>2, ProductGrows
    <2>5. drawn <= allowed * most  BY <2>3, <2>4
    <2> QED BY <2>1, <2>2, <2>5 DEF SubaccountIsBounded
<1> QED BY <1>1, InitSInv, NextSInv, PTL DEF Spec
=============================================================================
