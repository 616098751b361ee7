--------------------------- MODULE PositionsProofs ---------------------------
(***************************************************************************)
(* The books of a market add up, whatever the traders, orders, prices,     *)
(* impacts, fees and factors are: every token in the market belongs to     *)
(* somebody, the totals are the sums over the positions, what is kept for  *)
(* claims is what is left to claim, and an insolvent close pays nothing.   *)
(* At prices that stand still no sequence of trades takes value from the   *)
(* pool, but for what payForCost rounds.                                   *)
(***************************************************************************)
EXTENDS Positions, SumProofs

-----------------------------------------------------------------------------
(* Arithmetic. *)

\* What the assumptions on the constants say of tokens, precision and fee factors.
LEMMA ConstantFacts ==
  /\ LongToken # ShortToken /\ Precision \in Nat \ {0}
  /\ \A b \in BOOLEAN : PositionFeeFactor[b] \in Nat /\ MaxPositionImpactFactor[b] \in Nat
  /\ UiFeeFactor \in Nat /\ MaxPnlFactorForTraders \in Nat /\ ReserveFactor \in Nat
BY PositionUtilsAssumption

\* What they say of the factors that take a part of an amount.
LEMMA FactorFacts ==
  /\ TotalRebateFactor \in 0..Precision /\ TraderDiscountFactor \in 0..Precision
  /\ PositionFeeReceiverFactor \in 0..Precision /\ BorrowingFeeReceiverFactor \in 0..Precision
BY PositionUtilsAssumption

\* Integer division by a positive divisor rounds down.
LEMMA DivisionFacts ==
  ASSUME NEW a \in Int, NEW b \in Nat \ {0}
  PROVE  /\ a \div b \in Int /\ b * (a \div b) <= a /\ a < b * (a \div b) + b
         /\ a >= 0 => a \div b \in Nat
OBVIOUS

\* Precision.applyFactor of amounts is an amount, and no larger for a factor up to 1.
LEMMA ApplyFactorFacts ==
  ASSUME NEW value \in Nat, NEW factor \in Nat
  PROVE  /\ ApplyFactor(value, factor) \in Nat
         /\ factor <= Precision => ApplyFactor(value, factor) <= value
<1> DEFINE q == ApplyFactor(value, factor)
<1>1. value * factor \in Nat  OBVIOUS
<1>2. q \in Nat /\ Precision * q <= value * factor
  BY <1>1, ConstantFacts, DivisionFacts DEF ApplyFactor
<1>3. ASSUME factor <= Precision, q >= value + 1  PROVE FALSE
  <2> HIDE DEF q
  <2>0. Precision \in Nat \ {0}  BY ConstantFacts
  <2>1. value * factor <= value * Precision  BY <1>3, <2>0
  <2>2. Precision * q >= Precision * (value + 1)  BY <1>2, <1>3, <2>0
  <2>3. Precision * (value + 1) = value * Precision + Precision  BY <2>0
  <2>4. value * factor \in Nat /\ value * Precision \in Nat /\ Precision * q \in Nat
    BY <2>0, <1>2
  <2> QED BY <2>0, <2>1, <2>2, <2>3, <2>4, <1>2
<1> QED BY <1>2, <1>3

\* A part of an amount is no larger than the amount.
LEMMA PartFacts ==
  ASSUME NEW value \in Nat, NEW factor \in 0..Precision
  PROVE  ApplyFactor(value, factor) \in Nat /\ ApplyFactor(value, factor) <= value
<1>1. factor \in Nat /\ factor <= Precision  BY ConstantFacts
<1> QED BY <1>1, ApplyFactorFacts

\* The quotient of an amount is an amount.
LEMMA FloorFacts ==
  ASSUME NEW a \in Nat, NEW b \in Nat \ {0}
  PROVE  a \div b \in Nat
BY DivisionFacts

\* Calc.roundUpDivision of an amount is an amount.
LEMMA RoundUpDivisionFacts ==
  ASSUME NEW a \in Nat, NEW b \in Nat \ {0}
  PROVE  RoundUpDivision(a, b) \in Nat
BY DivisionFacts DEF RoundUpDivision

\* The truncating division of the source gives an integer.
LEMMA QuotientFacts ==
  ASSUME NEW a \in Int, NEW b \in Nat \ {0}
  PROVE  Quotient(a, b) \in Int
BY DivisionFacts DEF Quotient

\* Calc.roundUpMagnitudeDivision gives an integer.
LEMMA RoundUpMagnitudeFacts ==
  ASSUME NEW a \in Int, NEW b \in Nat \ {0}
  PROVE  RoundUpMagnitudeDivision(a, b) \in Int
BY RoundUpDivisionFacts DEF RoundUpMagnitudeDivision

\* The lesser of two numbers is one of them.
LEMMA LeastFacts ==
  ASSUME NEW a \in Int, NEW b \in Int
  PROVE  /\ Least(a, b) \in {a, b} /\ Least(a, b) <= a /\ Least(a, b) <= b
BY DEF Least

-----------------------------------------------------------------------------
(* The fees of a position are split without a rest. *)

Fees == [forPool : Nat, forReceiver : Nat, forUi : Nat, forAffiliate : Nat,
         funding : Nat, excludingFunding : Nat, total : Nat]

FeesAddUp(fees) ==
  /\ fees.excludingFunding = fees.forPool + fees.forReceiver + fees.forUi + fees.forAffiliate
  /\ fees.total = fees.excludingFunding + fees.funding

\* PositionPricingUtils.getPositionFees: the parts of the fees are amounts and add up.
LEMMA PositionFeesFacts ==
  ASSUME NEW m \in Market, NEW position \in Position, NEW isLong \in BOOLEAN,
         position.borrowingFactor <= m.cumulativeBorrowingFactor[isLong],
         NEW price \in PriceRange, NEW size \in Nat, NEW positive \in BOOLEAN,
         NEW referred \in BOOLEAN, NEW ui \in BOOLEAN, NEW fundingFee \in Nat
  PROVE  LET fees == PositionFees(m, position, isLong, price, size, positive, referred, ui, fundingFee)
         IN fees \in Fees /\ FeesAddUp(fees)
<1> DEFINE positionFee == ApplyFactor(size, PositionFeeFactor[positive]) \div price.min
           rebate == IF referred THEN ApplyFactor(positionFee, TotalRebateFactor) ELSE 0
           discount == ApplyFactor(rebate, TraderDiscountFactor)
           protocolFee == positionFee - rebate
           receiverPart == ApplyFactor(protocolFee, PositionFeeReceiverFactor)
           borrowingFee == BorrowingFeeUsd(m, position, isLong) \div price.min
           borrowingPart == ApplyFactor(borrowingFee, BorrowingFeeReceiverFactor)
           uiFee == IF ui THEN ApplyFactor(size, UiFeeFactor) \div price.min ELSE 0
<1>1. price.min \in Nat \ {0}  BY DEF PriceRange
<1>2. positionFee \in Nat
  <2>1. PositionFeeFactor[positive] \in Nat  BY ConstantFacts
  <2>2. ApplyFactor(size, PositionFeeFactor[positive]) \in Nat  BY <2>1, ApplyFactorFacts
  <2> QED BY <1>1, <2>2, FloorFacts
<1>3. borrowingFee \in Nat
  <2>1. position.sizeInUsd \in Nat
        /\ m.cumulativeBorrowingFactor[isLong] - position.borrowingFactor \in Nat
    BY DEF Market, Position
  <2>2. BorrowingFeeUsd(m, position, isLong) \in Nat
    BY <2>1, ApplyFactorFacts DEF BorrowingFeeUsd
  <2> QED BY <1>1, <2>2, FloorFacts
<1>4. uiFee \in Nat
  <2>1. UiFeeFactor \in Nat  BY ConstantFacts
  <2>2. ApplyFactor(size, UiFeeFactor) \in Nat  BY <2>1, ApplyFactorFacts
  <2>3. ApplyFactor(size, UiFeeFactor) \div price.min \in Nat  BY <1>1, <2>2, FloorFacts
  <2> QED BY <2>3
<1> HIDE DEF positionFee, borrowingFee, uiFee
<1> USE FactorFacts
<1>5. rebate \in Nat /\ rebate <= positionFee
  <2>1. ApplyFactor(positionFee, TotalRebateFactor) \in Nat
        /\ ApplyFactor(positionFee, TotalRebateFactor) <= positionFee
    BY <1>2, PartFacts
  <2> QED BY <1>2, <2>1
<1> HIDE DEF rebate
<1>6. discount \in Nat /\ discount <= rebate  BY <1>5, PartFacts
<1>7. protocolFee \in Nat  BY <1>2, <1>5
<1> HIDE DEF discount, protocolFee
<1>8. receiverPart \in Nat /\ receiverPart <= protocolFee  BY <1>7, PartFacts
<1>9. borrowingPart \in Nat /\ borrowingPart <= borrowingFee  BY <1>3, PartFacts
<1> HIDE DEF receiverPart, borrowingPart
<1> DEFINE excluding == positionFee + borrowingFee + uiFee - discount
<1>10. PositionFees(m, position, isLong, price, size, positive, referred, ui, fundingFee)
        = [forPool |-> protocolFee - receiverPart + borrowingFee - borrowingPart,
           forReceiver |-> receiverPart + borrowingPart,
           forUi |-> uiFee,
           forAffiliate |-> rebate - discount,
           funding |-> fundingFee,
           excludingFunding |-> excluding,
           total |-> excluding + fundingFee]
  BY DEF PositionFees, positionFee, rebate, discount, protocolFee, receiverPart,
         borrowingFee, borrowingPart, uiFee
<1>11. protocolFee = positionFee - rebate  BY DEF protocolFee
<1> QED BY <1>2, <1>3, <1>4, <1>5, <1>6, <1>7, <1>8, <1>9, <1>10, <1>11 DEF Fees, FeesAddUp

-----------------------------------------------------------------------------
(* While an order is executed.  The books, where a value may be negative    *)
(* until it is checked; what a decrease works on; and what is fixed for it. *)

Books ==
  [balance : [Tokens -> Int], poolAmount : [Tokens -> Int],
   claimableFee : Amounts, claimableUiFee : Amounts, affiliateReward : Amounts,
   claimableCollateral : Amounts, claimableFunding : Amounts,
   collateralOf : AmountsOf, claimedOf : AmountsOf, fundingOf : AmountsOf,
   positionImpactPool : Nat,
   openInterest : [Sides -> Int], openInterestInTokens : [Sides -> Int],
   collateralSum : [Sides -> Int],
   cumulativeBorrowingFactor : [BOOLEAN -> Nat], totalBorrowing : [BOOLEAN -> Int]]

Working ==
  [market : Books, history : History, affiliateReward : Nat,
   output : Nat, secondary : Nat, collateral : Nat,
   unpaidUsd : Nat, paid : Nat, paidSecondary : Nat]

Prices == [index : PriceRange, long : PriceRange, short : PriceRange]

Deal(d) ==
  /\ d.token \in Tokens /\ d.pnlToken \in Tokens /\ d.account \in Accounts
  /\ d.prices \in Prices /\ d.price \in PriceRange /\ d.pnlPrice \in PriceRange
  /\ d.sizeDeltaUsd \in Nat /\ d.tokens \in Nat /\ d.collateralDelta \in Nat
  /\ d.impact \in [usd : Int, diffUsd : Nat] /\ d.pnlUsd \in Int
  /\ d.fees \in Fees /\ FeesAddUp(d.fees)

\* What a cost cannot be paid with is not there.
Broke(x) == x.unpaidUsd # 0 => x.output = 0 /\ x.collateral = 0 /\ x.secondary = 0

\* payForCost: what a cost is paid with leaves the output, the collateral or the
\* secondary output, and a debt remains only when all three are empty.
LEMMA PayFacts ==
  ASSUME NEW x \in Working, NEW d, Deal(d), NEW costUsd \in Nat,
         NEW y, y = Pay(x, d, costUsd)
  PROVE  /\ y \in Working /\ Broke(y)
         /\ y.market = x.market /\ y.history = x.history
         /\ y.affiliateReward = x.affiliateReward
         /\ y.output + y.collateral + y.paid = x.output + x.collateral
         /\ y.secondary + y.paidSecondary = x.secondary
<1> DEFINE price == d.price.min
           secondaryPrice == d.pnlPrice.min
           cost == RoundUpDivision(costUsd, price)
           fromOutput == Least(x.output, cost)
           fromCollateral == Least(x.collateral, cost - fromOutput)
           short == cost - fromOutput - fromCollateral
           rest == (short * price) \div secondaryPrice
           fromSecondary == Least(x.secondary, rest)
           remaining == (rest - fromSecondary) * secondaryPrice
<1>1. price \in Nat \ {0} /\ secondaryPrice \in Nat \ {0}
  BY DEF Deal, PriceRange
<1>2. x.output \in Nat /\ x.collateral \in Nat /\ x.secondary \in Nat
  BY DEF Working
<1>3. cost \in Nat  BY <1>1, RoundUpDivisionFacts
<1> HIDE DEF price, secondaryPrice, cost
<1>4. fromOutput \in Nat /\ fromOutput <= x.output /\ fromOutput <= cost
      /\ (fromOutput = x.output \/ fromOutput = cost)
  BY <1>2, <1>3 DEF Least
<1> HIDE DEF fromOutput
<1>5. fromCollateral \in Nat /\ fromCollateral <= x.collateral
      /\ short \in Nat /\ (fromCollateral = x.collateral \/ short = 0)
  BY <1>2, <1>3, <1>4 DEF Least
<1>6. short # 0 => fromOutput = x.output /\ fromCollateral = x.collateral
  BY <1>2, <1>3, <1>4, <1>5 DEF fromCollateral, Least
<1> HIDE DEF fromCollateral, short
<1>7. rest \in Nat /\ (short = 0 => rest = 0)
  <2>1. short * price \in Nat  BY <1>1, <1>5
  <2>2. rest \in Nat  BY <2>1, <1>1, FloorFacts
  <2>3. 0 \div secondaryPrice = 0  BY <1>1
  <2>4. ASSUME short = 0 PROVE short * price = 0  BY <1>1, <2>4
  <2> QED BY <2>2, <2>3, <2>4
<1> HIDE DEF rest
<1>8. fromSecondary \in Nat /\ fromSecondary <= x.secondary /\ fromSecondary <= rest
      /\ (fromSecondary = x.secondary \/ fromSecondary = rest)
  BY <1>2, <1>7 DEF Least
<1> HIDE DEF fromSecondary
<1>9. remaining \in Nat /\ (fromSecondary = rest => remaining = 0)
  BY <1>1, <1>7, <1>8
<1> HIDE DEF remaining
<1>10. y = [x EXCEPT !.output = x.output - fromOutput,
                    !.collateral = x.collateral - fromCollateral,
                    !.secondary = x.secondary - fromSecondary,
                    !.unpaidUsd = remaining,
                    !.paid = fromOutput + fromCollateral,
                    !.paidSecondary = fromSecondary]
  BY DEF Pay, PayForCost, price, secondaryPrice, cost, fromOutput, fromCollateral, short,
         rest, fromSecondary, remaining
<1>11. /\ y.market = x.market /\ y.history = x.history
       /\ y.affiliateReward = x.affiliateReward
       /\ y.output = x.output - fromOutput
       /\ y.collateral = x.collateral - fromCollateral
       /\ y.secondary = x.secondary - fromSecondary
       /\ y.unpaidUsd = remaining
       /\ y.paid = fromOutput + fromCollateral
       /\ y.paidSecondary = fromSecondary
  BY <1>10 DEF Working
<1>12. y \in Working
  <2>1. x.output - fromOutput \in Nat /\ x.collateral - fromCollateral \in Nat
        /\ x.secondary - fromSecondary \in Nat /\ fromOutput + fromCollateral \in Nat
    BY <1>2, <1>4, <1>5, <1>8
  <2> QED BY <2>1, <1>8, <1>9, <1>10 DEF Working
<1>13. Broke(y)
  BY <1>2, <1>4, <1>5, <1>6, <1>7, <1>8, <1>9, <1>11 DEF Broke
<1> QED
  BY <1>2, <1>4, <1>5, <1>8, <1>11, <1>12, <1>13

-----------------------------------------------------------------------------
(* What a step of the execution of an order changes in the books.           *)

\* What none of the steps of a decrease touches before its end.
Untouched(m, n) ==
  /\ n.balance = m.balance
  /\ n.claimableFunding = m.claimableFunding /\ n.fundingOf = m.fundingOf
  /\ n.openInterest = m.openInterest /\ n.openInterestInTokens = m.openInterestInTokens
  /\ n.collateralSum = m.collateralSum
  /\ n.cumulativeBorrowingFactor = m.cumulativeBorrowingFactor
  /\ n.totalBorrowing = m.totalBorrowing

SameFlags(h, g) ==
  /\ g.insolvent = h.insolvent /\ g.restDropped = h.restDropped
  /\ g.paidDespiteDebt = h.paidDespiteDebt

SameHands(x, y) ==
  /\ y.affiliateReward = x.affiliateReward
  /\ y.output = x.output /\ y.secondary = x.secondary /\ y.collateral = x.collateral
  /\ y.unpaidUsd = x.unpaidUsd /\ y.paid = x.paid /\ y.paidSecondary = x.paidSecondary

Unclaimed(m, t) == [h \in Holders |-> m.collateralOf[t][h] - m.claimedOf[t][h]]

CollateralAddsUp(m) ==
  \A t \in Tokens :
    /\ m.claimableCollateral[t] = SumFunctionOnSet(Unclaimed(m, t), Holders)
    /\ \A h \in Holders : m.claimedOf[t][h] <= m.collateralOf[t][h]

SameClaims(m, n) ==
  /\ n.claimableCollateral = m.claimableCollateral
  /\ n.collateralOf = m.collateralOf /\ n.claimedOf = m.claimedOf

\* The claims on held-back collateral add up in books that leave them alone.
LEMMA SameClaimsAddUp ==
  ASSUME NEW m, NEW n, SameClaims(m, n), CollateralAddsUp(m)
  PROVE  CollateralAddsUp(n)
BY DEF SameClaims, CollateralAddsUp, Unclaimed

TypesOf(m, h, t) ==
  /\ m.poolAmount[t] \in Int /\ m.claimableFee[t] \in Nat /\ m.claimableUiFee[t] \in Nat
  /\ m.affiliateReward[t] \in Nat /\ m.claimableCollateral[t] \in Nat
  /\ m.claimableFunding[t] \in Nat
  /\ m.collateralSum[<<t, TRUE>>] \in Int /\ m.collateralSum[<<t, FALSE>>] \in Int
  /\ h.funding[t] \in Int /\ h.forgiven[t] \in Int /\ h.dropped[t] \in Nat

OtherTotals(m, n) ==
  /\ n.affiliateReward = m.affiliateReward
  /\ n.claimableCollateral = m.claimableCollateral
  /\ n.claimableFunding = m.claimableFunding
  /\ n.collateralSum = m.collateralSum

\* What a market owes in a token is a number.
LEMMA OwedTypes ==
  ASSUME NEW m \in Books, NEW h \in History, NEW t \in Tokens
  PROVE  TypesOf(m, h, t) /\ Owed(m, h, t) \in Int
<1>1. /\ m.poolAmount[t] \in Int /\ m.claimableFee[t] \in Nat /\ m.claimableUiFee[t] \in Nat
      /\ m.affiliateReward[t] \in Nat /\ m.claimableCollateral[t] \in Nat
      /\ m.claimableFunding[t] \in Nat
  BY DEF Books, Amounts
<1>2. m.collateralSum[<<t, TRUE>>] \in Int /\ m.collateralSum[<<t, FALSE>>] \in Int
  BY DEF Books, Sides
<1>3. h.funding[t] \in Int /\ h.forgiven[t] \in Int /\ h.dropped[t] \in Nat
  BY DEF History, Amounts
<1> QED BY <1>1, <1>2, <1>3 DEF Owed, TypesOf

\* y is x with some more of a token owed, and to nobody's credit in particular.
Credited(x, y, token, amount) ==
  /\ y \in Working /\ y.history = x.history
  /\ Untouched(x.market, y.market) /\ SameHands(x, y) /\ SameClaims(x.market, y.market)
  /\ \A t \in Tokens : Owed(y.market, y.history, t)
       = Owed(x.market, x.history, t) + (IF t = token THEN amount ELSE 0)

\* applyDeltaToPoolAmount adds the amount to what is owed in its token.
LEMMA AddToPoolFacts ==
  ASSUME NEW x \in Working, NEW token \in Tokens, NEW amount \in Int,
         NEW y, y = AddToPool(x, token, amount)
  PROVE  Credited(x, y, token, amount)
<1> DEFINE m == [x.market EXCEPT !.poolAmount[token] = @ + amount]
<1>1. y = [x EXCEPT !.market = m]  BY DEF AddToPool, Working, Books
<1>2. m \in Books  BY DEF Working, Books
<1>3. y \in Working /\ y.market = m /\ y.history = x.history /\ SameHands(x, y)
  BY <1>1, <1>2 DEF Working, SameHands
<1>4. Untouched(x.market, m) /\ SameClaims(x.market, m)
  BY DEF Working, Books, Untouched, SameClaims
<1>5. ASSUME NEW t \in Tokens
      PROVE  Owed(m, x.history, t) = Owed(x.market, x.history, t) + (IF t = token THEN amount ELSE 0)
  <2>1. x.market \in Books /\ x.history \in History  BY DEF Working
  <2>2. m.poolAmount[t] = x.market.poolAmount[t] + (IF t = token THEN amount ELSE 0)
    BY <2>1, OwedTypes DEF Books
  <2>3. OtherTotals(x.market, m) /\ m.claimableFee = x.market.claimableFee
        /\ m.claimableUiFee = x.market.claimableUiFee
    BY <2>1 DEF Books, OtherTotals
  <2> HIDE DEF m
  <2> DEFINE n == x.market  h == x.history
  <2>4. TypesOf(n, h, t)  BY <2>1, OwedTypes
  <2> QED BY <2>2, <2>3, <2>4 DEF Owed, OtherTotals, TypesOf
<1> QED BY <1>3, <1>4, <1>5 DEF Credited

\* applyDeltaToPositionImpactPool moves an amount between the pool and the impact
\* pool: what is owed stays.
LEMMA AddToImpactPoolFacts ==
  ASSUME NEW x \in Working, NEW amount \in Int, NEW y, y = AddToImpactPool(x, amount)
  PROVE  Credited(x, y, LongToken, 0)
<1> DEFINE before == x.market.positionImpactPool
           after == IF before + amount < 0 THEN 0 ELSE before + amount
           m == [x.market EXCEPT !.positionImpactPool = after]
<1>1. y = [x EXCEPT !.market = m]  BY DEF AddToImpactPool, Working, Books
<1>2. after \in Nat  BY DEF Working, Books
<1>3. m \in Books  BY <1>2 DEF Working, Books
<1>4. y \in Working /\ y.market = m /\ y.history = x.history /\ SameHands(x, y)
  BY <1>1, <1>3 DEF Working, SameHands
<1>5. Untouched(x.market, m) /\ SameClaims(x.market, m)
  BY DEF Working, Books, Untouched, SameClaims
<1>6. ASSUME NEW t \in Tokens
      PROVE  Owed(m, x.history, t) = Owed(x.market, x.history, t)
  BY DEF Working, Books, Owed
<1>7. \A t \in Tokens : Owed(x.market, x.history, t) \in Int  BY OwedTypes DEF Working
<1> QED BY <1>4, <1>5, <1>6, <1>7 DEF Credited

\* The fees for the pool, the receiver and the interface are owed in the fee's token.
LEMMA CreditFeesFacts ==
  ASSUME NEW x \in Working, NEW token \in Tokens, NEW fees \in Fees,
         NEW y, y = CreditFees(x, token, fees)
  PROVE  Credited(x, y, token, fees.forPool + fees.forReceiver + fees.forUi)
<1> DEFINE m == [x.market EXCEPT !.poolAmount[token] = @ + fees.forPool,
                                 !.claimableFee[token] = @ + fees.forReceiver,
                                 !.claimableUiFee[token] = @ + fees.forUi]
<1>1. y = [x EXCEPT !.market = m]  BY DEF CreditFees, Working, Books
<1>2. m \in Books
  <2>1. x.market \in Books  BY DEF Working
  <2>2. fees.forPool \in Nat /\ fees.forReceiver \in Nat /\ fees.forUi \in Nat  BY DEF Fees
  <2> DEFINE pool == [x.market.poolAmount EXCEPT ![token] = @ + fees.forPool]
             fee == [x.market.claimableFee EXCEPT ![token] = @ + fees.forReceiver]
             uiFee == [x.market.claimableUiFee EXCEPT ![token] = @ + fees.forUi]
  <2>3. pool \in [Tokens -> Int] /\ fee \in Amounts /\ uiFee \in Amounts
    BY <2>1, <2>2 DEF Books, Amounts
  <2>4. m = [x.market EXCEPT !.poolAmount = pool, !.claimableFee = fee, !.claimableUiFee = uiFee]
    OBVIOUS
  <2> HIDE DEF pool, fee, uiFee, m
  <2> QED BY <2>1, <2>3, <2>4 DEF Books
<1>3. y \in Working /\ y.market = m /\ y.history = x.history /\ SameHands(x, y)
  BY <1>1, <1>2 DEF Working, SameHands
<1>4. Untouched(x.market, m) /\ SameClaims(x.market, m)
  BY DEF Working, Books, Untouched, SameClaims
<1>5. ASSUME NEW t \in Tokens
      PROVE  Owed(m, x.history, t) = Owed(x.market, x.history, t)
               + (IF t = token THEN fees.forPool + fees.forReceiver + fees.forUi ELSE 0)
  <2>1. x.market \in Books /\ x.history \in History  BY DEF Working
  <2>2. fees.forPool \in Nat /\ fees.forReceiver \in Nat /\ fees.forUi \in Nat  BY DEF Fees
  <2>3. /\ m.poolAmount[t] = x.market.poolAmount[t] + (IF t = token THEN fees.forPool ELSE 0)
        /\ m.claimableFee[t] = x.market.claimableFee[t] + (IF t = token THEN fees.forReceiver ELSE 0)
        /\ m.claimableUiFee[t] = x.market.claimableUiFee[t] + (IF t = token THEN fees.forUi ELSE 0)
    BY <2>1, <2>2 DEF Books, Amounts
  <2>4. OtherTotals(x.market, m)  BY <2>1 DEF Books, OtherTotals
  <2> HIDE DEF m
  <2>5. TypesOf(x.market, x.history, t)  BY <2>1, OwedTypes
  <2> QED BY <2>2, <2>3, <2>4, <2>5 DEF Owed, OtherTotals, TypesOf
<1> QED BY <1>3, <1>4, <1>5 DEF Credited

\* The holders of held-back collateral are finitely many.
LEMMA HoldersFacts ==
  IsFiniteSet(Accounts) /\ IsFiniteSet(Holders) /\ HoldingAddress \in Holders /\ Accounts \subseteq Holders
<1>1. IsFiniteSet(Accounts)
  <2> DEFINE accountOf == [key \in PositionKeys |-> key.account]
  <2>1. accountOf \in Surjection(PositionKeys, Accounts)
    BY DEF Accounts, Surjection
  <2>2. IsFiniteSet(PositionKeys)  BY PositionsAssumption
  <2> HIDE DEF accountOf
  <2> QED BY <2>1, <2>2, FS_Surjection
<1>2. IsFiniteSet(Accounts \union {HoldingAddress})
  BY <1>1, FS_AddElement
<1> QED BY <1>1, <1>2 DEF Holders

\* incrementClaimableCollateralAmount raises the total and the holder's own by the
\* same amount.
LEMMA AddClaimableCollateralFacts ==
  ASSUME NEW x \in Working, NEW token \in Tokens, NEW holder \in Holders, NEW amount \in Nat,
         NEW y, y = AddClaimableCollateral(x, token, holder, amount)
  PROVE  /\ y \in Working /\ y.history = x.history
         /\ Untouched(x.market, y.market) /\ SameHands(x, y)
         /\ CollateralAddsUp(x.market) => CollateralAddsUp(y.market)
         /\ \A t \in Tokens : Owed(y.market, y.history, t)
              = Owed(x.market, x.history, t) + (IF t = token THEN amount ELSE 0)
<1> DEFINE of == [x.market.collateralOf EXCEPT ![token][holder] = @ + amount]
           total == [x.market.claimableCollateral EXCEPT ![token] = @ + amount]
           m == [x.market EXCEPT !.collateralOf = of, !.claimableCollateral = total]
<1>1. x.market \in Books /\ x.history \in History  BY DEF Working
<1>2. y = [x EXCEPT !.market = m]
  BY <1>1 DEF AddClaimableCollateral, Working, Books, AmountsOf
<1>3. of \in AmountsOf /\ total \in Amounts
  BY <1>1 DEF Books, Amounts, AmountsOf
<1>4. /\ \A t \in Tokens : total[t] = x.market.claimableCollateral[t] + (IF t = token THEN amount ELSE 0)
      /\ \A t \in Tokens, h \in Holders : of[t][h] = x.market.collateralOf[t][h]
           + (IF t = token /\ h = holder THEN amount ELSE 0)
  BY <1>1 DEF Books, Amounts, AmountsOf
<1> HIDE DEF of, total
<1>5. m \in Books /\ m.collateralOf = of /\ m.claimableCollateral = total
      /\ m.claimedOf = x.market.claimedOf
  BY <1>1, <1>3 DEF Books
<1>6. y \in Working /\ y.market = m /\ y.history = x.history /\ SameHands(x, y)
  BY <1>1, <1>2, <1>5 DEF Working, SameHands
<1>7. Untouched(x.market, m)
  BY <1>1 DEF Books, Untouched
<1>8. ASSUME NEW t \in Tokens
      PROVE  Owed(m, x.history, t) = Owed(x.market, x.history, t) + (IF t = token THEN amount ELSE 0)
  <2>1. /\ m.poolAmount = x.market.poolAmount /\ m.claimableFee = x.market.claimableFee
        /\ m.claimableUiFee = x.market.claimableUiFee /\ m.affiliateReward = x.market.affiliateReward
        /\ m.claimableFunding = x.market.claimableFunding /\ m.collateralSum = x.market.collateralSum
    BY <1>1 DEF Books
  <2> HIDE DEF m
  <2>2. TypesOf(x.market, x.history, t)  BY <1>1, OwedTypes
  <2> QED BY <1>4, <1>5, <2>1, <2>2 DEF Owed, TypesOf
<1>9. ASSUME CollateralAddsUp(x.market)  PROVE CollateralAddsUp(m)
  <2> SUFFICES ASSUME NEW t \in Tokens
               PROVE  /\ m.claimableCollateral[t] = SumFunctionOnSet(Unclaimed(m, t), Holders)
                      /\ \A h \in Holders : m.claimedOf[t][h] <= m.collateralOf[t][h]
    BY DEF CollateralAddsUp
  <2> HIDE DEF m
  <2> DEFINE f == Unclaimed(x.market, t)
             g == Unclaimed(m, t)
  <2>1. \A h \in Holders : x.market.collateralOf[t][h] \in Nat /\ x.market.claimedOf[t][h] \in Nat
    BY <1>1 DEF Books, AmountsOf
  <2>2. /\ \A h \in Holders : f[h] \in Int
        /\ \A h \in Holders : g[h] = f[h] + (IF t = token /\ h = holder THEN amount ELSE 0)
    BY <1>4, <1>5, <2>1 DEF Unclaimed
  <2>3. /\ x.market.claimableCollateral[t] = SumFunctionOnSet(f, Holders)
        /\ \A h \in Holders : x.market.claimedOf[t][h] <= x.market.collateralOf[t][h]
    BY <1>9 DEF CollateralAddsUp
  <2> HIDE DEF f, g
  <2>4. SumFunctionOnSet(f, Holders) \in Int
    BY <2>2, HoldersFacts, SumUnfold
  <2>5. SumFunctionOnSet(g, Holders) = SumFunctionOnSet(f, Holders) - f[holder] + g[holder]
    BY <2>2, HoldersFacts, SumChange
  <2>6. m.claimableCollateral[t] = SumFunctionOnSet(g, Holders)
    BY <1>4, <1>5, <2>2, <2>3, <2>4, <2>5
  <2>7. \A h \in Holders : m.claimedOf[t][h] <= m.collateralOf[t][h]
    BY <1>4, <1>5, <2>1, <2>3
  <2> QED BY <2>6, <2>7 DEF g
<1> QED BY <1>6, <1>7, <1>8, <1>9

\* What a swap in the market takes in and pays out.
LEMMA SwapInMarketFacts ==
  ASSUME NEW m \in Books, NEW h \in History, NEW tokenIn \in Tokens, NEW tokenOut \in Tokens,
         NEW amount \in Nat, NEW prices \in Prices,
         NEW swap, swap = SwapInMarket(m, tokenIn, amount, tokenOut, prices)
  PROVE  /\ swap.out \in Nat /\ swap.market \in Books
         /\ Untouched(m, swap.market) /\ SameClaims(m, swap.market)
         /\ swap.succeeds => amount > 0
         /\ \A t \in Tokens : Owed(swap.market, h, t)
              = Owed(m, h, t) + (IF t = tokenIn THEN amount ELSE 0)
                              - (IF t = tokenOut THEN swap.out ELSE 0)
<1> DEFINE out == (amount * TokenPrice(tokenIn, prices).min) \div TokenPrice(tokenOut, prices).max
           pool == [[m.poolAmount EXCEPT ![tokenIn] = @ + amount] EXCEPT ![tokenOut] = @ - out]
           after == [m EXCEPT !.poolAmount = pool]
<1>1. out \in Nat
  <2>1. TokenPrice(tokenIn, prices).min \in Nat /\ TokenPrice(tokenOut, prices).max \in Nat \ {0}
    BY DEF TokenPrice, Prices, PriceRange
  <2>2. amount * TokenPrice(tokenIn, prices).min \in Nat  BY <2>1
  <2> QED BY <2>1, <2>2, FloorFacts
<1>2. /\ swap.out = out /\ swap.market = after
      /\ swap.succeeds => amount > 0
  <2>1. swap.out = out  BY DEF SwapInMarket
  <2>2. swap.market = [[m EXCEPT !.poolAmount[tokenIn] = @ + amount] EXCEPT !.poolAmount[tokenOut] = @ - out]
    BY DEF SwapInMarket
  <2>3. swap.succeeds => amount > 0  BY DEF SwapInMarket
  <2> HIDE DEF out
  <2>4. swap.market = after
    <3> DEFINE first == [m.poolAmount EXCEPT ![tokenIn] = @ + amount]
               n == [m EXCEPT !.poolAmount = first]
    <3>1. swap.market = [n EXCEPT !.poolAmount[tokenOut] = @ - out]  BY <2>2 DEF Books
    <3>2. n \in Books /\ n.poolAmount = first  BY DEF Books
    <3>3. [n EXCEPT !.poolAmount = pool] = after  BY DEF Books
    <3> HIDE DEF n
    <3>4. swap.market = [n EXCEPT !.poolAmount = pool]
      BY <3>1, <3>2 DEF Books
    <3> QED BY <3>3, <3>4
  <2> QED BY <2>1, <2>3, <2>4
<1> HIDE DEF out
<1>3. /\ pool \in [Tokens -> Int]
      /\ \A t \in Tokens : pool[t] = m.poolAmount[t] + (IF t = tokenIn THEN amount ELSE 0)
                                                     - (IF t = tokenOut THEN out ELSE 0)
  BY <1>1 DEF Books
<1> HIDE DEF pool
<1>4. after \in Books /\ Untouched(m, after) /\ SameClaims(m, after)
  BY <1>3 DEF Books, Untouched, SameClaims
<1>5. ASSUME NEW t \in Tokens
      PROVE  Owed(after, h, t) = Owed(m, h, t) + (IF t = tokenIn THEN amount ELSE 0)
                                              - (IF t = tokenOut THEN out ELSE 0)
  <2>1. after.poolAmount[t] = m.poolAmount[t] + (IF t = tokenIn THEN amount ELSE 0)
                                              - (IF t = tokenOut THEN out ELSE 0)
    BY <1>3 DEF Books
  <2>2. OtherTotals(m, after) /\ after.claimableFee = m.claimableFee
        /\ after.claimableUiFee = m.claimableUiFee
    BY DEF Books, OtherTotals
  <2> HIDE DEF after
  <2>3. TypesOf(m, h, t)  BY OwedTypes
  <2> QED BY <1>1, <2>1, <2>2, <2>3 DEF Owed, OtherTotals, TypesOf
<1> QED BY <1>1, <1>2, <1>4, <1>5

-----------------------------------------------------------------------------
(* The steps of processCollateral.  Whatever they move, a token of the     *)
(* market belongs to somebody: it is owed by the books, goes out, or is     *)
(* still the collateral of the position or its affiliate's.                 *)

Out(x, d, t) ==
  (IF t = d.token THEN x.output ELSE 0) + (IF t = d.pnlToken THEN x.secondary ELSE 0)
Held(x, d, t) == IF t = d.token THEN x.collateral + x.affiliateReward ELSE 0
Accounted(x, d, t) == Owed(x.market, x.history, t) + Out(x, d, t) + Held(x, d, t)

Kept(x, y, d) ==
  /\ y \in Working
  /\ Untouched(x.market, y.market) /\ SameFlags(x.history, y.history)
  /\ CollateralAddsUp(x.market) => CollateralAddsUp(y.market)
  /\ \A t \in Tokens : Accounted(y, d, t) = Accounted(x, d, t)

\* What is accounted for in a decrease is a number.
LEMMA AccountedTypes ==
  ASSUME NEW x \in Working, NEW d, NEW t \in Tokens
  PROVE  Owed(x.market, x.history, t) \in Int
         /\ x.output \in Nat /\ x.secondary \in Nat /\ x.collateral \in Nat
         /\ x.affiliateReward \in Nat /\ x.paid \in Nat /\ x.paidSecondary \in Nat
         /\ x.unpaidUsd \in Nat
         /\ Accounted(x, d, t) \in Int
<1>1. Owed(x.market, x.history, t) \in Int
      /\ x.output \in Nat /\ x.secondary \in Nat /\ x.collateral \in Nat
      /\ x.affiliateReward \in Nat /\ x.paid \in Nat /\ x.paidSecondary \in Nat
      /\ x.unpaidUsd \in Nat
  BY OwedTypes DEF Working
<1> QED BY <1>1 DEF Accounted, Out, Held

\* A step that keeps every token, after another, keeps every token.
LEMMA KeptChain ==
  ASSUME NEW x, NEW y, NEW z, NEW d, Kept(x, y, d), Kept(y, z, d)
  PROVE  Kept(x, z, d)
BY DEF Kept, Untouched, SameFlags

\* Leaving all as it is keeps every token.
LEMMA KeptSame ==
  ASSUME NEW x \in Working, NEW d
  PROVE  Kept(x, x, d)
BY DEF Kept, Untouched, SameFlags

\* PaidToPool takes what the last cost was paid with.
LEMMA PaidToPoolFacts ==
  ASSUME NEW x \in Working, NEW d, Deal(d), NEW y, y = PaidToPool(x, d)
  PROVE  /\ y \in Working /\ y.history = x.history
         /\ Untouched(x.market, y.market) /\ SameHands(x, y) /\ SameClaims(x.market, y.market)
         /\ \A t \in Tokens : Owed(y.market, y.history, t)
              = Owed(x.market, x.history, t) + (IF t = d.token THEN x.paid ELSE 0)
                                             + (IF t = d.pnlToken THEN x.paidSecondary ELSE 0)
<1> DEFINE z == AddToPool(x, d.token, x.paid)
<1>1. d.token \in Tokens /\ d.pnlToken \in Tokens  BY DEF Deal
<1>2. x.paid \in Int /\ x.paidSecondary \in Int  BY DEF Working
<1>3. Credited(x, z, d.token, x.paid)
  BY <1>1, <1>2, AddToPoolFacts
<1>4. y = AddToPool(z, d.pnlToken, x.paidSecondary)  BY DEF PaidToPool
<1> HIDE DEF z
<1>5. z \in Working  BY <1>3 DEF Credited
<1>6. Credited(z, y, d.pnlToken, x.paidSecondary)
  BY <1>1, <1>2, <1>4, <1>5, AddToPoolFacts
<1>7. Untouched(x.market, y.market) /\ SameHands(x, y) /\ SameClaims(x.market, y.market)
  BY <1>3, <1>6 DEF Credited, Untouched, SameHands, SameClaims
<1> QED BY <1>3, <1>6, <1>7 DEF Credited

\* The profit paid out in tokens is an amount.
LEMMA GainFacts ==
  ASSUME NEW d, Deal(d)
  PROVE  GainAmount(d) \in Nat
<1>1. d.pnlUsd \in Int /\ d.impact.usd \in Int /\ d.pnlPrice.max \in Nat \ {0}
  BY DEF Deal, PriceRange
<1>2. d.pnlUsd > 0 => d.pnlUsd \div d.pnlPrice.max \in Nat
  BY <1>1, FloorFacts
<1>3. d.impact.usd > 0 => d.impact.usd \div d.pnlPrice.max \in Nat
  BY <1>1, FloorFacts
<1> QED BY <1>2, <1>3 DEF GainAmount

\* First step of processCollateral: the profit and the positive impact come out of
\* the pool.
LEMMA TakeProfitKeeps ==
  ASSUME NEW x \in Working, NEW d, Deal(d), Solvent(x), NEW y, y = TakeProfit(x, d)
  PROVE  Kept(x, y, d) /\ Solvent(y) /\ y.affiliateReward = x.affiliateReward
<1> DEFINE gain == GainAmount(d)
           indexTokens == IF d.impact.usd > 0
                          THEN -RoundUpDivision(d.impact.usd, d.prices.index.min) ELSE 0
           p == AddToPool(x, d.pnlToken, -gain)
           z == AddToImpactPool(p, indexTokens)
<1>1. gain \in Nat  BY GainFacts
<1>2. d.token \in Tokens /\ d.pnlToken \in Tokens  BY DEF Deal
<1>3. indexTokens \in Int
  <2>1. d.impact.usd \in Int /\ d.prices.index.min \in Nat \ {0}
    BY DEF Deal, Prices, PriceRange
  <2>2. d.impact.usd > 0 => RoundUpDivision(d.impact.usd, d.prices.index.min) \in Nat
    BY <2>1, RoundUpDivisionFacts
  <2> QED BY <2>2
<1>4. y = IF d.pnlToken = d.token THEN [z EXCEPT !.output = @ + gain]
                                  ELSE [z EXCEPT !.secondary = @ + gain]
  BY DEF TakeProfit
<1> HIDE DEF gain, indexTokens
<1>5. Credited(x, p, d.pnlToken, -gain)
  <2>1. -gain \in Int  BY <1>1
  <2> QED BY <1>2, <2>1, AddToPoolFacts
<1> HIDE DEF p
<1>6. Credited(p, z, LongToken, 0) /\ z \in Working
  <2>1. p \in Working  BY <1>5 DEF Credited
  <2>2. Credited(p, z, LongToken, 0)  BY <1>3, <2>1, AddToImpactPoolFacts
  <2> QED BY <2>2 DEF Credited
<1> HIDE DEF z
<1>7. /\ y \in Working /\ y.market = z.market /\ y.history = z.history
      /\ y.unpaidUsd = z.unpaidUsd /\ y.affiliateReward = z.affiliateReward
      /\ y.collateral = z.collateral
      /\ y.output = z.output + (IF d.pnlToken = d.token THEN gain ELSE 0)
      /\ y.secondary = z.secondary + (IF d.pnlToken = d.token THEN 0 ELSE gain)
  BY <1>1, <1>4, <1>6 DEF Working
<1>8. Untouched(x.market, y.market) /\ SameFlags(x.history, y.history) /\ SameClaims(x.market, y.market)
  BY <1>5, <1>6, <1>7 DEF Credited, Untouched, SameFlags, SameClaims
<1>9. CollateralAddsUp(x.market) => CollateralAddsUp(y.market)
  BY <1>8, SameClaimsAddUp
<1>10. ASSUME NEW t \in Tokens  PROVE Accounted(y, d, t) = Accounted(x, d, t)
  <2>1. /\ Owed(x.market, x.history, t) \in Int
        /\ x.output \in Nat /\ x.secondary \in Nat /\ x.collateral \in Nat
        /\ x.affiliateReward \in Nat
    BY AccountedTypes
  <2>2. Owed(y.market, y.history, t)
          = Owed(x.market, x.history, t) + (IF t = d.pnlToken THEN -gain ELSE 0)
    BY <1>1, <1>5, <1>6, <1>7, <2>1 DEF Credited
  <2>3. /\ y.output = x.output + (IF d.pnlToken = d.token THEN gain ELSE 0)
        /\ y.secondary = x.secondary + (IF d.pnlToken = d.token THEN 0 ELSE gain)
        /\ y.collateral = x.collateral /\ y.affiliateReward = x.affiliateReward
    BY <1>5, <1>6, <1>7 DEF Credited, SameHands
  <2> QED BY <1>1, <2>1, <2>2, <2>3 DEF Accounted, Out, Held
<1>11. Solvent(y) /\ y.affiliateReward = x.affiliateReward
  BY <1>5, <1>6, <1>7 DEF Credited, Solvent, SameHands
<1> QED BY <1>7, <1>8, <1>9, <1>10, <1>11 DEF Kept

\* swapProfitToCollateralToken keeps every token, whether the swap succeeds or not.
LEMMA SwapProfitKeeps ==
  ASSUME NEW x \in Working, NEW d, Deal(d), Solvent(x), NEW y, y = SwapProfit(x, d)
  PROVE  Kept(x, y, d) /\ Solvent(y) /\ y.affiliateReward = x.affiliateReward
<1> DEFINE swap == SwapInMarket(x.market, d.pnlToken, x.secondary, d.token, d.prices)
           swaps == d.swap = "SwapPnlTokenToCollateralToken" /\ d.swapWorks /\ swap.succeeds
<1>1. y = IF swaps THEN [x EXCEPT !.market = swap.market, !.output = @ + swap.out, !.secondary = 0]
                   ELSE x
  BY DEF SwapProfit
<1>2. /\ swap.out \in Nat /\ swap.market \in Books
      /\ Untouched(x.market, swap.market) /\ SameClaims(x.market, swap.market)
      /\ \A t \in Tokens : Owed(swap.market, x.history, t)
           = Owed(x.market, x.history, t) + (IF t = d.pnlToken THEN x.secondary ELSE 0)
                                          - (IF t = d.token THEN swap.out ELSE 0)
  <2>1. x.market \in Books /\ x.history \in History /\ x.secondary \in Nat  BY DEF Working
  <2>2. d.pnlToken \in Tokens /\ d.token \in Tokens /\ d.prices \in Prices  BY DEF Deal
  <2> QED BY <2>1, <2>2, SwapInMarketFacts
<1>3. CASE ~swaps
  BY <1>1, <1>3, KeptSame
<1>4. CASE swaps
  <2>0. y = [x EXCEPT !.market = swap.market, !.output = @ + swap.out, !.secondary = 0]
    BY <1>1, <1>4
  <2> HIDE DEF swap, swaps
  <2>1. /\ y \in Working /\ y.market = swap.market /\ y.history = x.history
        /\ y.unpaidUsd = x.unpaidUsd /\ y.affiliateReward = x.affiliateReward
        /\ y.collateral = x.collateral
        /\ y.output = x.output + swap.out /\ y.secondary = 0
    <3> DEFINE n == swap.market  out == x.output + swap.out  none == 0
    <3>1. n \in Books /\ out \in Nat /\ none \in Nat  BY <1>2 DEF Working
    <3>2. y = [x EXCEPT !.market = n, !.output = out, !.secondary = none]  BY <2>0 DEF Working
    <3> HIDE DEF n, out, none
    <3>3. y \in Working  BY <3>1, <3>2 DEF Working
    <3>4. y.market = n /\ y.output = out /\ y.secondary = none
          /\ y.history = x.history /\ y.unpaidUsd = x.unpaidUsd
          /\ y.affiliateReward = x.affiliateReward /\ y.collateral = x.collateral
      BY <3>2 DEF Working
    <3> QED BY <3>3, <3>4 DEF n, out, none
  <2>2. Untouched(x.market, y.market) /\ SameFlags(x.history, y.history)
    BY <1>2, <2>1 DEF SameFlags
  <2>3. CollateralAddsUp(x.market) => CollateralAddsUp(y.market)
    BY <1>2, <2>1, SameClaimsAddUp
  <2>4. ASSUME NEW t \in Tokens  PROVE Accounted(y, d, t) = Accounted(x, d, t)
    <3>1. /\ Owed(x.market, x.history, t) \in Int
          /\ x.output \in Nat /\ x.secondary \in Nat /\ x.collateral \in Nat
          /\ x.affiliateReward \in Nat
      BY AccountedTypes
    <3>2. Owed(y.market, y.history, t)
           = Owed(x.market, x.history, t) + (IF t = d.pnlToken THEN x.secondary ELSE 0)
                                          - (IF t = d.token THEN swap.out ELSE 0)
      BY <1>2, <2>1
    <3> QED BY <1>2, <2>1, <3>1, <3>2 DEF Accounted, Out, Held
  <2> QED BY <2>1, <2>2, <2>3, <2>4 DEF Kept, Solvent
<1> QED BY <1>3, <1>4

\* What has been paid is credited to somebody.
Returned(y, z, d) ==
  /\ z \in Working
  /\ Untouched(y.market, z.market) /\ SameFlags(y.history, z.history) /\ SameHands(y, z)
  /\ CollateralAddsUp(y.market) => CollateralAddsUp(z.market)
  /\ \A t \in Tokens : Owed(z.market, z.history, t)
       = Owed(y.market, y.history, t) + (IF t = d.token THEN y.paid ELSE 0)
                                      + (IF t = d.pnlToken THEN y.paidSecondary ELSE 0)

\* A cost that is paid and put back into the books keeps every token.
LEMMA ReturnedKeeps ==
  ASSUME NEW x \in Working, NEW d, Deal(d), NEW costUsd \in Nat,
         NEW y, y = Pay(x, d, costUsd), NEW z, Returned(y, z, d)
  PROVE  Kept(x, z, d) /\ Broke(z) /\ z.affiliateReward = x.affiliateReward
<1>1. /\ y \in Working /\ Broke(y)
      /\ y.market = x.market /\ y.history = x.history
      /\ y.affiliateReward = x.affiliateReward
      /\ y.output + y.collateral + y.paid = x.output + x.collateral
      /\ y.secondary + y.paidSecondary = x.secondary
  BY PayFacts
<1>2. Untouched(x.market, z.market) /\ SameFlags(x.history, z.history)
      /\ (CollateralAddsUp(x.market) => CollateralAddsUp(z.market))
  BY <1>1 DEF Returned
<1>3. ASSUME NEW t \in Tokens  PROVE Accounted(z, d, t) = Accounted(x, d, t)
  <2>1. /\ Owed(x.market, x.history, t) \in Int
        /\ x.output \in Nat /\ x.secondary \in Nat /\ x.collateral \in Nat
        /\ x.affiliateReward \in Nat
    BY AccountedTypes
  <2>2. /\ y.output \in Nat /\ y.secondary \in Nat /\ y.collateral \in Nat
        /\ y.paid \in Nat /\ y.paidSecondary \in Nat
    BY <1>1, AccountedTypes
  <2>3. z.output = y.output /\ z.secondary = y.secondary /\ z.collateral = y.collateral
        /\ z.affiliateReward = x.affiliateReward
    BY <1>1 DEF Returned, SameHands
  <2>4. Owed(z.market, z.history, t)
          = Owed(x.market, x.history, t) + (IF t = d.token THEN y.paid ELSE 0)
                                         + (IF t = d.pnlToken THEN y.paidSecondary ELSE 0)
    BY <1>1 DEF Returned
  <2> QED BY <1>1, <2>1, <2>2, <2>3, <2>4 DEF Accounted, Out, Held
<1>4. Broke(z) /\ z.affiliateReward = x.affiliateReward
  BY <1>1 DEF Returned, SameHands, Broke
<1> QED BY <1>2, <1>3, <1>4 DEF Kept, Returned

\* A cost paid to the pool is put back into the books.
LEMMA PaidToPoolReturns ==
  ASSUME NEW y \in Working, NEW d, Deal(d), NEW z, z = PaidToPool(y, d)
  PROVE  Returned(y, z, d)
<1>1. /\ z \in Working /\ z.history = y.history
      /\ Untouched(y.market, z.market) /\ SameHands(y, z) /\ SameClaims(y.market, z.market)
      /\ \A t \in Tokens : Owed(z.market, z.history, t)
           = Owed(y.market, y.history, t) + (IF t = d.token THEN y.paid ELSE 0)
                                          + (IF t = d.pnlToken THEN y.paidSecondary ELSE 0)
  BY PaidToPoolFacts
<1>2. CollateralAddsUp(y.market) => CollateralAddsUp(z.market)
  BY <1>1, SameClaimsAddUp
<1> QED BY <1>1, <1>2 DEF Returned, SameFlags

\* What is counted in the history, such as a rounded loss, changes nothing else.
LEMMA CountedFacts ==
  ASSUME NEW x \in Working, NEW h \in History, SameFlags(x.history, h),
         h.funding = x.history.funding, h.forgiven = x.history.forgiven,
         h.dropped = x.history.dropped,
         NEW y, y = [x EXCEPT !.history = h]
  PROVE  /\ y \in Working /\ y.market = x.market /\ y.history = h /\ SameHands(x, y)
         /\ \A t \in Tokens : Owed(y.market, y.history, t) = Owed(x.market, x.history, t)
<1>1. y \in Working /\ y.market = x.market /\ y.history = h /\ SameHands(x, y)
  BY DEF Working, SameHands
<1> QED BY <1>1 DEF Owed

\* The loss is paid to the pool.
LEMMA PayLossKeeps ==
  ASSUME NEW x \in Working, NEW d, Deal(d), Broke(x), NEW y, y = PayLoss(x, d)
  PROVE  Kept(x, y, d) /\ Broke(y) /\ y.affiliateReward = x.affiliateReward
<1>1. CASE Solvent(x) /\ d.pnlUsd < 0
  <2> DEFINE z == Pay(x, d, -d.pnlUsd)
             rounded == Solvent(z) /\ z.paid * d.price.min + z.paidSecondary * d.pnlPrice.min < -d.pnlUsd
             k == IF rounded THEN 1 ELSE 0
             w == PaidToPool(z, d)
  <2>1. -d.pnlUsd \in Nat  BY <1>1 DEF Deal
  <2>2. z \in Working  BY <2>1, PayFacts
  <2>3. y = [w EXCEPT !.history.roundedLosses = @ + k]  BY <1>1 DEF PayLoss
  <2>4. k \in Nat /\ z = Pay(x, d, -d.pnlUsd) /\ w = PaidToPool(z, d)  OBVIOUS
  <2> HIDE DEF z, k, w
  <2>5. Returned(z, w, d) /\ w \in Working  BY <2>2, <2>4, PaidToPoolReturns DEF Returned
  <2> DEFINE h == [w.history EXCEPT !.roundedLosses = w.history.roundedLosses + k]
  <2>6. y = [w EXCEPT !.history = h]  BY <2>3, <2>5 DEF Working, History
  <2>7. /\ h \in History /\ SameFlags(w.history, h) /\ h.funding = w.history.funding
        /\ h.forgiven = w.history.forgiven /\ h.dropped = w.history.dropped
    <3>1. w.history \in History /\ w.history.roundedLosses + k \in Nat
      BY <2>4, <2>5 DEF Working, History
    <3> QED BY <3>1 DEF History, SameFlags
  <2> HIDE DEF h
  <2>8. /\ y \in Working /\ y.market = w.market /\ y.history = h /\ SameHands(w, y)
        /\ \A t \in Tokens : Owed(y.market, y.history, t) = Owed(w.market, w.history, t)
    BY <2>5, <2>6, <2>7, CountedFacts
  <2>9. Returned(z, y, d)  BY <2>5, <2>7, <2>8 DEF Returned, SameFlags, SameHands
  <2> QED BY <2>1, <2>4, <2>9, ReturnedKeeps
<1>2. CASE ~(Solvent(x) /\ d.pnlUsd < 0)
  <2>1. y = x  BY <1>2 DEF PayLoss
  <2> QED BY <2>1, KeptSame
<1> QED BY <1>1, <1>2

\* The funding fee is paid, what is short of it is only recorded.
LEMMA PayFundingKeeps ==
  ASSUME NEW x \in Working, NEW d, Deal(d), NEW y, y = PayFunding(x, d)
  PROVE  Kept(x, y, d) /\ Broke(y) /\ y.affiliateReward = x.affiliateReward
<1> DEFINE cost == d.fees.funding * d.price.min
           p == Pay(x, d, cost)
           funding == [p.history.funding EXCEPT ![d.token] = @ + p.paid]
           z == [p EXCEPT !.history = [p.history EXCEPT !.funding = funding]]
<1>1. cost \in Nat  BY DEF Deal, Fees, PriceRange
<1>2. d.token \in Tokens /\ d.pnlToken \in Tokens  BY DEF Deal
<1>3. p \in Working  BY <1>1, PayFacts
<1>4. y = AddClaimableCollateral([p EXCEPT !.history.funding[d.token] = @ + p.paid],
                                 d.pnlToken, HoldingAddress, p.paidSecondary)
  BY DEF PayFunding
<1>5. p = Pay(x, d, cost)  OBVIOUS
<1> HIDE DEF p, cost
<1>6. y = AddClaimableCollateral(z, d.pnlToken, HoldingAddress, p.paidSecondary)
  <2>1. [p EXCEPT !.history.funding[d.token] = @ + p.paid] = z  BY <1>3 DEF Working, History
  <2> QED BY <1>4, <2>1
<1>7. /\ funding \in [Tokens -> Int]
      /\ \A t \in Tokens : funding[t] = p.history.funding[t] + (IF t = d.token THEN p.paid ELSE 0)
  BY <1>2, <1>3 DEF Working, History
<1> HIDE DEF funding
<1>8. /\ z \in Working /\ z.market = p.market /\ SameHands(p, z) /\ SameFlags(p.history, z.history)
      /\ z.paidSecondary = p.paidSecondary
      /\ z.history.funding = funding /\ z.history.forgiven = p.history.forgiven
      /\ z.history.dropped = p.history.dropped
  BY <1>3, <1>7 DEF Working, History, SameHands, SameFlags
<1>9. ASSUME NEW t \in Tokens
      PROVE  Owed(z.market, z.history, t)
               = Owed(p.market, p.history, t) + (IF t = d.token THEN p.paid ELSE 0)
  <2>1. TypesOf(p.market, p.history, t) /\ p.paid \in Nat  BY <1>3, OwedTypes DEF Working
  <2>2. /\ z.history.funding[t] = p.history.funding[t] + (IF t = d.token THEN p.paid ELSE 0)
        /\ z.history.forgiven[t] = p.history.forgiven[t] /\ z.history.dropped[t] = p.history.dropped[t]
        /\ z.market = p.market
    BY <1>7, <1>8
  <2> HIDE DEF z
  <2> QED BY ONLY <2>1, <2>2 DEF Owed, TypesOf
<1> HIDE DEF z
<1>10. /\ y \in Working /\ y.history = z.history
       /\ Untouched(z.market, y.market) /\ SameHands(z, y)
       /\ CollateralAddsUp(z.market) => CollateralAddsUp(y.market)
       /\ \A t \in Tokens : Owed(y.market, y.history, t)
            = Owed(z.market, z.history, t) + (IF t = d.pnlToken THEN p.paidSecondary ELSE 0)
  <2>1. p.paidSecondary \in Nat  BY <1>3 DEF Working
  <2> QED BY <1>2, <1>6, <1>8, <2>1, HoldersFacts, AddClaimableCollateralFacts
<1>11. Returned(p, y, d)
  BY <1>8, <1>9, <1>10 DEF Returned, SameFlags, SameHands
<1> QED BY <1>1, <1>5, <1>11, ReturnedKeeps

\* The fees are paid to those they are for, or to the pool alone when they are short.
LEMMA PayFeesKeeps ==
  ASSUME NEW x \in Working, NEW d, Deal(d), Broke(x), x.affiliateReward = 0,
         NEW y, y = PayFees(x, d)
  PROVE  Kept(x, y, d) /\ Broke(y)
<1> DEFINE cost == d.fees.excludingFunding * d.price.min
           p == Pay(x, d, cost)
           c == CreditFees(p, d.token, d.fees)
           forgiven == [c.history.forgiven EXCEPT ![d.token] = @ + d.fees.excludingFunding - p.paid]
           h == [c.history EXCEPT !.forgiven = forgiven]
<1>1. cost \in Nat  BY DEF Deal, Fees, PriceRange
<1>2. d.token \in Tokens /\ d.pnlToken \in Tokens /\ d.fees \in Fees /\ FeesAddUp(d.fees)
  BY DEF Deal
<1>3. p = Pay(x, d, cost)  OBVIOUS
<1>4. y = IF ~Solvent(x) THEN x
          ELSE IF Solvent(p) /\ p.paidSecondary = 0
          THEN [c EXCEPT !.affiliateReward = d.fees.forAffiliate,
                         !.history.forgiven[d.token] = @ + d.fees.excludingFunding - p.paid]
          ELSE PaidToPool(p, d)
  BY DEF PayFees
<1> HIDE DEF p, cost
<1>5. /\ p \in Working /\ Broke(p)
      /\ p.market = x.market /\ p.history = x.history
      /\ p.output + p.collateral + p.paid = x.output + x.collateral
      /\ p.secondary + p.paidSecondary = x.secondary
  BY <1>1, <1>3, PayFacts
<1>6. CASE ~Solvent(x)
  BY <1>4, <1>6, KeptSame
<1>7. CASE Solvent(x) /\ ~(Solvent(p) /\ p.paidSecondary = 0)
  <2>1. y = PaidToPool(p, d)  BY <1>4, <1>7
  <2>2. Returned(p, y, d)  BY <1>5, <2>1, PaidToPoolReturns
  <2> QED BY <1>1, <1>3, <2>2, ReturnedKeeps
<1>8. CASE Solvent(x) /\ Solvent(p) /\ p.paidSecondary = 0
  <2>1. y = [c EXCEPT !.affiliateReward = d.fees.forAffiliate,
                      !.history.forgiven[d.token] = @ + d.fees.excludingFunding - p.paid]
    BY <1>4, <1>8
  <2>2. c = CreditFees(p, d.token, d.fees)  OBVIOUS
  <2> HIDE DEF c
  <2>3. Credited(p, c, d.token, d.fees.forPool + d.fees.forReceiver + d.fees.forUi) /\ c \in Working
    BY <1>2, <1>5, <2>2, CreditFeesFacts DEF Credited
  <2>4. /\ d.fees.forPool \in Nat /\ d.fees.forReceiver \in Nat /\ d.fees.forUi \in Nat
        /\ d.fees.forAffiliate \in Nat /\ d.fees.excludingFunding \in Nat
        /\ d.fees.excludingFunding
             = d.fees.forPool + d.fees.forReceiver + d.fees.forUi + d.fees.forAffiliate
    BY <1>2 DEF Fees, FeesAddUp
  <2>5. p.paid \in Nat /\ p.paidSecondary \in Nat  BY <1>5 DEF Working
  <2>6. y = [c EXCEPT !.affiliateReward = d.fees.forAffiliate, !.history = h]
    BY <2>1, <2>3 DEF Working, History
  <2>7. /\ forgiven \in [Tokens -> Int]
        /\ \A t \in Tokens : forgiven[t] = c.history.forgiven[t]
             + (IF t = d.token THEN d.fees.excludingFunding - p.paid ELSE 0)
    BY <1>2, <2>3, <2>4, <2>5 DEF Working, History
  <2> HIDE DEF forgiven
  <2>8. h \in History /\ SameFlags(c.history, h) /\ h.forgiven = forgiven
        /\ h.funding = c.history.funding /\ h.dropped = c.history.dropped
    BY <2>3, <2>7 DEF Working, History, SameFlags
  <2> HIDE DEF h
  <2>9. /\ y \in Working /\ y.market = c.market /\ y.history = h
        /\ y.affiliateReward = d.fees.forAffiliate
        /\ y.output = c.output /\ y.secondary = c.secondary /\ y.collateral = c.collateral
        /\ y.unpaidUsd = c.unpaidUsd
    BY <2>3, <2>4, <2>6, <2>8 DEF Working
  <2>10. /\ Untouched(x.market, y.market) /\ SameClaims(x.market, y.market)
         /\ SameFlags(x.history, y.history)
    BY <1>5, <2>3, <2>8, <2>9 DEF Credited, SameFlags
  <2>11. CollateralAddsUp(x.market) => CollateralAddsUp(y.market)
    BY <2>10, SameClaimsAddUp
  <2>12. ASSUME NEW t \in Tokens  PROVE Accounted(y, d, t) = Accounted(x, d, t)
    <3>1. /\ Owed(x.market, x.history, t) \in Int
          /\ x.output \in Nat /\ x.secondary \in Nat /\ x.collateral \in Nat
      BY AccountedTypes
    <3>2. p.output \in Nat /\ p.secondary \in Nat /\ p.collateral \in Nat
      BY <1>5, AccountedTypes
    <3>3. /\ y.output = p.output /\ y.secondary = p.secondary /\ y.collateral = p.collateral
      BY <2>3, <2>9 DEF Credited, SameHands
    <3>4. Owed(c.market, c.history, t) = Owed(x.market, x.history, t)
            + (IF t = d.token THEN d.fees.forPool + d.fees.forReceiver + d.fees.forUi ELSE 0)
      BY <1>5, <2>3 DEF Credited
    <3>5. Owed(y.market, y.history, t) = Owed(c.market, c.history, t)
            - (IF t = d.token THEN d.fees.excludingFunding - p.paid ELSE 0)
      <4>1. TypesOf(c.market, c.history, t)  BY <2>3, OwedTypes DEF Working
      <4>2. /\ y.history.funding[t] = c.history.funding[t]
            /\ y.history.dropped[t] = c.history.dropped[t]
            /\ y.history.forgiven[t] = c.history.forgiven[t]
                 + (IF t = d.token THEN d.fees.excludingFunding - p.paid ELSE 0)
        BY <2>7, <2>8, <2>9
      <4>3. PICK k \in Int : k = d.fees.excludingFunding - p.paid  BY <2>4, <2>5
      <4>4. CASE t = d.token  BY <4>4, <2>9, <4>1, <4>2, <4>3 DEF Owed, TypesOf
      <4>5. CASE t # d.token  BY <4>5, <2>9, <4>1, <4>2 DEF Owed, TypesOf
      <4> QED BY <4>4, <4>5
    <3>6. Owed(y.market, y.history, t) = Owed(x.market, x.history, t)
            + (IF t = d.token THEN p.paid - d.fees.forAffiliate ELSE 0)
      BY <2>4, <2>5, <3>1, <3>4, <3>5
    <3>7. p.secondary = x.secondary  BY <1>5, <1>8, <3>1, <3>2
    <3> QED BY <1>5, <2>4, <2>5, <2>9, <3>1, <3>2, <3>3, <3>6, <3>7 DEF Accounted, Out, Held
  <2>13. Broke(y)
    BY <1>5, <2>3, <2>9 DEF Credited, SameHands, Broke
  <2> QED BY <2>9, <2>10, <2>11, <2>12, <2>13 DEF Kept
<1> QED BY <1>6, <1>7, <1>8

\* The negative price impact is paid to the pool and counted in the impact pool.
LEMMA PayImpactKeeps ==
  ASSUME NEW x \in Working, NEW d, Deal(d), Broke(x), NEW y, y = PayImpact(x, d)
  PROVE  Kept(x, y, d) /\ Broke(y) /\ y.affiliateReward = x.affiliateReward
<1> DEFINE InIndexTokens(amount, price) == (amount * price.min) \div d.prices.index.max
<1>1. CASE Solvent(x) /\ d.impact.usd < 0
  <2> DEFINE p == Pay(x, d, -d.impact.usd)
             z == PaidToPool(p, d)
             amount == InIndexTokens(p.paid, d.price) + InIndexTokens(p.paidSecondary, d.pnlPrice)
  <2>1. -d.impact.usd \in Nat  BY <1>1 DEF Deal
  <2>2. y = AddToImpactPool(z, amount)  BY <1>1 DEF PayImpact
  <2>3. p = Pay(x, d, -d.impact.usd)  OBVIOUS
  <2> HIDE DEF p
  <2>4. p \in Working  BY <2>1, <2>3, PayFacts
  <2>5. Returned(p, z, d) /\ z \in Working  BY <2>4, PaidToPoolReturns DEF Returned
  <2> HIDE DEF z
  <2>6. amount \in Int
    <3>1. /\ d.price.min \in Nat /\ d.pnlPrice.min \in Nat /\ d.prices.index.max \in Nat \ {0}
      BY DEF Deal, Prices, PriceRange
    <3>2. p.paid \in Nat /\ p.paidSecondary \in Nat  BY <2>4 DEF Working
    <3>3. p.paid * d.price.min \in Nat /\ p.paidSecondary * d.pnlPrice.min \in Nat  BY <3>1, <3>2
    <3> QED BY <3>1, <3>3, FloorFacts
  <2> HIDE DEF amount
  <2>7. Credited(z, y, LongToken, 0)  BY <2>2, <2>5, <2>6, AddToImpactPoolFacts
  <2>8. Returned(p, y, d)
    <3>1. CollateralAddsUp(z.market) => CollateralAddsUp(y.market)
      BY <2>7, SameClaimsAddUp DEF Credited
    <3>2. \A t \in Tokens : Owed(z.market, z.history, t) \in Int
      BY <2>5, AccountedTypes
    <3>3. \A t \in Tokens : Owed(y.market, y.history, t) = Owed(z.market, z.history, t)
      BY <2>7, <3>2 DEF Credited
    <3>4. Untouched(p.market, y.market) /\ SameFlags(p.history, y.history) /\ SameHands(p, y)
      BY <2>5, <2>7 DEF Credited, Returned, Untouched, SameFlags, SameHands
    <3>5. \A t \in Tokens : Owed(y.market, y.history, t)
            = Owed(p.market, p.history, t) + (IF t = d.token THEN p.paid ELSE 0)
                                           + (IF t = d.pnlToken THEN p.paidSecondary ELSE 0)
      BY <2>5, <3>3 DEF Returned
    <3>6. y \in Working  BY <2>7 DEF Credited
    <3> QED BY <2>5, <3>1, <3>4, <3>5, <3>6 DEF Returned
  <2> QED BY <2>1, <2>3, <2>8, ReturnedKeeps
<1>2. CASE ~(Solvent(x) /\ d.impact.usd < 0)
  <2>1. y = x  BY <1>2 DEF PayImpact
  <2> QED BY <2>1, KeptSame
<1> QED BY <1>1, <1>2

\* The impact above the cap is held back for the trader to claim.
LEMMA PayImpactDiffKeeps ==
  ASSUME NEW x \in Working, NEW d, Deal(d), Broke(x), NEW y, y = PayImpactDiff(x, d)
  PROVE  Kept(x, y, d) /\ Broke(y) /\ y.affiliateReward = x.affiliateReward
<1>1. CASE Solvent(x) /\ d.impact.diffUsd > 0
  <2> DEFINE p == Pay(x, d, d.impact.diffUsd)
             z == AddClaimableCollateral(p, d.token, d.account, p.paid)
  <2>1. d.impact.diffUsd \in Nat  BY DEF Deal
  <2>2. y = AddClaimableCollateral(z, d.pnlToken, d.account, p.paidSecondary)
    BY <1>1 DEF PayImpactDiff
  <2>3. p = Pay(x, d, d.impact.diffUsd)  OBVIOUS
  <2> HIDE DEF p
  <2>4. p \in Working  BY <2>1, <2>3, PayFacts
  <2>5. p.paid \in Nat /\ p.paidSecondary \in Nat  BY <2>4 DEF Working
  <2>6. d.token \in Tokens /\ d.pnlToken \in Tokens /\ d.account \in Holders
    BY HoldersFacts DEF Deal
  <2>7. z = AddClaimableCollateral(p, d.token, d.account, p.paid)  OBVIOUS
  <2> HIDE DEF z
  <2>8. /\ z \in Working /\ z.history = p.history
        /\ Untouched(p.market, z.market) /\ SameHands(p, z)
        /\ CollateralAddsUp(p.market) => CollateralAddsUp(z.market)
        /\ \A t \in Tokens : Owed(z.market, z.history, t)
             = Owed(p.market, p.history, t) + (IF t = d.token THEN p.paid ELSE 0)
    BY <2>4, <2>5, <2>6, <2>7, AddClaimableCollateralFacts
  <2>9. /\ y \in Working /\ y.history = z.history
        /\ Untouched(z.market, y.market) /\ SameHands(z, y)
        /\ CollateralAddsUp(z.market) => CollateralAddsUp(y.market)
        /\ \A t \in Tokens : Owed(y.market, y.history, t)
             = Owed(z.market, z.history, t) + (IF t = d.pnlToken THEN p.paidSecondary ELSE 0)
    BY <2>2, <2>5, <2>6, <2>8, AddClaimableCollateralFacts
  <2>10. Untouched(p.market, y.market) /\ SameFlags(p.history, y.history) /\ SameHands(p, y)
    BY <2>8, <2>9 DEF Untouched, SameFlags, SameHands
  <2>11. Returned(p, y, d)  BY <2>8, <2>9, <2>10 DEF Returned
  <2> QED BY <2>1, <2>3, <2>11, ReturnedKeeps
<1>2. CASE ~(Solvent(x) /\ d.impact.diffUsd > 0)
  <2>1. y = x  BY <1>2 DEF PayImpactDiff
  <2> QED BY <2>1, KeptSame
<1> QED BY <1>1, <1>2

\* What is withdrawn moves from the collateral to the output.
LEMMA WithdrawKeeps ==
  ASSUME NEW x \in Working, NEW d, Deal(d), Broke(x), NEW y, y = Withdraw(x, d)
  PROVE  Kept(x, y, d) /\ Broke(y)
<1> DEFINE diff == d.impact.diffUsd \div d.price.min
           wanted == IF d.collateralDelta > diff THEN d.collateralDelta - diff ELSE 0
           amount == Least(wanted, x.collateral)
<1>1. CASE Solvent(x)
  <2>1. y = [x EXCEPT !.output = @ + amount, !.collateral = @ - amount]
    BY <1>1 DEF Withdraw
  <2>2. wanted \in Nat
    <3>1. d.impact.diffUsd \in Nat /\ d.price.min \in Nat \ {0} /\ d.collateralDelta \in Nat
      BY DEF Deal, PriceRange
    <3>2. diff \in Nat  BY <3>1, FloorFacts
    <3> HIDE DEF diff
    <3> QED BY <3>1, <3>2
  <2> HIDE DEF wanted
  <2>3. x.collateral \in Nat /\ x.output \in Nat  BY DEF Working
  <2>4. amount \in Nat /\ x.collateral - amount \in Nat  BY <2>2, <2>3 DEF Least
  <2> HIDE DEF amount
  <2>5. /\ y \in Working /\ y.market = x.market /\ y.history = x.history
        /\ y.output = x.output + amount /\ y.collateral = x.collateral - amount
        /\ y.secondary = x.secondary /\ y.affiliateReward = x.affiliateReward
        /\ y.unpaidUsd = x.unpaidUsd
    <3> DEFINE output == x.output + amount  collateral == x.collateral - amount
    <3>1. output \in Nat /\ collateral \in Nat  BY <2>3, <2>4
    <3>2. y = [x EXCEPT !.output = output, !.collateral = collateral]  BY <2>1
    <3> HIDE DEF output, collateral
    <3>3. y \in Working /\ y.output = output /\ y.collateral = collateral
          /\ y.market = x.market /\ y.history = x.history /\ y.secondary = x.secondary
          /\ y.affiliateReward = x.affiliateReward /\ y.unpaidUsd = x.unpaidUsd
      BY <3>1, <3>2 DEF Working
    <3> QED BY <3>3 DEF output, collateral
  <2>6. ASSUME NEW t \in Tokens  PROVE Accounted(y, d, t) = Accounted(x, d, t)
    <3>1. Owed(x.market, x.history, t) \in Int /\ x.secondary \in Nat /\ x.affiliateReward \in Nat
      BY AccountedTypes
    <3> QED BY <2>3, <2>4, <2>5, <3>1 DEF Accounted, Out, Held
  <2>7. Broke(y)  BY <1>1, <2>5 DEF Broke, Solvent
  <2> QED BY <2>5, <2>6, <2>7 DEF Kept, Untouched, SameFlags
<1>2. CASE ~Solvent(x)
  <2>1. y = x  BY <1>2 DEF Withdraw
  <2> QED BY <2>1, KeptSame
<1> QED BY <1>1, <1>2

\* DecreasePositionCollateralUtils.processCollateral keeps every token, through all
\* its steps and early returns.
LEMMA ProcessCollateralKeeps ==
  ASSUME NEW x \in Working, NEW d, Deal(d), Solvent(x), x.affiliateReward = 0,
         NEW y, y = ProcessCollateral(x, d)
  PROVE  Kept(x, y, d) /\ Broke(y)
<1> DEFINE x1 == TakeProfit(x, d)
           x2 == SwapProfit(x1, d)
           x3 == PayFunding(x2, d)
           x4 == PayLoss(x3, d)
           x5 == PayFees(x4, d)
           x6 == PayImpact(x5, d)
           x7 == PayImpactDiff(x6, d)
<1>1. y = Withdraw(x7, d)  BY DEF ProcessCollateral
<1>2. Kept(x, x1, d) /\ Solvent(x1) /\ x1.affiliateReward = 0
  BY TakeProfitKeeps
<1> HIDE DEF x1
<1>3. Kept(x1, x2, d) /\ x2.affiliateReward = 0
  BY <1>2, SwapProfitKeeps DEF Kept
<1> HIDE DEF x2
<1>4. Kept(x2, x3, d) /\ Broke(x3) /\ x3.affiliateReward = 0
  BY <1>3, PayFundingKeeps DEF Kept
<1> HIDE DEF x3
<1>5. Kept(x3, x4, d) /\ Broke(x4) /\ x4.affiliateReward = 0
  BY <1>4, PayLossKeeps DEF Kept
<1> HIDE DEF x4
<1>6. Kept(x4, x5, d) /\ Broke(x5)
  BY <1>5, PayFeesKeeps DEF Kept
<1> HIDE DEF x5
<1>7. Kept(x5, x6, d) /\ Broke(x6)
  BY <1>6, PayImpactKeeps DEF Kept
<1> HIDE DEF x6
<1>8. Kept(x6, x7, d) /\ Broke(x7)
  BY <1>7, PayImpactDiffKeeps DEF Kept
<1> HIDE DEF x7
<1>9. Kept(x7, y, d) /\ Broke(y)
  BY <1>1, <1>8, WithdrawKeeps DEF Kept
<1>10. Kept(x, x2, d)  BY <1>2, <1>3, KeptChain
<1>11. Kept(x, x3, d)  BY <1>4, <1>10, KeptChain
<1>12. Kept(x, x4, d)  BY <1>5, <1>11, KeptChain
<1>13. Kept(x, x5, d)  BY <1>6, <1>12, KeptChain
<1>14. Kept(x, x6, d)  BY <1>7, <1>13, KeptChain
<1>15. Kept(x, x7, d)  BY <1>8, <1>14, KeptChain
<1> QED BY <1>9, <1>15, KeptChain

-----------------------------------------------------------------------------
(* What an order is executed with.                                          *)

\* What accrues before a trade moves the factors and no amount.
LEMMA AccrueFacts ==
  ASSUME market \in Market, NEW e \in Environment, NEW m, m = Accrue(e)
  PROVE  /\ m \in Market
         /\ m.balance = market.balance
         /\ m.claimableFunding = market.claimableFunding /\ m.fundingOf = market.fundingOf
         /\ m.openInterest = market.openInterest
         /\ m.openInterestInTokens = market.openInterestInTokens
         /\ m.collateralSum = market.collateralSum /\ m.totalBorrowing = market.totalBorrowing
         /\ SameClaims(market, m)
         /\ \A t \in Tokens : Owed(m, history, t) = Owed(market, history, t)
         /\ \A isLong \in BOOLEAN :
              m.cumulativeBorrowingFactor[isLong] >= market.cumulativeBorrowingFactor[isLong]
<1> DEFINE before == market.positionImpactPool
           distributable == IF before > MinPositionImpactPool
                            THEN before - MinPositionImpactPool ELSE 0
           pool == before - Least(e.distribution, distributable)
           factor == [isLong \in BOOLEAN |-> market.cumulativeBorrowingFactor[isLong]
                                               + e.borrowing[isLong]]
<1>1. m = [market EXCEPT !.positionImpactPool = pool, !.cumulativeBorrowingFactor = factor]
  BY DEF Accrue, Market
<1>2. pool \in Nat
  <2>1. before \in Nat /\ e.distribution \in Nat /\ MinPositionImpactPool \in Nat
    BY PositionsAssumption DEF Market, Environment
  <2> HIDE DEF before
  <2>2. distributable \in Nat /\ distributable <= before  BY <2>1
  <2> HIDE DEF distributable
  <2> QED BY <2>1, <2>2 DEF Least
<1>3. /\ factor \in [BOOLEAN -> Nat]
      /\ \A isLong \in BOOLEAN : factor[isLong] >= market.cumulativeBorrowingFactor[isLong]
  <2>1. /\ \A isLong \in BOOLEAN : market.cumulativeBorrowingFactor[isLong] \in Nat
        /\ \A isLong \in BOOLEAN : e.borrowing[isLong] \in Nat
    BY DEF Market, Environment
  <2> QED BY <2>1
<1> HIDE DEF pool, factor
<1>4. m \in Market  BY <1>1, <1>2, <1>3 DEF Market
<1>5. /\ m.balance = market.balance
      /\ m.claimableFunding = market.claimableFunding /\ m.fundingOf = market.fundingOf
      /\ m.openInterest = market.openInterest
      /\ m.openInterestInTokens = market.openInterestInTokens
      /\ m.collateralSum = market.collateralSum /\ m.totalBorrowing = market.totalBorrowing
      /\ SameClaims(market, m)
      /\ m.cumulativeBorrowingFactor = factor
  BY <1>1 DEF Market, SameClaims
<1>6. \A t \in Tokens : Owed(m, history, t) = Owed(market, history, t)
  BY <1>1 DEF Market, Owed
<1> QED BY <1>3, <1>4, <1>5, <1>6

\* The tokens of a part of a position are a part of its tokens, all of them for the
\* whole: neither a long's rounding up nor a short's rounding down takes more.
LEMMA SizeDeltaInTokensFacts ==
  ASSUME NEW position \in Position, position.sizeInUsd > 0, NEW isLong \in BOOLEAN,
         NEW size \in Nat, size <= position.sizeInUsd, position.sizeInTokens > 0
  PROVE  /\ SizeDeltaInTokens(position, isLong, size) \in Nat
         /\ SizeDeltaInTokens(position, isLong, size) <= position.sizeInTokens
         /\ size = position.sizeInUsd
              => SizeDeltaInTokens(position, isLong, size) = position.sizeInTokens
<1> DEFINE T == position.sizeInTokens
           S == position.sizeInUsd
           up == RoundUpDivision(T * size, S)
           down == (T * size) \div S
<1>1. T \in Nat /\ S \in Nat \ {0} /\ T > 0  BY DEF Position
<1>2. SizeDeltaInTokens(position, isLong, size)
        = IF size = S THEN T ELSE IF isLong THEN up ELSE down
  BY DEF SizeDeltaInTokens
<1> HIDE DEF T, S
<1>3. ASSUME size < S  PROVE up \in Nat /\ up <= T /\ down \in Nat /\ down <= T
  <2>1. T * size \in Nat  BY <1>1
  <2>2. up \in Nat /\ S * up <= T * size + S - 1
    <3>1. T * size + S - 1 \in Nat  BY <1>1, <2>1
    <3> QED BY <1>1, <3>1, DivisionFacts DEF RoundUpDivision
  <2>3. down \in Nat /\ S * down <= T * size
    <3> DEFINE a == T * size
    <3>1. a \in Nat  BY <2>1
    <3> HIDE DEF a
    <3>2. a \div S \in Nat /\ S * (a \div S) <= a  BY <1>1, <3>1, DivisionFacts
    <3> QED BY <3>2 DEF a
  <2> HIDE DEF up, down
  <2>4. T * size <= T * S - T
    <3>1. T * size <= T * (S - 1)  BY <1>1, <1>3
    <3>2. T * (S - 1) = T * S - T  BY <1>1
    <3> QED BY <1>1, <2>1, <3>1, <3>2
  <2>5. ASSUME NEW q \in Nat, q >= T + 1  PROVE S * q >= T * S + S
    <3>1. S * q >= S * (T + 1)  BY <1>1, <2>5
    <3>2. S * (T + 1) = T * S + S  BY <1>1
    <3> QED BY <3>1, <3>2
  <2>6. up <= T
    <3> SUFFICES ASSUME up >= T + 1 PROVE FALSE  BY <1>1, <2>2
    <3>1. S * up >= T * S + S  BY <2>2, <2>5
    <3>2. T * S \in Nat /\ S * up \in Nat  BY <1>1, <2>2
    <3> QED BY <1>1, <2>1, <2>2, <2>4, <3>1, <3>2
  <2>7. down <= T
    <3> SUFFICES ASSUME down >= T + 1 PROVE FALSE  BY <1>1, <2>3
    <3>1. S * down >= T * S + S  BY <2>3, <2>5
    <3>2. T * S \in Nat /\ S * down \in Nat  BY <1>1, <2>3
    <3> QED BY <1>1, <2>1, <2>3, <2>4, <3>1, <3>2
  <2> QED BY <2>2, <2>3, <2>6, <2>7
<1> HIDE DEF up, down
<1>4. size <= S  BY DEF S
<1>5. size < S \/ size = S  BY <1>1, <1>4
<1> QED BY <1>1, <1>2, <1>3, <1>5 DEF S, T

\* The prices a trade uses are positive.
LEMMA PriceFacts ==
  ASSUME NEW prices \in Prices, NEW token, NEW isLong \in BOOLEAN, NEW maximize \in BOOLEAN
  PROVE  /\ TokenPrice(token, prices) \in PriceRange
         /\ PriceForPnl(prices.index, isLong, maximize) \in Nat \ {0}
BY DEF TokenPrice, PriceForPnl, Prices, PriceRange

\* The profit at a price is a number.
LEMMA GainFromPriceFacts ==
  ASSUME NEW size \in Nat, NEW tokens \in Nat, NEW price \in Nat, NEW isLong \in BOOLEAN
  PROVE  GainOf(size, tokens, price, isLong) \in Int
<1>1. tokens * price \in Nat  OBVIOUS
<1> QED BY <1>1 DEF GainOf

\* PositionUtils.getPositionPnlUsd gives a number, for a position that exists.
LEMMA PositionPnlFacts ==
  ASSUME NEW m \in Market, NEW prices \in Prices, NEW position \in Position,
         NEW isLong \in BOOLEAN, NEW size \in Nat, size <= position.sizeInUsd,
         position.sizeInUsd > 0, position.sizeInTokens > 0
  PROVE  PositionPnlUsd(m, prices, position, isLong, size) \in Int
<1> DEFINE gain == GainOf(position.sizeInUsd, position.sizeInTokens,
                          PriceForPnl(prices.index, isLong, FALSE), isLong)
           poolPnl == PoolPnl(m, prices, isLong)
           capped == Least(poolPnl, ApplyFactor(PoolUsd(m, prices, isLong), MaxPnlFactorForTraders))
           total == TotalPositionPnl(m, prices, position, isLong)
           tokens == SizeDeltaInTokens(position, isLong, size)
<1>1. position.sizeInUsd \in Nat /\ position.sizeInTokens \in Nat  BY DEF Position
<1>2. gain \in Int
  <2>1. PriceForPnl(prices.index, isLong, FALSE) \in Nat  BY PriceFacts
  <2> QED BY <1>1, <2>1, GainFromPriceFacts
<1>3. poolPnl \in Int
  <2>1. PriceForPnl(prices.index, isLong, TRUE) \in Nat  BY PriceFacts
  <2>2. OpenInterest(m, isLong) \in Nat /\ OpenInterestInTokens(m, isLong) \in Nat
    BY DEF OpenInterest, OpenInterestInTokens, Market, Sides, Tokens
  <2> DEFINE whole == GainOf(OpenInterest(m, isLong), OpenInterestInTokens(m, isLong),
                             PriceForPnl(prices.index, isLong, TRUE), isLong)
  <2>3. whole \in Int  BY <2>1, <2>2, GainFromPriceFacts
  <2>4. poolPnl = 0 \/ poolPnl = whole  BY DEF PoolPnl
  <2> HIDE DEF whole, poolPnl
  <2> QED BY <2>3, <2>4
<1>4. capped \in Int
  <2>1. m.poolAmount[PnlToken(isLong)] \in Nat  BY DEF Market, Amounts, PnlToken, Tokens
  <2>2. TokenPrice(PnlToken(isLong), prices).min \in Nat  BY PriceFacts DEF PriceRange
  <2>3. PoolUsd(m, prices, isLong) \in Nat  BY <2>1, <2>2 DEF PoolUsd
  <2>4. ApplyFactor(PoolUsd(m, prices, isLong), MaxPnlFactorForTraders) \in Nat
    BY <2>3, ConstantFacts, ApplyFactorFacts
  <2> QED BY <1>3, <2>4 DEF Least
<1>5. total = IF gain > 0 /\ poolPnl > 0 /\ 0 < capped /\ capped < poolPnl
              THEN (gain * capped) \div poolPnl ELSE gain
  BY DEF TotalPositionPnl
<1> HIDE DEF gain, poolPnl, capped, total
<1>6. total \in Int
  <2>1. gain * capped \in Int  BY <1>2, <1>4
  <2>2. poolPnl > 0 => (gain * capped) \div poolPnl \in Int  BY <1>3, <2>1, DivisionFacts
  <2> QED BY <1>2, <1>5, <2>2
<1>7. tokens \in Nat  BY SizeDeltaInTokensFacts
<1> HIDE DEF tokens
<1>8. total * tokens \in Int  BY <1>6, <1>7
<1>9. Quotient(total * tokens, position.sizeInTokens) \in Int
  BY <1>1, <1>8, QuotientFacts
<1> QED BY <1>9 DEF PositionPnlUsd, total, tokens

\* The capped price impact is a number.
LEMMA CappedImpactFacts ==
  ASSUME NEW m \in Market, NEW prices \in Prices, NEW impactUsd \in Int, NEW size \in Nat
  PROVE  CappedImpactUsd(m, prices, impactUsd, size) \in Int
<1> DEFINE pool == m.positionImpactPool * prices.index.min
           factor == Least(MaxPositionImpactFactor[TRUE], MaxPositionImpactFactor[FALSE])
<1>1. pool \in Nat
  <2>1. m.positionImpactPool \in Nat /\ prices.index.min \in Nat
    BY DEF Market, Prices, PriceRange
  <2> QED BY <2>1
<1>2. factor \in Nat  BY ConstantFacts DEF Least
<1> HIDE DEF pool, factor
<1>3. ApplyFactor(size, factor) \in Nat  BY <1>2, ApplyFactorFacts
<1>4. Least(Least(impactUsd, pool), ApplyFactor(size, factor)) \in Int
  BY <1>1, <1>3 DEF Least
<1> QED BY <1>4 DEF CappedImpactUsd, pool, factor

\* The price impact of a decrease is a number, what is cut off it an amount.
LEMMA ImpactForDecreaseFacts ==
  ASSUME NEW m \in Market, NEW prices \in Prices, NEW impactUsd \in Int, NEW size \in Nat
  PROVE  ImpactForDecrease(m, prices, impactUsd, size) \in [usd : Int, diffUsd : Nat]
<1> DEFINE capped == CappedImpactUsd(m, prices, impactUsd, size)
           least == -ApplyFactor(size, MaxPositionImpactFactor[FALSE])
<1>1. capped \in Int  BY CappedImpactFacts
<1>2. least \in Int
  <2>1. MaxPositionImpactFactor[FALSE] \in Nat  BY ConstantFacts
  <2> DEFINE limit == ApplyFactor(size, MaxPositionImpactFactor[FALSE])
  <2>2. limit \in Nat  BY <2>1, ApplyFactorFacts
  <2> HIDE DEF limit
  <2>3. -limit \in Int  BY <2>2
  <2> QED BY <2>3 DEF limit
<1>3. ImpactForDecrease(m, prices, impactUsd, size)
        = IF size = 0 THEN [usd |-> 0, diffUsd |-> 0]
          ELSE IF capped < least THEN [usd |-> least, diffUsd |-> least - capped]
          ELSE [usd |-> capped, diffUsd |-> 0]
  BY DEF ImpactForDecrease
<1> HIDE DEF capped, least
<1> QED BY <1>1, <1>2, <1>3

Asks(order) ==
  order.key \in PositionKeys /\ order.sizeDeltaUsd \in Nat /\ order.collateralDelta \in Nat

\* However the order's terms are adjusted, no more than the position is closed.
LEMMA AdjustedTermsFacts ==
  ASSUME NEW order, Asks(order), NEW position \in Position, NEW e,
         NEW adjusted, adjusted = AdjustedTerms(order, position, e)
  PROVE  /\ adjusted.sizeDeltaUsd \in Nat /\ adjusted.sizeDeltaUsd <= position.sizeInUsd
         /\ adjusted.collateralDelta \in Nat
<1> DEFINE size == Least(order.sizeDeltaUsd, position.sizeInUsd)
           withdrawn == Least(order.collateralDelta, position.collateralAmount)
<1>1. adjusted.sizeDeltaUsd = position.sizeInUsd \/ adjusted.sizeDeltaUsd = size
  BY DEF AdjustedTerms
<1>2. adjusted.collateralDelta = 0 \/ adjusted.collateralDelta = withdrawn
  BY DEF AdjustedTerms
<1>3. /\ position.sizeInUsd \in Nat /\ position.collateralAmount \in Nat
      /\ order.sizeDeltaUsd \in Nat /\ order.collateralDelta \in Nat
  BY DEF Position, Asks
<1>4. size \in Nat /\ size <= position.sizeInUsd /\ withdrawn \in Nat
  BY <1>3 DEF Least
<1> HIDE DEF size, withdrawn
<1> QED BY <1>1, <1>2, <1>3, <1>4

\* The parts of a position's key.
LEMMA KeyFacts ==
  ASSUME NEW key \in PositionKeys
  PROVE  /\ key.collateralToken \in Tokens /\ key.isLong \in BOOLEAN
         /\ PnlToken(key.isLong) \in Tokens /\ key.account \in Accounts
BY PositionsAssumption DEF PnlToken, Tokens, Accounts

\* What a position owes and can claim in funding are amounts.
LEMMA FundingFacts ==
  ASSUME NEW position \in Position, NEW e \in Environment
  PROVE  FundingFee(position, e) \in Nat /\ FundingClaim(position, e) \in Amounts
BY DEF FundingFee, FundingClaim, Position, Environment, Amounts

\* The terms of a decrease are those processCollateral is proved for.
LEMMA TermsFacts ==
  ASSUME NEW order, Asks(order), NEW m \in Market, NEW position \in Position,
         NEW e \in Environment, NEW adjusted, adjusted.sizeDeltaUsd \in Nat,
         adjusted.sizeDeltaUsd <= position.sizeInUsd, adjusted.collateralDelta \in Nat,
         order.ui \in BOOLEAN,
         position.sizeInUsd > 0, position.sizeInTokens > 0,
         position.borrowingFactor <= m.cumulativeBorrowingFactor[order.key.isLong],
         NEW d, d = Terms(order, adjusted, m, position, e)
  PROVE  /\ Deal(d)
         /\ d.token = order.key.collateralToken
         /\ d.sizeDeltaUsd <= position.sizeInUsd /\ d.tokens <= position.sizeInTokens
         /\ d.sizeDeltaUsd = position.sizeInUsd => d.tokens = position.sizeInTokens
<1> DEFINE key == order.key
           price == TokenPrice(key.collateralToken, e.prices)
           pnlPrice == TokenPrice(PnlToken(key.isLong), e.prices)
           impact == ImpactForDecrease(m, e.prices, e.impactUsd, adjusted.sizeDeltaUsd)
           positive == impact.usd > 0
           referred == key.account \in Referred
           fee == FundingFee(position, e)
           fees == PositionFees(m, position, key.isLong, price, adjusted.sizeDeltaUsd,
                                positive, referred, order.ui, fee)
           tokens == SizeDeltaInTokens(position, key.isLong, adjusted.sizeDeltaUsd)
           pnlUsd == PositionPnlUsd(m, e.prices, position, key.isLong, adjusted.sizeDeltaUsd)
<1>1. /\ key \in PositionKeys /\ key.collateralToken \in Tokens /\ key.isLong \in BOOLEAN
      /\ PnlToken(key.isLong) \in Tokens /\ key.account \in Accounts
  BY KeyFacts DEF Asks
<1>2. e.prices \in Prices /\ e.impactUsd \in Int  BY DEF Environment, Prices
<1>3. price \in PriceRange /\ pnlPrice \in PriceRange  BY <1>1, <1>2, PriceFacts
<1>4. impact \in [usd : Int, diffUsd : Nat]  BY <1>2, ImpactForDecreaseFacts
<1>5. fee \in Nat  BY FundingFacts
<1>6. fees \in Fees /\ FeesAddUp(fees)
  <2>1. positive \in BOOLEAN /\ referred \in BOOLEAN  OBVIOUS
  <2> HIDE DEF positive, referred, fee, price
  <2> QED BY <1>1, <1>3, <1>5, <2>1, PositionFeesFacts
<1>7. /\ tokens \in Nat /\ tokens <= position.sizeInTokens
      /\ adjusted.sizeDeltaUsd = position.sizeInUsd => tokens = position.sizeInTokens
  BY <1>1, SizeDeltaInTokensFacts
<1>8. pnlUsd \in Int  BY <1>1, <1>2, PositionPnlFacts
<1>9. /\ d.token = key.collateralToken /\ d.pnlToken = PnlToken(key.isLong)
      /\ d.account = key.account /\ d.prices = e.prices /\ d.price = price
      /\ d.pnlPrice = pnlPrice /\ d.sizeDeltaUsd = adjusted.sizeDeltaUsd
      /\ d.tokens = tokens /\ d.collateralDelta = adjusted.collateralDelta
      /\ d.impact = impact /\ d.pnlUsd = pnlUsd /\ d.fees = fees
  BY DEF Terms
<1> HIDE DEF key, price, pnlPrice, impact, positive, referred, fee, fees, tokens, pnlUsd
<1>10. Deal(d)
  BY <1>1, <1>2, <1>3, <1>4, <1>6, <1>7, <1>8, <1>9 DEF Deal
<1> QED BY <1>7, <1>9, <1>10 DEF key

-----------------------------------------------------------------------------
(* The totals over the positions.                                           *)

SizesOf(p, side) ==
  SumFunctionOnSet([key \in PositionKeys |-> p[key].sizeInUsd], KeysOf(side))
TokensOf(p, side) ==
  SumFunctionOnSet([key \in PositionKeys |-> p[key].sizeInTokens], KeysOf(side))
CollateralOf(p, side) ==
  SumFunctionOnSet([key \in PositionKeys |-> p[key].collateralAmount], KeysOf(side))
BorrowingOf(p, isLong) ==
  SumFunctionOnSet([key \in PositionKeys |-> ApplyFactor(p[key].sizeInUsd, p[key].borrowingFactor)],
                   KeysOn(isLong))

AddUp(m, p, exactly) ==
  /\ \A side \in Sides :
       /\ m.openInterest[side] >= SizesOf(p, side)
       /\ m.openInterestInTokens[side] = TokensOf(p, side)
       /\ m.collateralSum[side] = CollateralOf(p, side)
  /\ \A isLong \in BOOLEAN : m.totalBorrowing[isLong] >= BorrowingOf(p, isLong)
  /\ exactly =>
       /\ \A side \in Sides : m.openInterest[side] = SizesOf(p, side)
       /\ \A isLong \in BOOLEAN : m.totalBorrowing[isLong] = BorrowingOf(p, isLong)

\* The positions of a side are finitely many.
LEMMA KeysFacts ==
  /\ \A side \in Sides : IsFiniteSet(KeysOf(side)) /\ KeysOf(side) \subseteq PositionKeys
  /\ \A isLong \in BOOLEAN : IsFiniteSet(KeysOn(isLong)) /\ KeysOn(isLong) \subseteq PositionKeys
<1>1. IsFiniteSet(PositionKeys)  BY PositionsAssumption
<1>2. ASSUME NEW side  PROVE IsFiniteSet(KeysOf(side)) /\ KeysOf(side) \subseteq PositionKeys
  <2>1. KeysOf(side) \subseteq PositionKeys  BY DEF KeysOf
  <2> QED BY <1>1, <2>1, FS_Subset
<1>3. ASSUME NEW isLong  PROVE IsFiniteSet(KeysOn(isLong)) /\ KeysOn(isLong) \subseteq PositionKeys
  <2>1. KeysOn(isLong) \subseteq PositionKeys  BY DEF KeysOn
  <2> QED BY <1>1, <2>1, FS_Subset
<1> QED BY <1>2, <1>3

\* One position changes: so does the sum, if the position is among those summed.
LEMMA PositionSumFacts ==
  ASSUME NEW S \in SUBSET PositionKeys, NEW f \in [PositionKeys -> Nat],
         NEW g \in [PositionKeys -> Nat], NEW key \in PositionKeys,
         \A k \in PositionKeys \ {key} : g[k] = f[k]
  PROVE  /\ SumFunctionOnSet(f, S) \in Nat
         /\ SumFunctionOnSet(g, S) = SumFunctionOnSet(f, S) + (IF key \in S THEN g[key] - f[key] ELSE 0)
<1>1. IsFiniteSet(S)  BY PositionsAssumption, FS_Subset
<1>2. \A k \in S : f[k] \in Nat  OBVIOUS
<1>3. SumFunctionOnSet(f, S) \in Nat  BY <1>1, <1>2, SumBounds
<1>4. CASE key \in S
  <2>1. g[key] \in Int /\ f[key] \in Int /\ (\A k \in S \ {key} : g[k] = f[k])
        /\ (\A k \in S : f[k] \in Int)
    OBVIOUS
  <2>2. SumFunctionOnSet(g, S) = SumFunctionOnSet(f, S) - f[key] + g[key]
    BY <1>1, <1>4, <2>1, SumChange
  <2> QED BY <1>3, <1>4, <2>1, <2>2
<1>5. CASE key \notin S
  <2>1. (\A k \in S : g[k] = f[k]) /\ (\A k \in S : f[k] \in Int)  BY <1>5
  <2>2. SumFunctionOnSet(g, S) = SumFunctionOnSet(f, S)  BY <1>1, <2>1, SumAgree
  <2> QED BY <1>3, <1>5, <2>2
<1> QED BY <1>3, <1>4, <1>5

\* The market n after m has followed a position from old to new.
Followed(m, n, key, old, new, size, tokens) ==
  LET side == <<key.collateralToken, key.isLong>>
  IN /\ \A s \in Sides :
          /\ n.openInterest[s] = m.openInterest[s]
               + (IF s = side THEN size - old.sizeInUsd ELSE 0)
          /\ n.openInterestInTokens[s] = m.openInterestInTokens[s]
               + (IF s = side THEN tokens - old.sizeInTokens ELSE 0)
          /\ n.collateralSum[s] = m.collateralSum[s]
               + (IF s = side THEN new.collateralAmount - old.collateralAmount ELSE 0)
     /\ \A isLong \in BOOLEAN :
          n.totalBorrowing[isLong] = m.totalBorrowing[isLong]
            + (IF isLong = key.isLong
               THEN ApplyFactor(size, m.cumulativeBorrowingFactor[isLong])
                      - ApplyFactor(old.sizeInUsd, old.borrowingFactor)
               ELSE 0)
     /\ n.balance = m.balance /\ n.poolAmount = m.poolAmount
     /\ n.claimableFee = m.claimableFee /\ n.claimableUiFee = m.claimableUiFee
     /\ n.affiliateReward = m.affiliateReward
     /\ n.claimableFunding = m.claimableFunding /\ n.fundingOf = m.fundingOf
     /\ n.cumulativeBorrowingFactor = m.cumulativeBorrowingFactor
     /\ SameClaims(m, n)

\* The totals follow a position: each moves by what the position moves, on its side.
LEMMA FollowFacts ==
  ASSUME NEW m \in Books, NEW key \in PositionKeys, NEW old \in Position, NEW new \in Position,
         NEW size \in Nat, NEW tokens \in Nat, NEW n, n = Follow(m, key, old, new, size, tokens)
  PROVE  n \in Books /\ Followed(m, n, key, old, new, size, tokens)
<1> DEFINE side == <<key.collateralToken, key.isLong>>
           before == ApplyFactor(old.sizeInUsd, old.borrowingFactor)
           after == ApplyFactor(size, m.cumulativeBorrowingFactor[key.isLong])
           borrowing == [m.totalBorrowing EXCEPT ![key.isLong] = @ - before + after]
           interest == [m.openInterest EXCEPT ![side] = @ + size - old.sizeInUsd]
           inTokens == [m.openInterestInTokens EXCEPT ![side] = @ + tokens - old.sizeInTokens]
           collateral == [m.collateralSum EXCEPT ![side] = @ + new.collateralAmount - old.collateralAmount]
<1>1. side \in Sides /\ key.isLong \in BOOLEAN  BY KeyFacts DEF Sides
<1>2. /\ old.sizeInUsd \in Nat /\ old.sizeInTokens \in Nat /\ old.collateralAmount \in Nat
      /\ old.borrowingFactor \in Nat /\ new.collateralAmount \in Nat
  BY DEF Position
<1>3. before \in Nat /\ after \in Nat
  <2>1. m.cumulativeBorrowingFactor[key.isLong] \in Nat  BY <1>1 DEF Books
  <2> QED BY <1>2, <2>1, ApplyFactorFacts
<1>4. n = [m EXCEPT !.totalBorrowing = borrowing, !.openInterest = interest,
                    !.openInterestInTokens = inTokens, !.collateralSum = collateral]
  BY DEF Follow, Books
<1> HIDE DEF before, after, side
<1>5. borrowing \in [BOOLEAN -> Int]
      /\ \A isLong \in BOOLEAN :
           borrowing[isLong] = m.totalBorrowing[isLong]
             + (IF isLong = key.isLong THEN after - before ELSE 0)
  BY <1>1, <1>3 DEF Books
<1>6. interest \in [Sides -> Int]
      /\ \A s \in Sides : interest[s] = m.openInterest[s]
                            + (IF s = side THEN size - old.sizeInUsd ELSE 0)
  BY <1>1, <1>2 DEF Books
<1>7. inTokens \in [Sides -> Int]
      /\ \A s \in Sides : inTokens[s] = m.openInterestInTokens[s]
                            + (IF s = side THEN tokens - old.sizeInTokens ELSE 0)
  BY <1>1, <1>2 DEF Books
<1>8. collateral \in [Sides -> Int]
      /\ \A s \in Sides : collateral[s] = m.collateralSum[s]
              + (IF s = side THEN new.collateralAmount - old.collateralAmount ELSE 0)
  BY <1>1, <1>2 DEF Books
<1> HIDE DEF borrowing, interest, inTokens, collateral
<1>9. n \in Books  BY <1>4, <1>5, <1>6, <1>7, <1>8 DEF Books
<1>10. /\ n.totalBorrowing = borrowing /\ n.openInterest = interest
       /\ n.openInterestInTokens = inTokens /\ n.collateralSum = collateral
       /\ n.balance = m.balance /\ n.poolAmount = m.poolAmount
       /\ n.claimableFee = m.claimableFee /\ n.claimableUiFee = m.claimableUiFee
       /\ n.affiliateReward = m.affiliateReward
       /\ n.claimableFunding = m.claimableFunding /\ n.fundingOf = m.fundingOf
       /\ n.cumulativeBorrowingFactor = m.cumulativeBorrowingFactor
       /\ SameClaims(m, n)
  BY <1>4 DEF Books, SameClaims
<1>11. \A isLong \in BOOLEAN :
         n.totalBorrowing[isLong] = m.totalBorrowing[isLong]
           + (IF isLong = key.isLong
              THEN ApplyFactor(size, m.cumulativeBorrowingFactor[isLong])
                     - ApplyFactor(old.sizeInUsd, old.borrowingFactor)
              ELSE 0)
  BY <1>5, <1>10 DEF before, after
<1> QED BY <1>6, <1>7, <1>8, <1>9, <1>10, <1>11 DEF Followed, side

\* The size that the totals keep for a position covers it, and when the totals
\* are to be exact it is the position's.
Covers(m, key, new, size, exactly, still) ==
  LET now == ApplyFactor(size, m.cumulativeBorrowingFactor[key.isLong])
      own == ApplyFactor(new.sizeInUsd, new.borrowingFactor)
  IN /\ new.sizeInUsd <= size /\ own <= now
     /\ still => exactly /\ size = new.sizeInUsd /\ own = now

\* Only the position of key has changed.
Moved(p, q, key, new) ==
  /\ q \in [PositionKeys -> Position] /\ q[key] = new
  /\ \A k \in PositionKeys \ {key} : q[k] = p[k]

\* Totals that are the sums over the positions stay so when they follow a position;
\* sizes stay a bound of their sum once a rest was dropped.
LEMMA FollowAddsUp ==
  ASSUME NEW m \in Books, NEW p \in [PositionKeys -> Position], NEW key \in PositionKeys,
         NEW new \in Position, NEW size \in Nat, NEW exactly \in BOOLEAN, NEW still \in BOOLEAN,
         NEW n, n = Follow(m, key, p[key], new, size, new.sizeInTokens),
         Covers(m, key, new, size, exactly, still), AddUp(m, p, exactly),
         NEW q, Moved(p, q, key, new)
  PROVE  AddUp(n, q, still)
<1> DEFINE side == <<key.collateralToken, key.isLong>>
           share(r) == [k \in PositionKeys |-> ApplyFactor(r[k].sizeInUsd, r[k].borrowingFactor)]
           factor == m.cumulativeBorrowingFactor[key.isLong]
<1>1. q \in [PositionKeys -> Position] /\ q[key] = new
      /\ \A k \in PositionKeys \ {key} : q[k] = p[k]
  BY DEF Moved
<1>2. side \in Sides /\ key.isLong \in BOOLEAN  BY KeyFacts DEF Sides
<1>3. /\ \A s \in Sides :
           /\ n.openInterest[s] = m.openInterest[s]
                + (IF s = side THEN size - p[key].sizeInUsd ELSE 0)
           /\ n.openInterestInTokens[s] = m.openInterestInTokens[s]
                + (IF s = side THEN new.sizeInTokens - p[key].sizeInTokens ELSE 0)
           /\ n.collateralSum[s] = m.collateralSum[s]
                + (IF s = side THEN new.collateralAmount - p[key].collateralAmount ELSE 0)
      /\ \A isLong \in BOOLEAN :
           n.totalBorrowing[isLong] = m.totalBorrowing[isLong]
             + (IF isLong = key.isLong
                THEN ApplyFactor(size, m.cumulativeBorrowingFactor[isLong])
                       - ApplyFactor(p[key].sizeInUsd, p[key].borrowingFactor)
                ELSE 0)
  <2>1. p[key] \in Position /\ new.sizeInTokens \in Nat  BY DEF Position
  <2>2. Followed(m, n, key, p[key], new, size, new.sizeInTokens)  BY <2>1, FollowFacts
  <2> QED BY <2>2 DEF Followed
<1>4. /\ \A k \in PositionKeys : /\ p[k].sizeInUsd \in Nat /\ p[k].sizeInTokens \in Nat
                                 /\ p[k].collateralAmount \in Nat /\ p[k].borrowingFactor \in Nat
                                 /\ q[k].sizeInUsd \in Nat /\ q[k].sizeInTokens \in Nat
                                 /\ q[k].collateralAmount \in Nat /\ q[k].borrowingFactor \in Nat
      /\ new.sizeInUsd \in Nat /\ new.sizeInTokens \in Nat /\ new.collateralAmount \in Nat
      /\ new.borrowingFactor \in Nat
  BY <1>1 DEF Position
<1>5. \A s \in Sides : key \in KeysOf(s) <=> s = side
  BY KeyFacts DEF KeysOf, Sides
<1>6. \A isLong \in BOOLEAN : key \in KeysOn(isLong) <=> isLong = key.isLong
  BY DEF KeysOn
<1> HIDE DEF side
<1>7. ASSUME NEW s \in Sides
      PROVE  /\ SizesOf(p, s) \in Nat
             /\ SizesOf(q, s) = SizesOf(p, s) + (IF s = side THEN new.sizeInUsd - p[key].sizeInUsd ELSE 0)
  <2> DEFINE f == [k \in PositionKeys |-> p[k].sizeInUsd]  g == [k \in PositionKeys |-> q[k].sizeInUsd]
             S == KeysOf(s)
  <2>1. f \in [PositionKeys -> Nat] /\ g \in [PositionKeys -> Nat]
        /\ (\A k \in PositionKeys \ {key} : g[k] = f[k])
        /\ g[key] = new.sizeInUsd /\ f[key] = p[key].sizeInUsd
    BY <1>1, <1>4
  <2>2. S \in SUBSET PositionKeys  BY KeysFacts
  <2>3. SizesOf(p, s) = SumFunctionOnSet(f, S) /\ SizesOf(q, s) = SumFunctionOnSet(g, S)
    BY DEF SizesOf
  <2>4. key \in S <=> s = side  BY <1>5
  <2> HIDE DEF f, g, S
  <2>5. /\ SumFunctionOnSet(f, S) \in Nat
        /\ SumFunctionOnSet(g, S) = SumFunctionOnSet(f, S) + (IF key \in S THEN g[key] - f[key] ELSE 0)
    BY <2>1, <2>2, PositionSumFacts
  <2> QED BY <2>1, <2>3, <2>4, <2>5
<1>8. ASSUME NEW s \in Sides
      PROVE  /\ TokensOf(p, s) \in Nat
             /\ TokensOf(q, s) = TokensOf(p, s)
                  + (IF s = side THEN new.sizeInTokens - p[key].sizeInTokens ELSE 0)
  <2> DEFINE f == [k \in PositionKeys |-> p[k].sizeInTokens]
             g == [k \in PositionKeys |-> q[k].sizeInTokens]
             S == KeysOf(s)
  <2>1. f \in [PositionKeys -> Nat] /\ g \in [PositionKeys -> Nat]
        /\ (\A k \in PositionKeys \ {key} : g[k] = f[k])
        /\ g[key] = new.sizeInTokens /\ f[key] = p[key].sizeInTokens
    BY <1>1, <1>4
  <2>2. S \in SUBSET PositionKeys  BY KeysFacts
  <2>3. TokensOf(p, s) = SumFunctionOnSet(f, S) /\ TokensOf(q, s) = SumFunctionOnSet(g, S)
    BY DEF TokensOf
  <2>4. key \in S <=> s = side  BY <1>5
  <2> HIDE DEF f, g, S
  <2>5. /\ SumFunctionOnSet(f, S) \in Nat
        /\ SumFunctionOnSet(g, S) = SumFunctionOnSet(f, S) + (IF key \in S THEN g[key] - f[key] ELSE 0)
    BY <2>1, <2>2, PositionSumFacts
  <2> QED BY <2>1, <2>3, <2>4, <2>5
<1>9. ASSUME NEW s \in Sides
      PROVE  /\ CollateralOf(p, s) \in Nat
             /\ CollateralOf(q, s) = CollateralOf(p, s)
                  + (IF s = side THEN new.collateralAmount - p[key].collateralAmount ELSE 0)
  <2> DEFINE f == [k \in PositionKeys |-> p[k].collateralAmount]
             g == [k \in PositionKeys |-> q[k].collateralAmount]
             S == KeysOf(s)
  <2>1. f \in [PositionKeys -> Nat] /\ g \in [PositionKeys -> Nat]
        /\ (\A k \in PositionKeys \ {key} : g[k] = f[k])
        /\ g[key] = new.collateralAmount /\ f[key] = p[key].collateralAmount
    BY <1>1, <1>4
  <2>2. S \in SUBSET PositionKeys  BY KeysFacts
  <2>3. CollateralOf(p, s) = SumFunctionOnSet(f, S) /\ CollateralOf(q, s) = SumFunctionOnSet(g, S)
    BY DEF CollateralOf
  <2>4. key \in S <=> s = side  BY <1>5
  <2> HIDE DEF f, g, S
  <2>5. /\ SumFunctionOnSet(f, S) \in Nat
        /\ SumFunctionOnSet(g, S) = SumFunctionOnSet(f, S) + (IF key \in S THEN g[key] - f[key] ELSE 0)
    BY <2>1, <2>2, PositionSumFacts
  <2> QED BY <2>1, <2>3, <2>4, <2>5
<1>10. \A k \in PositionKeys : share(p)[k] \in Nat /\ share(q)[k] \in Nat
  <2> SUFFICES ASSUME NEW k \in PositionKeys PROVE share(p)[k] \in Nat /\ share(q)[k] \in Nat
    OBVIOUS
  <2>1. ApplyFactor(p[k].sizeInUsd, p[k].borrowingFactor) \in Nat
        /\ ApplyFactor(q[k].sizeInUsd, q[k].borrowingFactor) \in Nat
    BY <1>4, ApplyFactorFacts
  <2> QED BY <2>1
<1>11. ASSUME NEW isLong \in BOOLEAN
       PROVE  /\ BorrowingOf(p, isLong) \in Nat
              /\ share(p)[key] \in Nat /\ share(q)[key] \in Nat
              /\ BorrowingOf(q, isLong) = BorrowingOf(p, isLong)
                   + (IF isLong = key.isLong THEN share(q)[key] - share(p)[key] ELSE 0)
  <2> DEFINE f == share(p)  g == share(q)  S == KeysOn(isLong)
  <2>1. f \in [PositionKeys -> Nat] /\ g \in [PositionKeys -> Nat]
        /\ (\A k \in PositionKeys \ {key} : g[k] = f[k])
    BY <1>1, <1>10
  <2>2. S \in SUBSET PositionKeys  BY KeysFacts
  <2>3. BorrowingOf(p, isLong) = SumFunctionOnSet(f, S) /\ BorrowingOf(q, isLong) = SumFunctionOnSet(g, S)
    BY DEF BorrowingOf
  <2>4. key \in S <=> isLong = key.isLong  BY <1>6
  <2> HIDE DEF f, g, S
  <2>5. /\ SumFunctionOnSet(f, S) \in Nat
        /\ SumFunctionOnSet(g, S) = SumFunctionOnSet(f, S) + (IF key \in S THEN g[key] - f[key] ELSE 0)
    BY <2>1, <2>2, PositionSumFacts
  <2> QED BY <2>1, <2>3, <2>4, <2>5 DEF f, g
<1>12. /\ \A s \in Sides : m.openInterest[s] \in Int
       /\ \A isLong \in BOOLEAN : m.totalBorrowing[isLong] \in Int
  BY DEF Books
<1>13. ASSUME NEW s \in Sides
       PROVE  /\ n.openInterest[s] >= SizesOf(q, s)
              /\ still => n.openInterest[s] = SizesOf(q, s)
  <2>1. m.openInterest[s] >= SizesOf(p, s) /\ (exactly => m.openInterest[s] = SizesOf(p, s))
    BY DEF AddUp
  <2>2. n.openInterest[s] = m.openInterest[s] + (IF s = side THEN size - p[key].sizeInUsd ELSE 0)
    BY <1>3
  <2>3. m.openInterest[s] \in Int /\ p[key].sizeInUsd \in Nat /\ new.sizeInUsd \in Nat
    BY <1>4, <1>12
  <2>4. new.sizeInUsd <= size /\ (still => exactly /\ size = new.sizeInUsd)  BY DEF Covers
  <2> QED BY <1>7, <2>1, <2>2, <2>3, <2>4
<1>14. ASSUME NEW s \in Sides
       PROVE  /\ n.openInterestInTokens[s] = TokensOf(q, s)
              /\ n.collateralSum[s] = CollateralOf(q, s)
  BY <1>3, <1>4, <1>8, <1>9 DEF AddUp
<1>15. ASSUME NEW isLong \in BOOLEAN
       PROVE  /\ n.totalBorrowing[isLong] >= BorrowingOf(q, isLong)
              /\ still => n.totalBorrowing[isLong] = BorrowingOf(q, isLong)
  <2> DEFINE now == ApplyFactor(size, factor)
             was == ApplyFactor(p[key].sizeInUsd, p[key].borrowingFactor)
             own == ApplyFactor(new.sizeInUsd, new.borrowingFactor)
  <2>1. m.totalBorrowing[isLong] >= BorrowingOf(p, isLong)
        /\ (exactly => m.totalBorrowing[isLong] = BorrowingOf(p, isLong))
    BY DEF AddUp
  <2>2. n.totalBorrowing[isLong] = m.totalBorrowing[isLong]
          + (IF isLong = key.isLong THEN now - was ELSE 0)
    BY <1>3
  <2>3. share(p)[key] = was /\ share(q)[key] = own  BY <1>1
  <2>4. now \in Nat
    <3>1. factor \in Nat  BY <1>2 DEF Books
    <3> QED BY <3>1, ApplyFactorFacts
  <2>5. own <= now /\ (still => exactly /\ own = now)  BY DEF Covers
  <2>6. was \in Nat /\ own \in Nat /\ BorrowingOf(p, isLong) \in Nat
        /\ BorrowingOf(q, isLong) = BorrowingOf(p, isLong)
             + (IF isLong = key.isLong THEN own - was ELSE 0)
    BY <1>11, <2>3
  <2> HIDE DEF now, was, own, share, factor
  <2>7. m.totalBorrowing[isLong] \in Int  BY <1>12
  <2> QED BY <2>1, <2>2, <2>4, <2>5, <2>6, <2>7
<1> QED BY <1>13, <1>14, <1>15 DEF AddUp

\* Totals left alone are still the sums.
LEMMA SameAddUp ==
  ASSUME NEW m, NEW n, NEW p, NEW exactly, AddUp(m, p, exactly),
         n.openInterest = m.openInterest, n.openInterestInTokens = m.openInterestInTokens,
         n.collateralSum = m.collateralSum, n.totalBorrowing = m.totalBorrowing
  PROVE  AddUp(n, p, exactly)
BY DEF AddUp

\* What follows a position is owed the difference of its collateral.
LEMMA FollowOwes ==
  ASSUME NEW m \in Books, NEW h \in History, NEW key \in PositionKeys,
         NEW old \in Position, NEW new \in Position, NEW size, NEW tokens,
         NEW n, Followed(m, n, key, old, new, size, tokens), NEW t \in Tokens
  PROVE  Owed(n, h, t) = Owed(m, h, t)
           + (IF t = key.collateralToken THEN new.collateralAmount - old.collateralAmount ELSE 0)
<1> DEFINE delta == new.collateralAmount - old.collateralAmount
           side == <<key.collateralToken, key.isLong>>
           long == <<t, TRUE>>
           short == <<t, FALSE>>
<1>1. delta \in Int  BY DEF Position
<1>2. long \in Sides /\ short \in Sides /\ key.isLong \in BOOLEAN  BY KeyFacts DEF Sides
<1>3. /\ n.collateralSum[long] = m.collateralSum[long] + (IF long = side THEN delta ELSE 0)
      /\ n.collateralSum[short] = m.collateralSum[short] + (IF short = side THEN delta ELSE 0)
  BY <1>2 DEF Followed
<1>4. /\ long = side <=> t = key.collateralToken /\ key.isLong
      /\ short = side <=> t = key.collateralToken /\ ~key.isLong
  BY <1>2
<1>5. TypesOf(m, h, t)  BY OwedTypes
<1>6. m.collateralSum[long] \in Int /\ m.collateralSum[short] \in Int  BY <1>5 DEF TypesOf
<1> HIDE DEF delta, side, long, short
<1>7. n.collateralSum[long] + n.collateralSum[short]
        = m.collateralSum[long] + m.collateralSum[short]
            + (IF t = key.collateralToken THEN delta ELSE 0)
  BY <1>1, <1>2, <1>3, <1>4, <1>6
<1> DEFINE a == m.collateralSum[long] + m.collateralSum[short]
           b == n.collateralSum[long] + n.collateralSum[short]
           rest == m.poolAmount[t] + m.claimableFee[t] + m.claimableUiFee[t] + m.affiliateReward[t]
                     + m.claimableCollateral[t] + m.claimableFunding[t]
           debts == h.funding[t] - h.forgiven[t] + h.dropped[t]
<1>8. n.collateralSum[long] \in Int /\ n.collateralSum[short] \in Int
  BY <1>1, <1>3, <1>6
<1>9. rest \in Int /\ debts \in Int /\ a \in Int /\ b \in Int
  BY <1>5, <1>6, <1>8 DEF TypesOf
<1>10. Owed(m, h, t) = rest + a + debts
  BY <1>5, <1>6 DEF Owed, TypesOf, long, short
<1>11. /\ n.poolAmount = m.poolAmount /\ n.claimableFee = m.claimableFee
       /\ n.claimableUiFee = m.claimableUiFee /\ n.affiliateReward = m.affiliateReward
       /\ n.claimableCollateral = m.claimableCollateral /\ n.claimableFunding = m.claimableFunding
  BY DEF Followed, SameClaims
<1>12. Owed(n, h, t) = rest + b + debts
  BY <1>5, <1>8, <1>11 DEF Owed, TypesOf, long, short
<1>13. b = a + (IF t = key.collateralToken THEN delta ELSE 0)  BY <1>7
<1> HIDE DEF a, b, rest, debts
<1> QED BY <1>1, <1>9, <1>10, <1>12, <1>13 DEF delta

FundingAddsUp(m) ==
  \A t \in Tokens : m.claimableFunding[t] = SumFunctionOnSet(m.fundingOf[t], Accounts)

\* The funding that is credited comes out of what others have paid.
Funded(x, y) ==
  /\ y \in Working
  /\ SameFlags(x.history, y.history) /\ SameHands(x, y) /\ SameClaims(x.market, y.market)
  /\ y.market.balance = x.market.balance
  /\ y.market.openInterest = x.market.openInterest
  /\ y.market.openInterestInTokens = x.market.openInterestInTokens
  /\ y.market.collateralSum = x.market.collateralSum
  /\ y.market.cumulativeBorrowingFactor = x.market.cumulativeBorrowingFactor
  /\ y.market.totalBorrowing = x.market.totalBorrowing
  /\ FundingAddsUp(x.market) => FundingAddsUp(y.market)
  /\ \A t \in Tokens : Owed(y.market, y.history, t) = Owed(x.market, x.history, t)

\* The funding claims of an account and their total rise by the same amount.
LEMMA CreditFundingFacts ==
  ASSUME NEW x \in Working, NEW account \in Accounts, NEW claim \in Amounts,
         NEW y, y = CreditFunding(x, account, claim)
  PROVE  Funded(x, y)
<1> DEFINE of == [t \in Tokens |-> [x.market.fundingOf[t] EXCEPT ![account] = @ + claim[t]]]
           total == [t \in Tokens |-> x.market.claimableFunding[t] + claim[t]]
           paid == [t \in Tokens |-> x.history.funding[t] - claim[t]]
           m == [x.market EXCEPT !.fundingOf = of, !.claimableFunding = total]
           h == [x.history EXCEPT !.funding = paid]
<1>1. x.market \in Books /\ x.history \in History  BY DEF Working
<1>2. y = [x EXCEPT !.market = m, !.history = h]
  <2>1. y = [x EXCEPT !.market.fundingOf = of, !.market.claimableFunding = total,
                      !.history.funding = paid]
    BY <1>1 DEF CreditFunding, Working, Books, History
  <2> HIDE DEF of, total, paid
  <2> QED BY <1>1, <2>1 DEF Working, Books, History
<1>3. /\ \A t \in Tokens : claim[t] \in Nat /\ x.market.claimableFunding[t] \in Nat
                           /\ x.history.funding[t] \in Int
                           /\ x.market.fundingOf[t] \in [Holders -> Nat]
      /\ account \in Holders
  BY <1>1, HoldersFacts DEF Books, History, Amounts, AmountsOf
<1>4. of \in AmountsOf /\ total \in Amounts /\ paid \in [Tokens -> Int]
  BY <1>3 DEF Amounts, AmountsOf
<1>5. \A t \in Tokens :
        /\ total[t] = x.market.claimableFunding[t] + claim[t]
        /\ paid[t] = x.history.funding[t] - claim[t]
        /\ of[t][account] = x.market.fundingOf[t][account] + claim[t]
        /\ \A a \in Accounts \ {account} : of[t][a] = x.market.fundingOf[t][a]
  BY <1>3, HoldersFacts
<1> HIDE DEF of, total, paid
<1>6. /\ m \in Books /\ m.fundingOf = of /\ m.claimableFunding = total
      /\ SameClaims(x.market, m)
      /\ m.balance = x.market.balance /\ m.poolAmount = x.market.poolAmount
      /\ m.claimableFee = x.market.claimableFee /\ m.claimableUiFee = x.market.claimableUiFee
      /\ m.affiliateReward = x.market.affiliateReward
      /\ m.openInterest = x.market.openInterest
      /\ m.openInterestInTokens = x.market.openInterestInTokens
      /\ m.collateralSum = x.market.collateralSum
      /\ m.cumulativeBorrowingFactor = x.market.cumulativeBorrowingFactor
      /\ m.totalBorrowing = x.market.totalBorrowing
  BY <1>1, <1>4 DEF Books, SameClaims
<1>7. /\ h \in History /\ h.funding = paid /\ SameFlags(x.history, h)
      /\ h.forgiven = x.history.forgiven /\ h.dropped = x.history.dropped
  BY <1>1, <1>4 DEF History, SameFlags
<1> HIDE DEF m, h
<1>8. y \in Working /\ y.market = m /\ y.history = h /\ SameHands(x, y)
  BY <1>2, <1>6, <1>7 DEF Working, SameHands
<1>9. ASSUME NEW t \in Tokens
      PROVE  Owed(m, h, t) = Owed(x.market, x.history, t)
  <2>1. TypesOf(x.market, x.history, t)  BY <1>1, OwedTypes
  <2>2. claim[t] \in Nat  BY <1>3
  <2> QED BY <1>5, <1>6, <1>7, <2>1, <2>2 DEF Owed, TypesOf, SameClaims
<1>10. ASSUME FundingAddsUp(x.market)  PROVE FundingAddsUp(m)
  <2> SUFFICES ASSUME NEW t \in Tokens
               PROVE  total[t] = SumFunctionOnSet(of[t], Accounts)
    BY <1>6 DEF FundingAddsUp
  <2> DEFINE f == x.market.fundingOf[t]  g == of[t]
  <2>1. /\ \A a \in Accounts : f[a] \in Int
        /\ g[account] \in Int /\ g[account] = f[account] + claim[t]
        /\ \A a \in Accounts \ {account} : g[a] = f[a]
    BY <1>3, <1>5, HoldersFacts
  <2>2. x.market.claimableFunding[t] = SumFunctionOnSet(f, Accounts)
    BY <1>10 DEF FundingAddsUp
  <2>3. total[t] = x.market.claimableFunding[t] + claim[t] /\ claim[t] \in Nat
        /\ x.market.claimableFunding[t] \in Nat
    BY <1>3, <1>5
  <2> HIDE DEF f, g
  <2>4. SumFunctionOnSet(g, Accounts) = SumFunctionOnSet(f, Accounts) - f[account] + g[account]
    BY <2>1, HoldersFacts, SumChange
  <2>5. total[t] = SumFunctionOnSet(g, Accounts)
    BY <2>1, <2>2, <2>3, <2>4
  <2> QED BY <2>5 DEF g
<1> QED BY <1>6, <1>7, <1>8, <1>9, <1>10 DEF Funded

\* The swap of the output leaves what is owed and what goes out together as they were.
LEMMA SwapOutputFacts ==
  ASSUME NEW x \in Working, NEW d, Deal(d), NEW y, y = SwapOutput(x, d)
  PROVE  /\ y \in Working /\ y.history = x.history
         /\ Untouched(x.market, y.market) /\ SameClaims(x.market, y.market)
         /\ x.output = 0 /\ x.secondary = 0 => y.output = 0 /\ y.secondary = 0
         /\ \A t \in Tokens : Owed(y.market, y.history, t) + Out(y, d, t)
                                = Owed(x.market, x.history, t) + Out(x, d, t)
<1> DEFINE swap == SwapInMarket(x.market, d.token, x.output, d.pnlToken, d.prices)
           swaps == d.swap = "SwapCollateralTokenToPnlToken" /\ d.swapWorks /\ swap.succeeds
           n == swap.market
           out == x.secondary + swap.out
           none == 0
<1>1. y = IF swaps THEN [x EXCEPT !.market = n, !.output = none, !.secondary = out] ELSE x
  BY DEF SwapOutput, Working
<1>2. /\ swap.out \in Nat /\ n \in Books
      /\ Untouched(x.market, n) /\ SameClaims(x.market, n)
      /\ swap.succeeds => x.output > 0
      /\ \A t \in Tokens : Owed(n, x.history, t)
           = Owed(x.market, x.history, t) + (IF t = d.token THEN x.output ELSE 0)
                                          - (IF t = d.pnlToken THEN swap.out ELSE 0)
  <2>1. x.market \in Books /\ x.history \in History /\ x.output \in Nat  BY DEF Working
  <2>2. d.pnlToken \in Tokens /\ d.token \in Tokens /\ d.prices \in Prices  BY DEF Deal
  <2> QED BY <2>1, <2>2, SwapInMarketFacts
<1>3. CASE ~swaps
  BY <1>1, <1>3 DEF Untouched, SameClaims
<1>4. CASE swaps
  <2>1. x.output > 0  BY <1>2, <1>4
  <2>2. y = [x EXCEPT !.market = n, !.output = none, !.secondary = out]  BY <1>1, <1>4
  <2>3. out \in Nat /\ none \in Nat /\ none = 0 /\ out = x.secondary + swap.out
    BY <1>2 DEF Working
  <2> HIDE DEF swaps, n, out, none
  <2>4. y \in Working  BY <1>2, <2>2, <2>3 DEF Working
  <2>5. y.market = n /\ y.output = none /\ y.secondary = out /\ y.history = x.history
    BY <2>2 DEF Working
  <2>6. ASSUME NEW t \in Tokens
        PROVE  Owed(y.market, y.history, t) + Out(y, d, t) = Owed(x.market, x.history, t) + Out(x, d, t)
    <3>1. Owed(x.market, x.history, t) \in Int /\ x.output \in Nat /\ x.secondary \in Nat
      BY AccountedTypes
    <3> HIDE DEF swap
    <3> QED BY <1>2, <2>3, <2>5, <3>1 DEF Out
  <2> QED BY <1>2, <2>1, <2>4, <2>5, <2>6
<1> QED BY <1>3, <1>4

\* What goes out leaves the balance, and nothing else.
LEMMA PaidOutFacts ==
  ASSUME NEW x \in Working, NEW d, Deal(d), NEW n, n = PaidOut(x, d)
  PROVE  /\ n \in Books
         /\ \A t \in Tokens : n.balance[t] = x.market.balance[t] - Out(x, d, t)
         /\ \A t \in Tokens, h \in History : Owed(n, h, t) = Owed(x.market, h, t)
         /\ n.claimableFunding = x.market.claimableFunding /\ n.fundingOf = x.market.fundingOf
         /\ n.openInterest = x.market.openInterest
         /\ n.openInterestInTokens = x.market.openInterestInTokens
         /\ n.collateralSum = x.market.collateralSum
         /\ n.cumulativeBorrowingFactor = x.market.cumulativeBorrowingFactor
         /\ n.totalBorrowing = x.market.totalBorrowing
         /\ SameClaims(x.market, n)
<1> DEFINE balance == [t \in Tokens |-> x.market.balance[t]
                         - (IF t = d.token THEN x.output ELSE 0)
                         - (IF t = d.pnlToken THEN x.secondary ELSE 0)]
<1>1. x.market \in Books /\ x.output \in Nat /\ x.secondary \in Nat  BY DEF Working
<1>2. n = [x.market EXCEPT !.balance = balance]  BY <1>1 DEF PaidOut, Books
<1>3. /\ balance \in [Tokens -> Int]
      /\ \A t \in Tokens : balance[t] = x.market.balance[t] - Out(x, d, t)
  <2>1. \A t \in Tokens : x.market.balance[t] \in Int  BY <1>1 DEF Books
  <2> QED BY <1>1, <2>1 DEF Out
<1> HIDE DEF balance
<1>4. n \in Books /\ n.balance = balance  BY <1>1, <1>2, <1>3 DEF Books
<1>5. /\ n.claimableFunding = x.market.claimableFunding /\ n.fundingOf = x.market.fundingOf
      /\ n.openInterest = x.market.openInterest
      /\ n.openInterestInTokens = x.market.openInterestInTokens
      /\ n.collateralSum = x.market.collateralSum
      /\ n.cumulativeBorrowingFactor = x.market.cumulativeBorrowingFactor
      /\ n.totalBorrowing = x.market.totalBorrowing
      /\ SameClaims(x.market, n)
  BY <1>1, <1>2 DEF Books, SameClaims
<1>6. \A t \in Tokens, h \in History : Owed(n, h, t) = Owed(x.market, h, t)
  BY <1>1, <1>2 DEF Books, Owed
<1> QED BY <1>3, <1>4, <1>5, <1>6

-----------------------------------------------------------------------------
(* The inductive invariant.  That a position with a size has both sizes     *)
(* keeps the division by its tokens defined, and that it accrued no more    *)
(* than its side keeps its borrowing fee from being negative.               *)

Sized ==
  \A key \in PositionKeys :
    positions[key] # NoPosition => positions[key].sizeInUsd > 0 /\ positions[key].sizeInTokens > 0

Accrued ==
  \A key \in PositionKeys :
    positions[key].borrowingFactor <= market.cumulativeBorrowingFactor[key.isLong]

Inv ==
  /\ TypeOK
  /\ TokensAddUp /\ PositionsAddUp /\ ClaimsAddUp /\ CostsComeFirst
  /\ Sized /\ Accrued

\* A market is books.
LEMMA MarketIsBooks ==
  ASSUME NEW m \in Market PROVE m \in Books
BY DEF Market, Books, Amounts

\* Books in which no unsigned amount is negative are a market.
LEMMA BooksAreMarket ==
  ASSUME NEW m \in Books, NonNegative(m) PROVE m \in Market
<1>1. m.balance \in Amounts /\ m.poolAmount \in Amounts
  BY DEF NonNegative, Books, Amounts
<1>2. /\ m.openInterest \in [Sides -> Nat] /\ m.openInterestInTokens \in [Sides -> Nat]
      /\ m.collateralSum \in [Sides -> Nat]
  BY DEF NonNegative, Books
<1>3. m.totalBorrowing \in [BOOLEAN -> Nat]
  BY DEF NonNegative, Books
<1> QED BY <1>1, <1>2, <1>3 DEF Books, Market

\* A removed position is all zeros.
LEMMA NoPositionFacts ==
  NoPosition \in Position /\ NoPosition.sizeInUsd = 0 /\ NoPosition.sizeInTokens = 0
    /\ NoPosition.collateralAmount = 0 /\ NoPosition.borrowingFactor = 0
BY DEF NoPosition, Position

\* PositionsAddUp in terms of books.
LEMMA AddUpIsPositionsAddUp ==
  PositionsAddUp <=> AddUp(market, positions, ~history.restDropped)
BY DEF PositionsAddUp, AddUp, SizesOf, TokensOf, CollateralOf, BorrowingOf,
       SumOfSizes, SumOfTokens, SumOfCollateral, SumOfBorrowing

\* The two parts of ClaimsAddUp in terms of books.
LEMMA ClaimsAddUpParts ==
  ClaimsAddUp <=> FundingAddsUp(market) /\ CollateralAddsUp(market)
BY DEF ClaimsAddUp, FundingAddsUp, CollateralAddsUp, Unclaimed

\* What a decrease starts from is the collateral, and owes the rest.
LEMMA StartFacts ==
  ASSUME NEW m \in Market, NEW old \in Position, history \in History, NEW d,
         NEW x, x = Start(m, old)
  PROVE  /\ x \in Working /\ Solvent(x) /\ x.affiliateReward = 0
         /\ x.market = m /\ x.history = history
         /\ \A t \in Tokens : Accounted(x, d, t)
              = Owed(m, history, t) + (IF t = d.token THEN old.collateralAmount ELSE 0)
<1>1. m \in Books  BY MarketIsBooks
<1> DEFINE none == 0
<1>2. none \in Nat /\ none = 0 /\ old.collateralAmount \in Nat  BY DEF Position
<1>3. x = [market |-> m, history |-> history, affiliateReward |-> none,
           output |-> none, secondary |-> none, collateral |-> old.collateralAmount,
           unpaidUsd |-> none, paid |-> none, paidSecondary |-> none]
  BY DEF Start
<1> HIDE DEF none
<1>4. x \in Working  BY <1>1, <1>2, <1>3 DEF Working
<1>5. /\ x.market = m /\ x.history = history /\ x.affiliateReward = 0
      /\ x.output = 0 /\ x.secondary = 0 /\ x.collateral = old.collateralAmount
      /\ x.unpaidUsd = 0
  BY <1>2, <1>3
<1>6. ASSUME NEW t \in Tokens
      PROVE  Accounted(x, d, t)
               = Owed(m, history, t) + (IF t = d.token THEN old.collateralAmount ELSE 0)
  <2>1. Owed(m, history, t) \in Int  BY <1>1, OwedTypes
  <2> QED BY <1>2, <1>5, <2>1 DEF Accounted, Out, Held
<1> QED BY <1>4, <1>5, <1>6 DEF Solvent

\* RewardAffiliate moves the affiliate's share into the books.
LEMMA RewardAffiliateFacts ==
  ASSUME NEW x \in Working, NEW d, Deal(d), NEW y, y = RewardAffiliate(x, d)
  PROVE  /\ y \in Working /\ SameFlags(x.history, y.history)
         /\ Untouched(x.market, y.market) /\ SameClaims(x.market, y.market)
         /\ y.output = x.output /\ y.secondary = x.secondary
         /\ \A t \in Tokens : Owed(y.market, y.history, t)
              = Owed(x.market, x.history, t) + (IF t = d.token THEN x.affiliateReward ELSE 0)
<1>1. x.market \in Books /\ x.history \in History /\ x.affiliateReward \in Nat  BY DEF Working
<1>2. d.token \in Tokens  BY DEF Deal
<1>3. CASE Solvent(x)
  <2> DEFINE reward == [x.market.affiliateReward EXCEPT ![d.token] = @ + x.affiliateReward]
             m == [x.market EXCEPT !.affiliateReward = reward]
  <2>1. y = [x EXCEPT !.market = m]  BY <1>1, <1>3 DEF RewardAffiliate, Working, Books
  <2>2. /\ reward \in Amounts
        /\ \A t \in Tokens : reward[t] = x.market.affiliateReward[t]
                                           + (IF t = d.token THEN x.affiliateReward ELSE 0)
    BY <1>1, <1>2 DEF Books, Amounts
  <2> HIDE DEF reward
  <2>3. /\ m \in Books /\ m.affiliateReward = reward /\ m.poolAmount = x.market.poolAmount
        /\ m.claimableFee = x.market.claimableFee /\ m.claimableUiFee = x.market.claimableUiFee
        /\ Untouched(x.market, m) /\ SameClaims(x.market, m)
    BY <1>1, <2>2 DEF Books, Untouched, SameClaims
  <2> HIDE DEF m
  <2>4. y \in Working /\ y.market = m /\ y.history = x.history
        /\ y.output = x.output /\ y.secondary = x.secondary
    BY <2>1, <2>3 DEF Working
  <2>5. ASSUME NEW t \in Tokens
        PROVE  Owed(m, x.history, t)
                 = Owed(x.market, x.history, t) + (IF t = d.token THEN x.affiliateReward ELSE 0)
    <3>1. TypesOf(x.market, x.history, t)  BY <1>1, OwedTypes
    <3> QED BY <1>1, <2>2, <2>3, <3>1 DEF Owed, TypesOf, SameClaims, Untouched
  <2> QED BY <2>3, <2>4, <2>5 DEF SameFlags
<1>4. CASE ~Solvent(x)
  <2> DEFINE dropped == [x.history.dropped EXCEPT ![d.token] = @ + x.affiliateReward]
             h == [x.history EXCEPT !.dropped = dropped]
  <2>1. y = [x EXCEPT !.history = h]  BY <1>1, <1>4 DEF RewardAffiliate, Working, History
  <2>2. /\ dropped \in Amounts
        /\ \A t \in Tokens : dropped[t] = x.history.dropped[t]
                                            + (IF t = d.token THEN x.affiliateReward ELSE 0)
    BY <1>1, <1>2 DEF History, Amounts
  <2> HIDE DEF dropped
  <2>3. h \in History /\ h.dropped = dropped /\ h.funding = x.history.funding
        /\ h.forgiven = x.history.forgiven /\ SameFlags(x.history, h)
    BY <1>1, <2>2 DEF History, SameFlags
  <2> HIDE DEF h
  <2>4. y \in Working /\ y.market = x.market /\ y.history = h
        /\ y.output = x.output /\ y.secondary = x.secondary
    BY <2>1, <2>3 DEF Working
  <2>5. ASSUME NEW t \in Tokens
        PROVE  Owed(x.market, h, t)
                 = Owed(x.market, x.history, t) + (IF t = d.token THEN x.affiliateReward ELSE 0)
    <3>1. TypesOf(x.market, x.history, t)  BY <1>1, OwedTypes
    <3> QED BY <1>1, <2>2, <2>3, <3>1 DEF Owed, TypesOf
  <2> QED BY <2>3, <2>4, <2>5 DEF Untouched, SameClaims
<1> QED BY <1>3, <1>4

-----------------------------------------------------------------------------
(* Increase and decrease.                                                    *)

\* What is left of a position, and what becomes of it.
\* What is left of a position covers what is booked of it, and is all of it unless a
\* rest is dropped.
RestLeft(m, key, paid, rest, new) ==
  /\ rest \in Position /\ rest.collateralAmount = paid.collateral
  /\ new \in Position
  /\ new.sizeInTokens = rest.sizeInTokens /\ new.sizeInUsd <= rest.sizeInUsd
  /\ new.collateralAmount = IF Closes(rest) THEN 0 ELSE paid.collateral
  /\ new # NoPosition => new.sizeInUsd > 0 /\ new.sizeInTokens > 0
  /\ new.borrowingFactor <= m.cumulativeBorrowingFactor[key.isLong]
  /\ ApplyFactor(new.sizeInUsd, new.borrowingFactor)
       <= ApplyFactor(rest.sizeInUsd, m.cumulativeBorrowingFactor[key.isLong])
  /\ ~(Closes(rest) /\ rest.sizeInUsd > 0)
       => /\ new.sizeInUsd = rest.sizeInUsd
          /\ ApplyFactor(new.sizeInUsd, new.borrowingFactor)
               = ApplyFactor(rest.sizeInUsd, m.cumulativeBorrowingFactor[key.isLong])

\* The rest of a position is a position, and the part that goes is covered by it.
LEMMA RestFacts ==
  ASSUME NEW m \in Market, NEW key \in PositionKeys, NEW old \in Position, NEW d,
         d.sizeDeltaUsd \in Nat, d.sizeDeltaUsd <= old.sizeInUsd,
         d.tokens \in Nat, d.tokens <= old.sizeInTokens,
         d.sizeDeltaUsd = old.sizeInUsd => d.tokens = old.sizeInTokens,
         NEW paid \in Working, NEW rest, rest = Rest(m, key, old, d, paid),
         NEW new, new = Left(rest)
  PROVE  RestLeft(m, key, paid, rest, new)
<1> DEFINE factor == m.cumulativeBorrowingFactor[key.isLong]
<1>1. old.sizeInUsd \in Nat /\ old.sizeInTokens \in Nat /\ paid.collateral \in Nat
  BY DEF Position, Working
<1>2. factor \in Nat  BY KeyFacts DEF Market
<1>3. rest = [sizeInUsd |-> old.sizeInUsd - d.sizeDeltaUsd,
              sizeInTokens |-> old.sizeInTokens - d.tokens,
              collateralAmount |-> paid.collateral,
              borrowingFactor |-> factor]
  BY DEF Rest
<1> HIDE DEF factor
<1>4. /\ rest.sizeInUsd = old.sizeInUsd - d.sizeDeltaUsd /\ rest.sizeInUsd \in Nat
      /\ rest.sizeInTokens = old.sizeInTokens - d.tokens /\ rest.sizeInTokens \in Nat
      /\ rest.collateralAmount = paid.collateral /\ rest.borrowingFactor = factor
  BY <1>1, <1>3
<1>5. rest \in Position  BY <1>1, <1>2, <1>3, <1>4 DEF Position
<1>6. \A size \in Nat : ApplyFactor(size, factor) \in Nat  BY <1>2, ApplyFactorFacts
<1>7. ApplyFactor(0, 0) = 0 /\ ApplyFactor(0, factor) = 0
  <2>1. \A f \in Nat : ApplyFactor(0, f) = 0
    <3>1. 0 \div Precision = 0  BY ConstantFacts
    <3> QED BY <3>1 DEF ApplyFactor
  <2> QED BY <1>2, <2>1
<1>8. CASE Closes(rest)
  <2>1. new = NoPosition  BY <1>8 DEF Left
  <2>2. rest.sizeInTokens = 0  BY <1>1, <1>4, <1>8 DEF Closes
  <2>3. new.sizeInUsd = 0 /\ new.sizeInTokens = 0 /\ new.collateralAmount = 0
        /\ new.borrowingFactor = 0
    BY <2>1, NoPositionFacts
  <2>4. new.borrowingFactor <= factor  BY <1>2, <2>3
  <2>5. ApplyFactor(new.sizeInUsd, new.borrowingFactor) <= ApplyFactor(rest.sizeInUsd, factor)
    BY <1>4, <1>6, <1>7, <2>3
  <2>6. ~(rest.sizeInUsd > 0) => rest.sizeInUsd = 0  BY <1>4
  <2>7. ~(rest.sizeInUsd > 0)
          => ApplyFactor(new.sizeInUsd, new.borrowingFactor) = ApplyFactor(rest.sizeInUsd, factor)
    BY <1>7, <2>3, <2>6
  <2> QED
    BY <1>4, <1>5, <1>8, <2>1, <2>2, <2>3, <2>4, <2>5, <2>6, <2>7, NoPositionFacts DEF factor, RestLeft
<1>9. CASE ~Closes(rest)
  <2>1. new = rest  BY <1>9 DEF Left
  <2>2. rest.sizeInUsd > 0 /\ rest.sizeInTokens > 0  BY <1>4, <1>9 DEF Closes
  <2>3. rest.sizeInUsd <= rest.sizeInUsd /\ factor <= factor  BY <1>2, <1>4
  <2>4. ApplyFactor(rest.sizeInUsd, factor) <= ApplyFactor(rest.sizeInUsd, factor)
    BY <1>4, <1>6
  <2> QED BY <1>4, <1>5, <1>9, <2>1, <2>2, <2>3, <2>4 DEF factor, RestLeft
<1> QED BY <1>8, <1>9 DEF RestLeft

\* The books after a decrease: what goes out and what is owed is what was owed.
LEMMA DecreasedBooksFacts ==
  ASSUME NEW m \in Market, history \in History, NEW key \in PositionKeys,
         NEW p \in [PositionKeys -> Position], NEW e \in Environment,
         NEW d, Deal(d), d.token = key.collateralToken,
         NEW paid, Kept(Start(m, p[key]), paid, d), Broke(paid),
         NEW rest, NEW new, RestLeft(m, key, paid, rest, new),
         NEW exactly \in BOOLEAN, NEW still \in BOOLEAN,
         still => exactly /\ ~(Closes(rest) /\ rest.sizeInUsd > 0),
         AddUp(m, p, exactly), FundingAddsUp(m), CollateralAddsUp(m),
         NEW q, Moved(p, q, key, new),
         NEW y, y = DecreasedBooks(key, p[key], new, rest, d, paid, e)
  PROVE  /\ y \in Working /\ SameFlags(history, y.history)
         /\ y.market.balance = m.balance
         /\ y.market.cumulativeBorrowingFactor = m.cumulativeBorrowingFactor
         /\ AddUp(y.market, q, still)
         /\ FundingAddsUp(y.market) /\ CollateralAddsUp(y.market)
         /\ ~Solvent(paid) => y.output = 0 /\ y.secondary = 0
         /\ \A t \in Tokens : Owed(y.market, y.history, t) + Out(y, d, t) = Owed(m, history, t)
<1> DEFINE old == p[key]
           start == Start(m, old)
           claim == FundingClaim(old, e)
           c == CreditFunding(paid, key.account, claim)
           n == Follow(c.market, key, old, new, rest.sizeInUsd, rest.sizeInTokens)
           output == IF Closes(rest) THEN paid.output + paid.collateral ELSE paid.output
           f == [c EXCEPT !.market = n, !.output = output]
<1>0. /\ rest \in Position /\ rest.collateralAmount = paid.collateral
      /\ new \in Position
      /\ new.sizeInTokens = rest.sizeInTokens /\ new.sizeInUsd <= rest.sizeInUsd
      /\ new.collateralAmount = IF Closes(rest) THEN 0 ELSE paid.collateral
  BY DEF RestLeft
<1>1. old \in Position /\ key.account \in Accounts /\ claim \in Amounts
  BY KeyFacts, FundingFacts
<1>2. /\ start.market = m /\ start.history = history
      /\ \A t \in Tokens : Accounted(start, d, t)
           = Owed(m, history, t) + (IF t = d.token THEN old.collateralAmount ELSE 0)
  BY <1>1, StartFacts
<1>3. Kept(start, paid, d)  OBVIOUS
<1>4. y = RewardAffiliate([c EXCEPT !.market = n,
                                    !.output = IF Closes(rest) THEN @ + rest.collateralAmount ELSE @], d)
  BY DEF DecreasedBooks
<1>5. c = CreditFunding(paid, key.account, claim)  OBVIOUS
<1>6. n = Follow(c.market, key, old, new, rest.sizeInUsd, rest.sizeInTokens)  OBVIOUS
<1> HIDE DEF old, start, claim, c, n
<1>7. paid \in Working  BY <1>3 DEF Kept
<1>8. Funded(paid, c) /\ c \in Working
  BY <1>1, <1>5, <1>7, CreditFundingFacts DEF Funded
<1>9. c.market \in Books /\ c.history \in History  BY <1>8 DEF Working
<1>10. n \in Books /\ Followed(c.market, n, key, old, new, rest.sizeInUsd, rest.sizeInTokens)
  <2>1. rest.sizeInUsd \in Nat /\ rest.sizeInTokens \in Nat  BY <1>0 DEF Position
  <2> QED BY <1>0, <1>1, <1>6, <1>9, <2>1, FollowFacts
<1>11. output \in Nat  BY <1>7 DEF Working
<1>12. y = RewardAffiliate(f, d)
  <2>1. c.output = paid.output  BY <1>8 DEF Funded, SameHands
  <2> QED BY <1>0, <1>4, <2>1
<1> HIDE DEF output
<1>13. f \in Working /\ f.market = n /\ f.history = c.history /\ f.output = output
       /\ f.secondary = paid.secondary /\ f.affiliateReward = paid.affiliateReward
  BY <1>8, <1>10, <1>11 DEF Working, Funded, SameHands
<1> HIDE DEF f
<1>14. /\ y \in Working /\ SameFlags(f.history, y.history)
       /\ Untouched(n, y.market) /\ SameClaims(n, y.market)
       /\ y.output = output /\ y.secondary = paid.secondary
       /\ \A t \in Tokens : Owed(y.market, y.history, t)
            = Owed(n, c.history, t) + (IF t = d.token THEN paid.affiliateReward ELSE 0)
  BY <1>12, <1>13, RewardAffiliateFacts
<1>15. /\ SameFlags(history, y.history) /\ y.market.balance = m.balance
       /\ y.market.cumulativeBorrowingFactor = m.cumulativeBorrowingFactor
  BY <1>2, <1>3, <1>8, <1>10, <1>13, <1>14 DEF Kept, Untouched, SameFlags, Funded, Followed
<1>16. AddUp(y.market, q, still)
  <2>1. AddUp(c.market, p, exactly)
    <3>1. /\ c.market.openInterest = m.openInterest
          /\ c.market.openInterestInTokens = m.openInterestInTokens
          /\ c.market.collateralSum = m.collateralSum
          /\ c.market.totalBorrowing = m.totalBorrowing
      BY <1>2, <1>3, <1>8 DEF Kept, Untouched, Funded
    <3> QED BY <3>1, SameAddUp
  <2>2. c.market.cumulativeBorrowingFactor = m.cumulativeBorrowingFactor
    BY <1>2, <1>3, <1>8 DEF Kept, Untouched, Funded
  <2>3. n = Follow(c.market, key, p[key], new, rest.sizeInUsd, new.sizeInTokens)
    BY <1>0, <1>6 DEF old
  <2>4. rest.sizeInUsd \in Nat  BY <1>0 DEF Position
  <2> DEFINE b == c.market
             size == rest.sizeInUsd
  <2>5. /\ b \in Books /\ size \in Nat /\ AddUp(b, p, exactly)
        /\ n = Follow(b, key, p[key], new, size, new.sizeInTokens)
    BY <1>9, <2>1, <2>3, <2>4
  <2>7. Covers(b, key, new, size, exactly, still)  BY <2>2 DEF Covers, RestLeft
  <2> HIDE DEF b, size
  <2>9. AddUp(n, q, still)
    BY <1>0, <2>5, <2>7, FollowAddsUp
  <2>6. /\ y.market.openInterest = n.openInterest
        /\ y.market.openInterestInTokens = n.openInterestInTokens
        /\ y.market.collateralSum = n.collateralSum
        /\ y.market.totalBorrowing = n.totalBorrowing
    BY <1>14 DEF Untouched
  <2> QED BY <2>6, <2>9, SameAddUp
<1>17. FundingAddsUp(y.market)
  <2>1. paid.market.claimableFunding = m.claimableFunding /\ paid.market.fundingOf = m.fundingOf
    BY <1>2, <1>3 DEF Kept, Untouched
  <2>2. FundingAddsUp(c.market)  BY <1>8, <2>1 DEF Funded, FundingAddsUp
  <2>3. /\ y.market.claimableFunding = c.market.claimableFunding
        /\ y.market.fundingOf = c.market.fundingOf
    BY <1>10, <1>14 DEF Followed, Untouched
  <2> QED BY <2>2, <2>3 DEF FundingAddsUp
<1>18. CollateralAddsUp(y.market)
  <2>1. CollateralAddsUp(paid.market)  BY <1>2, <1>3 DEF Kept
  <2>2. SameClaims(paid.market, y.market)
    BY <1>8, <1>10, <1>14 DEF Funded, Followed, SameClaims
  <2> QED BY <2>1, <2>2, SameClaimsAddUp
<1>19. ASSUME ~Solvent(paid)  PROVE y.output = 0 /\ y.secondary = 0
  <2>1. paid.output = 0 /\ paid.collateral = 0 /\ paid.secondary = 0
    BY <1>19 DEF Broke, Solvent
  <2> QED BY <1>14, <2>1 DEF output
<1>20. ASSUME NEW t \in Tokens
       PROVE  Owed(y.market, y.history, t) + Out(y, d, t) = Owed(m, history, t)
  <2>1. /\ paid.output \in Nat /\ paid.secondary \in Nat /\ paid.collateral \in Nat
        /\ paid.affiliateReward \in Nat /\ Owed(paid.market, paid.history, t) \in Int
    BY <1>7, AccountedTypes
  <2>2. Owed(m, history, t) \in Int  BY MarketIsBooks, OwedTypes
  <2>3. old.collateralAmount \in Nat /\ new.collateralAmount \in Nat  BY <1>0, <1>1 DEF Position
  <2>4. Accounted(paid, d, t)
          = Owed(m, history, t) + (IF t = d.token THEN old.collateralAmount ELSE 0)
    BY <1>2, <1>3 DEF Kept
  <2>5. Owed(n, c.history, t) = Owed(paid.market, paid.history, t)
          + (IF t = d.token THEN new.collateralAmount - old.collateralAmount ELSE 0)
    <3>1. Owed(n, c.history, t) = Owed(c.market, c.history, t)
            + (IF t = key.collateralToken THEN new.collateralAmount - old.collateralAmount ELSE 0)
      BY <1>0, <1>1, <1>9, <1>10, FollowOwes
    <3>2. Owed(c.market, c.history, t) = Owed(paid.market, paid.history, t)
      BY <1>8 DEF Funded
    <3> QED BY <3>1, <3>2
  <2>6. Owed(y.market, y.history, t)
          = Owed(n, c.history, t) + (IF t = d.token THEN paid.affiliateReward ELSE 0)
    BY <1>14
  <2>7. output + new.collateralAmount = paid.output + paid.collateral
    BY <1>0, <2>1, <2>3 DEF output
  <2>8. y.output = output /\ y.secondary = paid.secondary /\ output \in Nat  BY <1>11, <1>14
  <2>9. Out(y, d, t) = (IF t = d.token THEN output ELSE 0)
                       + (IF t = d.pnlToken THEN paid.secondary ELSE 0)
    BY <2>8 DEF Out
  <2>10. Accounted(paid, d, t) = Owed(paid.market, paid.history, t)
           + ((IF t = d.token THEN paid.output ELSE 0)
                + (IF t = d.pnlToken THEN paid.secondary ELSE 0))
           + (IF t = d.token THEN paid.collateral + paid.affiliateReward ELSE 0)
    BY DEF Accounted, Out, Held
  <2>11. Owed(y.market, y.history, t) = Owed(paid.market, paid.history, t)
          + (IF t = d.token THEN new.collateralAmount - old.collateralAmount ELSE 0)
          + (IF t = d.token THEN paid.affiliateReward ELSE 0)
    BY <2>5, <2>6
  <2> QED
    <3>1. CASE t = d.token
      BY <3>1, <2>1, <2>2, <2>3, <2>4, <2>7, <2>8, <2>9, <2>10, <2>11
    <3>2. CASE t # d.token
      BY <3>2, <2>1, <2>2, <2>3, <2>4, <2>8, <2>9, <2>10, <2>11
    <3> QED BY <3>1, <3>2
<1> QED BY <1>14, <1>15, <1>16, <1>17, <1>18, <1>19, <1>20

-----------------------------------------------------------------------------
(* The steps.                                                                *)

\* What a step that trades or claims leaves is enough for the invariant.
LEMMA InvAfter ==
  ASSUME market' \in Market, positions' \in [PositionKeys -> Position],
         factorForTime' \in 0..Precision, factorForAccount' \in [Holders -> 0..Precision],
         history' \in History, steps' \in 0..MaxSteps,
         \A t \in Tokens : market'.balance[t] = Owed(market', history', t),
         AddUp(market', positions', ~history'.restDropped),
         FundingAddsUp(market'), CollateralAddsUp(market'),
         ~history'.paidDespiteDebt, Sized', Accrued'
  PROVE  Inv'
<1>1. TypeOK'  BY DEF TypeOK
<1>2. TokensAddUp'  BY DEF TokensAddUp
<1>3. PositionsAddUp'
  BY DEF PositionsAddUp, AddUp, SizesOf, TokensOf, CollateralOf, BorrowingOf,
         SumOfSizes, SumOfTokens, SumOfCollateral, SumOfBorrowing
<1>4. ClaimsAddUp'  BY DEF ClaimsAddUp, FundingAddsUp, CollateralAddsUp, Unclaimed
<1>5. CostsComeFirst'  BY DEF CostsComeFirst
<1> QED BY <1>1, <1>2, <1>3, <1>4, <1>5 DEF Inv

\* EXCEPT changes one position.
LEMMA MovedFacts ==
  ASSUME NEW p \in [PositionKeys -> Position], NEW key \in PositionKeys, NEW new \in Position,
         NEW q, q = [p EXCEPT ![key] = new]
  PROVE  Moved(p, q, key, new)
BY DEF Moved

\* The end of a decrease, from what is known when the costs are paid.
Commits(order, paid, rest, new, swapped, next) ==
  /\ ValidBalance(next)
  /\ market' = next
  /\ positions' = [positions EXCEPT ![order.key] = new]
  /\ history' = [swapped.history EXCEPT
       !.insolvent = @ \/ ~Solvent(paid),
       !.restDropped = @ \/ (Closes(rest) /\ rest.sizeInUsd > 0),
       !.paidDespiteDebt = @ \/ (~Solvent(paid) /\ swapped.output + swapped.secondary > 0)]

Ends(order, isLiquidationOrAdl, e, accrued, old, d) ==
  \E paid \in {ProcessCollateral(Start(accrued, old), d)} :
  \E rest \in {Rest(accrued, order.key, old, d, paid)} :
  \E new \in {Left(rest)} :
  \E books \in {DecreasedBooks(order.key, old, new, rest, d, paid, e)} :
  \E swapped \in {SwapOutput(books, d)} :
  \E next \in {PaidOut(swapped, d)} :
    /\ Solvent(paid) \/ (isLiquidationOrAdl /\ d.sizeDeltaUsd = old.sizeInUsd)
    /\ Closes(rest) \/ ValidPosition(books.market, new, order.key, e, FALSE)
    /\ NonNegative(next)
    /\ Commits(order, paid, rest, new, swapped, next)

\* The end of a decrease, its values named.
LEMMA EndsFacts ==
  ASSUME NEW order, NEW isLiquidationOrAdl, NEW e, NEW accrued, NEW old, NEW d,
         Ends(order, isLiquidationOrAdl, e, accrued, old, d)
  PROVE  \E paid, rest, new, books, swapped, next :
           /\ paid = ProcessCollateral(Start(accrued, old), d)
           /\ rest = Rest(accrued, order.key, old, d, paid)
           /\ new = Left(rest)
           /\ books = DecreasedBooks(order.key, old, new, rest, d, paid, e)
           /\ swapped = SwapOutput(books, d)
           /\ next = PaidOut(swapped, d)
           /\ NonNegative(next) /\ Commits(order, paid, rest, new, swapped, next)
BY SMTT(30) DEF Ends

\* A decrease, its values named.
LEMMA DecreaseFacts ==
  ASSUME NEW order, NEW isLiquidationOrAdl, NEW e, Decrease(order, isLiquidationOrAdl, e)
  PROVE  /\ \E accrued, old, adjusted, d :
              /\ accrued = Accrue(e) /\ old = positions[order.key]
              /\ adjusted = AdjustedTerms(order, old, e)
              /\ d = Terms(order, adjusted, accrued, old, e)
              /\ Ends(order, isLiquidationOrAdl, e, accrued, old, d)
         /\ positions[order.key] # NoPosition /\ steps < MaxSteps /\ steps' = steps + 1
         /\ UNCHANGED <<factorForTime, factorForAccount>>
<1>1. \E accrued, old, adjusted, d :
        /\ accrued = Accrue(e) /\ old = positions[order.key]
        /\ adjusted = AdjustedTerms(order, old, e)
        /\ d = Terms(order, adjusted, accrued, old, e)
        /\ Ends(order, isLiquidationOrAdl, e, accrued, old, d)
  <2>1. PICK accrued \in {Accrue(e)}, old \in {positions[order.key]} :
          \E adjusted \in {AdjustedTerms(order, old, e)} :
          \E d \in {Terms(order, adjusted, accrued, old, e)} :
            /\ adjusted.allowed
            /\ ExecutionPriceExists(e.prices, old, order.key.isLong, d.impact.usd, d.sizeDeltaUsd)
            /\ GainAmount(d) <= accrued.poolAmount[d.pnlToken]
            /\ Ends(order, isLiquidationOrAdl, e, accrued, old, d)
    BY ZenonT(60) DEF Decrease, decreasePosition, Ends, Commits
  <2> QED BY <2>1, Zenon
<1>2. positions[order.key] # NoPosition
  BY ZenonT(60) DEF Decrease, decreasePosition
<1>3. /\ steps < MaxSteps /\ steps' = steps + 1
      /\ UNCHANGED <<factorForTime, factorForAccount>>
  BY Zenon DEF Decrease
<1> QED BY <1>1, <1>2, <1>3

\* The values of a decrease, named.
Named(order, e, accrued, old, adjusted, d, paid, rest, new) ==
  /\ accrued = Accrue(e)
  /\ old = positions[order.key] /\ old # NoPosition
  /\ adjusted = AdjustedTerms(order, old, e)
  /\ d = Terms(order, adjusted, accrued, old, e)
  /\ paid = ProcessCollateral(Start(accrued, old), d)
  /\ rest = Rest(accrued, order.key, old, d, paid)
  /\ new = Left(rest)

\* What a decrease deals with, and how it pays for it.
LEMMA DealFacts ==
  ASSUME Inv, NEW order, Asks(order), order.ui \in BOOLEAN, NEW e \in Environment,
         NEW accrued, NEW old, NEW adjusted, NEW d, NEW paid, NEW rest, NEW new,
         Named(order, e, accrued, old, adjusted, d, paid, rest, new)
  PROVE  /\ old \in Position /\ accrued \in Market
         /\ old.sizeInUsd > 0 /\ old.sizeInTokens > 0
         /\ old.borrowingFactor <= accrued.cumulativeBorrowingFactor[order.key.isLong]
         /\ adjusted.sizeDeltaUsd \in Nat /\ adjusted.sizeDeltaUsd <= old.sizeInUsd
         /\ adjusted.collateralDelta \in Nat
         /\ Deal(d) /\ d.token = order.key.collateralToken
         /\ Kept(Start(accrued, old), paid, d) /\ Broke(paid)
         /\ RestLeft(accrued, order.key, paid, rest, new)
<1> DEFINE key == order.key
<1> USE DEF Named
<1>1. /\ market \in Market /\ positions \in [PositionKeys -> Position] /\ history \in History
      /\ key \in PositionKeys /\ old \in Position /\ accrued \in Market
  <2>1. market \in Market /\ positions \in [PositionKeys -> Position] /\ history \in History
    BY DEF Inv, TypeOK
  <2>2. accrued \in Market  BY <2>1, AccrueFacts
  <2> QED BY <2>1, <2>2 DEF Asks
<1>2. /\ old.sizeInUsd > 0 /\ old.sizeInTokens > 0
      /\ old.borrowingFactor <= accrued.cumulativeBorrowingFactor[key.isLong]
  <2>1. old.borrowingFactor <= market.cumulativeBorrowingFactor[key.isLong]
    BY <1>1 DEF Inv, Accrued
  <2>2. /\ key.isLong \in BOOLEAN /\ old.borrowingFactor \in Nat
        /\ market.cumulativeBorrowingFactor[key.isLong] \in Nat
        /\ accrued.cumulativeBorrowingFactor[key.isLong] \in Nat
    BY <1>1, KeyFacts DEF Position, Market
  <2>3. accrued.cumulativeBorrowingFactor[key.isLong] >= market.cumulativeBorrowingFactor[key.isLong]
    BY <1>1, <2>2, AccrueFacts
  <2> QED BY <1>1, <2>1, <2>2, <2>3 DEF Inv, Sized
<1>3. /\ adjusted.sizeDeltaUsd \in Nat /\ adjusted.sizeDeltaUsd <= old.sizeInUsd
      /\ adjusted.collateralDelta \in Nat
  BY <1>1, AdjustedTermsFacts
<1>4. /\ Deal(d) /\ d.token = key.collateralToken
      /\ d.sizeDeltaUsd \in Nat /\ d.sizeDeltaUsd <= old.sizeInUsd
      /\ d.tokens \in Nat /\ d.tokens <= old.sizeInTokens
      /\ d.sizeDeltaUsd = old.sizeInUsd => d.tokens = old.sizeInTokens
  <2>1. /\ Deal(d) /\ d.token = key.collateralToken
        /\ d.sizeDeltaUsd <= old.sizeInUsd /\ d.tokens <= old.sizeInTokens
        /\ d.sizeDeltaUsd = old.sizeInUsd => d.tokens = old.sizeInTokens
    BY <1>1, <1>2, <1>3, TermsFacts
  <2> QED BY <2>1 DEF Deal
<1>5. Kept(Start(accrued, old), paid, d) /\ Broke(paid)
  <2> DEFINE x == Start(accrued, old)
  <2>1. x \in Working /\ Solvent(x) /\ x.affiliateReward = 0  BY <1>1, StartFacts
  <2>2. paid = ProcessCollateral(x, d)  OBVIOUS
  <2> HIDE DEF x
  <2>3. Kept(x, paid, d) /\ Broke(paid)  BY <1>4, <2>1, <2>2, ProcessCollateralKeeps
  <2> QED BY <2>3 DEF x
<1>6. RestLeft(accrued, key, paid, rest, new)
  <2>1. paid \in Working  BY <1>5 DEF Kept
  <2> QED BY <1>1, <1>4, <2>1, RestFacts
<1> QED BY <1>1, <1>2, <1>3, <1>4, <1>5, <1>6

\* A decrease, a liquidation and an ADL order keep the invariant.
LEMMA DecreaseStep ==
  ASSUME Inv, NEW order, Asks(order), order.ui \in BOOLEAN, NEW isLiquidationOrAdl,
         NEW e \in Environment, Decrease(order, isLiquidationOrAdl, e)
  PROVE  Inv'
<1>1. PICK accrued, old, adjusted, d :
        /\ accrued = Accrue(e) /\ old = positions[order.key]
        /\ adjusted = AdjustedTerms(order, old, e)
        /\ d = Terms(order, adjusted, accrued, old, e)
        /\ Ends(order, isLiquidationOrAdl, e, accrued, old, d)
  BY DecreaseFacts
<1>2. PICK paid, rest, new, books, swapped, next :
        /\ paid = ProcessCollateral(Start(accrued, old), d)
        /\ rest = Rest(accrued, order.key, old, d, paid)
        /\ new = Left(rest)
        /\ books = DecreasedBooks(order.key, old, new, rest, d, paid, e)
        /\ swapped = SwapOutput(books, d)
        /\ next = PaidOut(swapped, d)
        /\ NonNegative(next) /\ Commits(order, paid, rest, new, swapped, next)
  BY <1>1, EndsFacts
<1>3. /\ old # NoPosition /\ steps < MaxSteps /\ steps' = steps + 1
      /\ UNCHANGED <<factorForTime, factorForAccount>>
  BY <1>1, DecreaseFacts
<1> DEFINE key == order.key
           exactly == ~history.restDropped
           still == ~(history.restDropped \/ (Closes(rest) /\ rest.sizeInUsd > 0))
<1>4. /\ market \in Market /\ positions \in [PositionKeys -> Position] /\ history \in History
      /\ key \in PositionKeys /\ old \in Position /\ accrued \in Market
  <2>1. market \in Market /\ positions \in [PositionKeys -> Position] /\ history \in History
    BY DEF Inv, TypeOK
  <2>2. accrued \in Market  BY <1>1, <2>1, AccrueFacts
  <2> QED BY <1>1, <2>1, <2>2 DEF Asks
<1>5. /\ accrued.balance = market.balance
      /\ accrued.claimableFunding = market.claimableFunding
      /\ accrued.fundingOf = market.fundingOf
      /\ accrued.openInterest = market.openInterest
      /\ accrued.openInterestInTokens = market.openInterestInTokens
      /\ accrued.collateralSum = market.collateralSum
      /\ accrued.totalBorrowing = market.totalBorrowing
      /\ SameClaims(market, accrued)
      /\ \A t \in Tokens : Owed(accrued, history, t) = Owed(market, history, t)
      /\ \A isLong \in BOOLEAN :
           accrued.cumulativeBorrowingFactor[isLong] >= market.cumulativeBorrowingFactor[isLong]
  BY <1>1, <1>4, AccrueFacts
<1>6. /\ AddUp(accrued, positions, exactly) /\ FundingAddsUp(accrued)
      /\ CollateralAddsUp(accrued)
  <2>1. AddUp(market, positions, exactly)  BY AddUpIsPositionsAddUp DEF Inv
  <2>2. FundingAddsUp(market) /\ CollateralAddsUp(market)  BY ClaimsAddUpParts DEF Inv
  <2>3. AddUp(accrued, positions, exactly)  BY <1>5, <2>1, SameAddUp
  <2>4. FundingAddsUp(accrued)  BY <1>5, <2>2 DEF FundingAddsUp
  <2> QED BY <1>5, <2>2, <2>3, <2>4, SameClaimsAddUp
<1>7. /\ Deal(d) /\ d.token = key.collateralToken
      /\ Kept(Start(accrued, old), paid, d) /\ Broke(paid)
      /\ RestLeft(accrued, key, paid, rest, new)
  <2>1. Named(order, e, accrued, old, adjusted, d, paid, rest, new)
    BY <1>1, <1>2, <1>3 DEF Named
  <2> QED BY <2>1, DealFacts
<1>8. Moved(positions, positions', key, new)
  BY <1>2, <1>4, <1>7, MovedFacts DEF Commits, RestLeft
<1>9. /\ books \in Working /\ SameFlags(history, books.history)
      /\ books.market.balance = accrued.balance
      /\ books.market.cumulativeBorrowingFactor = accrued.cumulativeBorrowingFactor
      /\ AddUp(books.market, positions', still)
      /\ FundingAddsUp(books.market) /\ CollateralAddsUp(books.market)
      /\ ~Solvent(paid) => books.output = 0 /\ books.secondary = 0
      /\ \A t \in Tokens : Owed(books.market, books.history, t) + Out(books, d, t)
                             = Owed(accrued, history, t)
  <2>1. books = DecreasedBooks(key, positions[key], new, rest, d, paid, e)  BY <1>1, <1>2
  <2>2. Kept(Start(accrued, positions[key]), paid, d)  BY <1>1, <1>7
  <2>3. exactly \in BOOLEAN /\ still \in BOOLEAN  OBVIOUS
  <2>4. still => exactly /\ ~(Closes(rest) /\ rest.sizeInUsd > 0)  OBVIOUS
  <2> HIDE DEF exactly, still, key
  <2> QED
    BY <1>4, <1>6, <1>7, <1>8, <2>1, <2>2, <2>3, <2>4, DecreasedBooksFacts
<1>10. /\ swapped \in Working /\ swapped.history = books.history
       /\ Untouched(books.market, swapped.market) /\ SameClaims(books.market, swapped.market)
       /\ books.output = 0 /\ books.secondary = 0 => swapped.output = 0 /\ swapped.secondary = 0
       /\ \A t \in Tokens : Owed(swapped.market, swapped.history, t) + Out(swapped, d, t)
                              = Owed(books.market, books.history, t) + Out(books, d, t)
  BY <1>2, <1>7, <1>9, SwapOutputFacts
<1>11. /\ next \in Books
       /\ \A t \in Tokens : next.balance[t] = swapped.market.balance[t] - Out(swapped, d, t)
       /\ \A t \in Tokens, h \in History : Owed(next, h, t) = Owed(swapped.market, h, t)
       /\ next.claimableFunding = swapped.market.claimableFunding
       /\ next.fundingOf = swapped.market.fundingOf
       /\ next.openInterest = swapped.market.openInterest
       /\ next.openInterestInTokens = swapped.market.openInterestInTokens
       /\ next.collateralSum = swapped.market.collateralSum
       /\ next.cumulativeBorrowingFactor = swapped.market.cumulativeBorrowingFactor
       /\ next.totalBorrowing = swapped.market.totalBorrowing
       /\ SameClaims(swapped.market, next)
  BY <1>2, <1>7, <1>10, PaidOutFacts
<1>12. /\ history' \in History
       /\ history'.funding = swapped.history.funding
       /\ history'.forgiven = swapped.history.forgiven
       /\ history'.dropped = swapped.history.dropped
       /\ ~history'.restDropped <=> still
       /\ history'.paidDespiteDebt <=>
            history.paidDespiteDebt \/ (~Solvent(paid) /\ swapped.output + swapped.secondary > 0)
  <2> DEFINE h == swapped.history
             insolvent == h.insolvent \/ ~Solvent(paid)
             restDropped == h.restDropped \/ (Closes(rest) /\ rest.sizeInUsd > 0)
             despite == h.paidDespiteDebt \/ (~Solvent(paid) /\ swapped.output + swapped.secondary > 0)
  <2>1. h \in History  BY <1>10 DEF Working
  <2>2. insolvent \in BOOLEAN /\ restDropped \in BOOLEAN /\ despite \in BOOLEAN  OBVIOUS
  <2>3. history' = [h EXCEPT !.insolvent = insolvent, !.restDropped = restDropped,
                             !.paidDespiteDebt = despite]
    BY <1>2 DEF Commits
  <2>4. h.restDropped = history.restDropped /\ h.paidDespiteDebt = history.paidDespiteDebt
    BY <1>9, <1>10 DEF SameFlags
  <2>5. (restDropped <=> ~still)
        /\ (despite <=> history.paidDespiteDebt
              \/ (~Solvent(paid) /\ swapped.output + swapped.secondary > 0))
    BY <2>4
  <2> HIDE DEF h, insolvent, restDropped, despite, still
  <2>6. /\ history' \in History
        /\ history'.funding = h.funding /\ history'.forgiven = h.forgiven
        /\ history'.dropped = h.dropped
        /\ history'.restDropped = restDropped /\ history'.paidDespiteDebt = despite
    BY <2>1, <2>2, <2>3 DEF History
  <2> QED BY <2>5, <2>6 DEF h
<1> HIDE DEF exactly, still
<1>13. market' = next /\ market' \in Market
  BY <1>2, <1>11, BooksAreMarket DEF Commits
<1>14. \A t \in Tokens : market'.balance[t] = Owed(market', history', t)
  <2> SUFFICES ASSUME NEW t \in Tokens PROVE next.balance[t] = Owed(next, history', t)
    BY <1>13
  <2>1. Owed(next, history', t) = Owed(swapped.market, history', t)  BY <1>11, <1>12
  <2>2. Owed(swapped.market, history', t) = Owed(swapped.market, swapped.history, t)
    BY <1>12 DEF Owed
  <2>3. swapped.market.balance[t] = market.balance[t]
    BY <1>5, <1>9, <1>10 DEF Untouched
  <2>4. market.balance[t] = Owed(market, history, t)  BY DEF Inv, TokensAddUp
  <2>5. Owed(swapped.market, swapped.history, t) + Out(swapped, d, t) = Owed(market, history, t)
    BY <1>5, <1>9, <1>10
  <2>6. /\ Owed(swapped.market, swapped.history, t) \in Int /\ Owed(market, history, t) \in Int
    <3>1. swapped.market \in Books /\ swapped.history \in History  BY <1>10 DEF Working
    <3> QED BY <1>4, <3>1, MarketIsBooks, OwedTypes
  <2>7. Out(swapped, d, t) \in Nat
    BY <1>10 DEF Out, Working
  <2> QED BY <1>11, <2>1, <2>2, <2>3, <2>4, <2>5, <2>6, <2>7
<1>15. /\ AddUp(market', positions', ~history'.restDropped)
       /\ FundingAddsUp(market') /\ CollateralAddsUp(market')
  <2>1. AddUp(next, positions', still)
    <3>1. /\ next.openInterest = books.market.openInterest
          /\ next.openInterestInTokens = books.market.openInterestInTokens
          /\ next.collateralSum = books.market.collateralSum
          /\ next.totalBorrowing = books.market.totalBorrowing
      BY <1>10, <1>11 DEF Untouched
    <3> QED BY <1>9, <3>1, SameAddUp
  <2>2. FundingAddsUp(next)  BY <1>9, <1>10, <1>11 DEF FundingAddsUp, Untouched
  <2>3. CollateralAddsUp(next)
    <3>1. SameClaims(books.market, next)  BY <1>10, <1>11 DEF SameClaims
    <3> QED BY <1>9, <3>1, SameClaimsAddUp
  <2>4. AddUp(next, positions', ~history'.restDropped)  BY <1>12, <2>1 DEF AddUp
  <2> QED BY <1>13, <2>2, <2>3, <2>4
<1>16. ~history'.paidDespiteDebt
  <2>1. ~history.paidDespiteDebt  BY DEF Inv, CostsComeFirst
  <2>2. ~Solvent(paid) => swapped.output = 0 /\ swapped.secondary = 0  BY <1>9, <1>10
  <2> QED BY <1>12, <2>1, <2>2
<1>17. Sized'
  BY <1>7, <1>8 DEF Inv, Sized, Moved, NoPosition, RestLeft
<1>18. Accrued'
  <2> SUFFICES ASSUME NEW k \in PositionKeys
               PROVE positions'[k].borrowingFactor <= next.cumulativeBorrowingFactor[k.isLong]
    BY <1>13 DEF Accrued
  <2>1. next.cumulativeBorrowingFactor = accrued.cumulativeBorrowingFactor
    BY <1>9, <1>10, <1>11 DEF Untouched
  <2>2. CASE k = key  BY <1>7, <1>8, <2>1, <2>2 DEF Moved, RestLeft
  <2>3. CASE k # key
    <3>1. positions'[k] = positions[k] /\ positions[k] \in Position
      BY <1>4, <1>8, <2>3 DEF Moved
    <3>2. positions[k].borrowingFactor <= market.cumulativeBorrowingFactor[k.isLong]
      BY DEF Inv, Accrued
    <3>3. /\ k.isLong \in BOOLEAN /\ positions[k].borrowingFactor \in Nat
          /\ market.cumulativeBorrowingFactor[k.isLong] \in Nat
          /\ accrued.cumulativeBorrowingFactor[k.isLong] \in Nat
      BY <1>4, <3>1, KeyFacts DEF Position, Market
    <3>4. accrued.cumulativeBorrowingFactor[k.isLong] >= market.cumulativeBorrowingFactor[k.isLong]
      BY <1>5, <3>3
    <3> QED BY <2>1, <3>1, <3>2, <3>3, <3>4
  <2> QED BY <2>2, <2>3
<1>19. /\ positions' \in [PositionKeys -> Position]
       /\ factorForTime' \in 0..Precision /\ factorForAccount' \in [Holders -> 0..Precision]
       /\ steps' \in 0..MaxSteps
  <2>1. MaxSteps \in Nat  BY PositionsAssumption
  <2> QED BY <1>3, <1>8, <2>1 DEF Inv, TypeOK, Moved
<1> QED BY <1>12, <1>13, <1>14, <1>15, <1>16, <1>17, <1>18, <1>19, InvAfter

\* The books as what a decrease works on, with nothing in hand.
Carry(m, h) ==
  [market |-> m, history |-> h, affiliateReward |-> 0, output |-> 0, secondary |-> 0,
   collateral |-> 0, unpaidUsd |-> 0, paid |-> 0, paidSecondary |-> 0]

\* Books that carry no output.
LEMMA CarryFacts ==
  ASSUME NEW m \in Books, NEW h \in History, NEW x, x = Carry(m, h)
  PROVE  x \in Working /\ x.market = m /\ x.history = h
<1> DEFINE none == 0
<1>1. none \in Nat  OBVIOUS
<1>2. x = [market |-> m, history |-> h, affiliateReward |-> none, output |-> none,
           secondary |-> none, collateral |-> none, unpaidUsd |-> none, paid |-> none,
           paidSecondary |-> none]
  BY DEF Carry
<1> HIDE DEF none
<1> QED BY <1>1, <1>2 DEF Working

\* The operators on the books do the same to the books alone.
LEMMA CarriedCreditFees ==
  ASSUME NEW m \in Books, NEW h \in History, NEW token \in Tokens, NEW fees,
         NEW x, x = Carry(m, h)
  PROVE  CreditFees([market |-> m, history |-> h], token, fees)
           = [market |-> CreditFees(x, token, fees).market, history |-> h]
<1> DEFINE r == [market |-> m, history |-> h]
           n == [m EXCEPT !.poolAmount[token] = @ + fees.forPool,
                          !.claimableFee[token] = @ + fees.forReceiver,
                          !.claimableUiFee[token] = @ + fees.forUi]
<1>1. r \in [market : Books, history : History] /\ r.market = m /\ r.history = h  OBVIOUS
<1>2. x \in Working /\ x.market = m  BY CarryFacts
<1> HIDE DEF r
<1>3. CreditFees(r, token, fees) = [r EXCEPT !.market = n]
  BY <1>1 DEF CreditFees, Books
<1>4. CreditFees(x, token, fees) = [x EXCEPT !.market = n]
  BY <1>2 DEF CreditFees, Working, Books
<1> HIDE DEF n
<1>5. CreditFees(x, token, fees).market = n  BY <1>2, <1>4 DEF Working
<1>6. [r EXCEPT !.market = n] = [market |-> n, history |-> h]  BY <1>1
<1> QED BY <1>3, <1>5, <1>6 DEF r

\* The same for the impact pool.
LEMMA CarriedAddToImpactPool ==
  ASSUME NEW m \in Books, NEW h \in History, NEW amount, NEW x, x = Carry(m, h)
  PROVE  AddToImpactPool([market |-> m, history |-> h], amount)
           = [market |-> AddToImpactPool(x, amount).market, history |-> h]
BY CarryFacts DEF AddToImpactPool, Working

\* The same for the funding claims.
LEMMA CarriedCreditFunding ==
  ASSUME NEW m \in Books, NEW h \in History, NEW account \in Accounts, NEW claim \in Amounts,
         NEW x, x = Carry(m, h)
  PROVE  CreditFunding([market |-> m, history |-> h], account, claim)
           = [market |-> CreditFunding(x, account, claim).market,
              history |-> CreditFunding(x, account, claim).history]
<1> DEFINE r == [market |-> m, history |-> h]
           of == [t \in Tokens |-> [m.fundingOf[t] EXCEPT ![account] = @ + claim[t]]]
           total == [t \in Tokens |-> m.claimableFunding[t] + claim[t]]
           paid == [t \in Tokens |-> h.funding[t] - claim[t]]
           n == [m EXCEPT !.fundingOf = of, !.claimableFunding = total]
           g == [h EXCEPT !.funding = paid]
<1>1. r \in [market : Books, history : History] /\ r.market = m /\ r.history = h  OBVIOUS
<1>2. x \in Working /\ x.market = m /\ x.history = h  BY CarryFacts
<1> HIDE DEF r
<1>3. CreditFunding(r, account, claim) = [r EXCEPT !.market = n, !.history = g]
  <2>1. CreditFunding(r, account, claim)
          = [r EXCEPT !.market.fundingOf = of, !.market.claimableFunding = total,
                      !.history.funding = paid]
    BY <1>1 DEF CreditFunding, Books, History
  <2> HIDE DEF of, total, paid
  <2> QED BY <1>1, <2>1 DEF Books, History
<1>4. CreditFunding(x, account, claim) = [x EXCEPT !.market = n, !.history = g]
  <2>1. CreditFunding(x, account, claim)
          = [x EXCEPT !.market.fundingOf = of, !.market.claimableFunding = total,
                      !.history.funding = paid]
    BY <1>2 DEF CreditFunding, Working, Books, History
  <2> HIDE DEF of, total, paid
  <2> QED BY <1>2, <2>1 DEF Working, Books, History
<1> HIDE DEF n, g
<1>5. CreditFunding(x, account, claim).market = n /\ CreditFunding(x, account, claim).history = g
  BY <1>2, <1>4 DEF Working
<1>6. [r EXCEPT !.market = n, !.history = g] = [market |-> n, history |-> g]
  <2>1. CreditFunding(x, account, claim) \in Working  BY <1>2, CreditFundingFacts DEF Funded
  <2>2. n \in Books /\ g \in History  BY <1>5, <2>1 DEF Working
  <2> DEFINE z == [r EXCEPT !.market = n, !.history = g]
  <2>3. z \in [market : Books, history : History] /\ z.market = n /\ z.history = g
    BY <1>1, <2>2
  <2> HIDE DEF z
  <2>4. z = [market |-> n, history |-> g]  BY <2>3
  <2> QED BY <2>4 DEF z
<1> QED BY <1>3, <1>5, <1>6 DEF r

\* What the market receives for an increase is owed to the position and to those
\* who share its fees.
Receives(f, m, h, token, amount, reward, funding) ==
  /\ m = [f EXCEPT !.balance[token] = @ + amount, !.affiliateReward[token] = @ + reward]
  /\ h = [history EXCEPT !.funding[token] = @ + funding]

Received(f, m, h, token, amount, total) ==
  /\ m \in Books /\ h \in History /\ SameFlags(history, h)
  /\ \A t \in Tokens : m.balance[t] = f.balance[t] + (IF t = token THEN amount ELSE 0)
  /\ m.openInterest = f.openInterest /\ m.openInterestInTokens = f.openInterestInTokens
  /\ m.collateralSum = f.collateralSum /\ m.totalBorrowing = f.totalBorrowing
  /\ m.cumulativeBorrowingFactor = f.cumulativeBorrowingFactor
  /\ m.claimableFunding = f.claimableFunding /\ m.fundingOf = f.fundingOf
  /\ SameClaims(f, m)
  /\ \A t \in Tokens : Owed(m, h, t) = Owed(f, history, t)
                         + (IF t = token THEN total ELSE 0)

\* Books that receive tokens owe as much more as they receive.
LEMMA ReceivedFacts ==
  ASSUME NEW f \in Books, history \in History, NEW token \in Tokens,
         NEW amount \in Nat, NEW reward \in Nat, NEW funding \in Nat,
         NEW m, NEW h, Receives(f, m, h, token, amount, reward, funding)
  PROVE  Received(f, m, h, token, amount, reward + funding)
<1> DEFINE balance == [f.balance EXCEPT ![token] = @ + amount]
           rewards == [f.affiliateReward EXCEPT ![token] = @ + reward]
           paid == [history.funding EXCEPT ![token] = @ + funding]
<1>1. m = [f EXCEPT !.balance = balance, !.affiliateReward = rewards]  BY DEF Books, Receives
<1>2. h = [history EXCEPT !.funding = paid]  BY DEF History, Receives
<1>3. /\ balance \in [Tokens -> Int]
      /\ \A t \in Tokens : balance[t] = f.balance[t] + (IF t = token THEN amount ELSE 0)
  BY DEF Books
<1>4. /\ rewards \in Amounts
      /\ \A t \in Tokens : rewards[t] = f.affiliateReward[t] + (IF t = token THEN reward ELSE 0)
  BY DEF Books, Amounts
<1>5. /\ paid \in [Tokens -> Int]
      /\ \A t \in Tokens : paid[t] = history.funding[t] + (IF t = token THEN funding ELSE 0)
  BY DEF History
<1> HIDE DEF balance, rewards, paid
<1>6. /\ m \in Books /\ m.balance = balance /\ m.affiliateReward = rewards
      /\ m.poolAmount = f.poolAmount
      /\ m.claimableFee = f.claimableFee /\ m.claimableUiFee = f.claimableUiFee
      /\ m.openInterest = f.openInterest /\ m.openInterestInTokens = f.openInterestInTokens
      /\ m.collateralSum = f.collateralSum /\ m.totalBorrowing = f.totalBorrowing
      /\ m.cumulativeBorrowingFactor = f.cumulativeBorrowingFactor
      /\ m.claimableFunding = f.claimableFunding /\ m.fundingOf = f.fundingOf
      /\ SameClaims(f, m)
  BY <1>1, <1>3, <1>4 DEF Books, SameClaims
<1>7. /\ h \in History /\ SameFlags(history, h) /\ h.funding = paid
      /\ h.forgiven = history.forgiven /\ h.dropped = history.dropped
  BY <1>2, <1>5 DEF History, SameFlags
<1>8. ASSUME NEW t \in Tokens
      PROVE  Owed(m, h, t) = Owed(f, history, t) + (IF t = token THEN reward + funding ELSE 0)
  <2>1. TypesOf(f, history, t)  BY OwedTypes
  <2>2. m.claimableCollateral = f.claimableCollateral  BY <1>6 DEF SameClaims
  <2>3. /\ m.affiliateReward[t] = f.affiliateReward[t] + (IF t = token THEN reward ELSE 0)
        /\ h.funding[t] = history.funding[t] + (IF t = token THEN funding ELSE 0)
    BY <1>4, <1>5, <1>6, <1>7
  <2>4. /\ m.poolAmount[t] = f.poolAmount[t] /\ m.claimableFee[t] = f.claimableFee[t]
        /\ m.claimableUiFee[t] = f.claimableUiFee[t]
        /\ m.claimableCollateral[t] = f.claimableCollateral[t]
        /\ m.claimableFunding[t] = f.claimableFunding[t]
        /\ m.collateralSum = f.collateralSum
        /\ h.forgiven[t] = history.forgiven[t] /\ h.dropped[t] = history.dropped[t]
    BY <1>6, <1>7, <2>2
  <2> QED
    <3>1. CASE t = token  BY <3>1, <2>1, <2>3, <2>4 DEF Owed, TypesOf
    <3>2. CASE t # token  BY <3>2, <2>1, <2>3, <2>4 DEF Owed, TypesOf
    <3> QED BY <3>1, <3>2
<1> QED BY <1>3, <1>6, <1>7, <1>8 DEF Received

\* The books after an increase owe what has been paid for it, and count the position.
Increased(m, f, next, order) ==
  /\ next.market \in Books /\ next.history \in History /\ SameFlags(history, next.history)
  /\ f.openInterest = next.market.openInterest
  /\ f.openInterestInTokens = next.market.openInterestInTokens
  /\ f.collateralSum = next.market.collateralSum
  /\ f.totalBorrowing = next.market.totalBorrowing
  /\ next.market.cumulativeBorrowingFactor = m.cumulativeBorrowingFactor
  /\ SameClaims(m, next.market)
  /\ FundingAddsUp(m) => FundingAddsUp(next.market)
  /\ \A t \in Tokens : next.market.balance[t]
       = m.balance[t] + (IF t = order.key.collateralToken THEN order.amount ELSE 0)
  /\ \A t \in Tokens : Owed(next.market, next.history, t) = Owed(m, history, t)
       + (IF t = order.key.collateralToken THEN order.amount ELSE 0)

\* The books after an increase: the order's collateral is owed, and nothing else is new.
LEMMA IncreasedBooksFacts ==
  ASSUME NEW m \in Market, history \in History, NEW order, order.key \in PositionKeys,
         order.amount \in Nat, NEW old \in Position, NEW new \in Position,
         NEW terms, terms.fees \in Fees, FeesAddUp(terms.fees), terms.impactAmount \in Int,
         new.collateralAmount = old.collateralAmount + order.amount - terms.fees.total,
         NEW e \in Environment,
         NEW f, f = Follow(m, order.key, old, new, new.sizeInUsd, new.sizeInTokens),
         NEW next, next = IncreasedBooks(order, m, old, new, terms, e)
  PROVE  Increased(m, f, next, order)
<1> DEFINE key == order.key
           token == key.collateralToken
           fees == terms.fees
           reward == fees.forAffiliate
           funding == fees.funding
           amount == order.amount
           r == [f EXCEPT !.balance[token] = @ + amount, !.affiliateReward[token] = @ + reward]
           h == [history EXCEPT !.funding[token] = @ + funding]
           claim == FundingClaim(old, e)
           impact == -terms.impactAmount
           credited == CreditFees(Carry(r, h), token, fees)
           moved == AddToImpactPool(Carry(credited.market, h), impact)
           last == CreditFunding(Carry(moved.market, h), key.account, claim)
<1>1. next = CreditFunding(AddToImpactPool(CreditFees([market |-> r, history |-> h], token, fees),
                                           impact), key.account, claim)
  BY DEF IncreasedBooks
<1>2. /\ key \in PositionKeys /\ token \in Tokens /\ key.account \in Accounts /\ claim \in Amounts
      /\ m \in Books
  BY KeyFacts, FundingFacts, MarketIsBooks
<1>3. /\ reward \in Nat /\ funding \in Nat /\ amount \in Nat /\ impact \in Int /\ fees \in Fees
      /\ fees.forPool \in Nat /\ fees.forReceiver \in Nat /\ fees.forUi \in Nat
      /\ fees.total = fees.forPool + fees.forReceiver + fees.forUi + reward + funding
  BY DEF Fees, FeesAddUp
<1>4. f \in Books /\ Followed(m, f, key, old, new, new.sizeInUsd, new.sizeInTokens)
  <2>1. new.sizeInUsd \in Nat /\ new.sizeInTokens \in Nat  BY DEF Position
  <2> QED BY <1>2, <2>1, FollowFacts
<1>5. Received(f, r, h, token, amount, reward + funding)
  <2>1. Receives(f, r, h, token, amount, reward, funding)  BY DEF Receives
  <2> HIDE DEF token, amount, reward, funding, r, h
  <2> QED BY <1>2, <1>3, <1>4, <2>1, ReceivedFacts
<1> HIDE DEF r, h, fees, claim, impact
<1>a. r \in Books /\ h \in History  BY <1>5 DEF Received
<1>6. Credited(Carry(r, h), credited, token, fees.forPool + fees.forReceiver + fees.forUi)
  BY <1>2, <1>3, <1>a, CarryFacts, CreditFeesFacts
<1> HIDE DEF credited
<1>7. credited.market \in Books  BY <1>6 DEF Credited, Working
<1>8. Credited(Carry(credited.market, h), moved, LongToken, 0)
  BY <1>3, <1>a, <1>7, CarryFacts, AddToImpactPoolFacts
<1> HIDE DEF moved
<1>9. moved.market \in Books  BY <1>8 DEF Credited, Working
<1>10. Funded(Carry(moved.market, h), last)
  BY <1>2, <1>a, <1>9, CarryFacts, CreditFundingFacts
<1>11. next = [market |-> last.market, history |-> last.history]
  <2>1. CreditFees([market |-> r, history |-> h], token, fees)
          = [market |-> credited.market, history |-> h]
    BY <1>2, <1>a, CarriedCreditFees DEF credited
  <2>2. AddToImpactPool([market |-> credited.market, history |-> h], impact)
          = [market |-> moved.market, history |-> h]
    BY <1>a, <1>7, CarriedAddToImpactPool DEF moved
  <2>3. CreditFunding([market |-> moved.market, history |-> h], key.account, claim)
          = [market |-> last.market, history |-> last.history]
    <3> DEFINE x == Carry(moved.market, h)
    <3>1. last = CreditFunding(x, key.account, claim) /\ x = Carry(moved.market, h)  OBVIOUS
    <3> HIDE DEF x, last, key
    <3> QED BY <1>2, <1>a, <1>9, <3>1, CarriedCreditFunding
  <2> QED BY <1>1, <2>1, <2>2, <2>3
<1> HIDE DEF last
<1>12. /\ last \in Working /\ next.market = last.market /\ next.history = last.history
  BY <1>10, <1>11 DEF Funded
<1>13. /\ Carry(r, h).market = r /\ Carry(r, h).history = h
       /\ Carry(credited.market, h).market = credited.market
       /\ Carry(credited.market, h).history = h
       /\ Carry(moved.market, h).market = moved.market /\ Carry(moved.market, h).history = h
  BY DEF Carry
<1>14. /\ SameFlags(history, next.history)
       /\ f.openInterest = next.market.openInterest
       /\ f.openInterestInTokens = next.market.openInterestInTokens
       /\ f.collateralSum = next.market.collateralSum
       /\ f.totalBorrowing = next.market.totalBorrowing
       /\ next.market.cumulativeBorrowingFactor = m.cumulativeBorrowingFactor
       /\ SameClaims(m, next.market)
       /\ next.market.balance = r.balance
  BY <1>4, <1>5, <1>6, <1>8, <1>10, <1>12, <1>13
     DEF Received, Credited, Funded, Followed, Untouched, SameFlags, SameClaims
<1>15. FundingAddsUp(m) => FundingAddsUp(next.market)
  <2>1. /\ moved.market.claimableFunding = m.claimableFunding
        /\ moved.market.fundingOf = m.fundingOf
    BY <1>4, <1>5, <1>6, <1>8, <1>13 DEF Received, Credited, Followed, Untouched
  <2>2. FundingAddsUp(m) => FundingAddsUp(moved.market)  BY <2>1 DEF FundingAddsUp
  <2> QED BY <1>10, <1>12, <1>13, <2>2 DEF Funded
<1>16. ASSUME NEW t \in Tokens
       PROVE  /\ next.market.balance[t] = m.balance[t] + (IF t = token THEN amount ELSE 0)
              /\ Owed(next.market, next.history, t)
                   = Owed(m, history, t) + (IF t = token THEN amount ELSE 0)
  <2>1. next.market.balance[t] = m.balance[t] + (IF t = token THEN amount ELSE 0)
    <3>1. r.balance[t] = f.balance[t] + (IF t = token THEN amount ELSE 0)  BY <1>5 DEF Received
    <3>2. f.balance = m.balance  BY <1>4 DEF Followed
    <3> QED BY <1>14, <3>1, <3>2
  <2>2. Owed(f, history, t) = Owed(m, history, t)
          + (IF t = token THEN new.collateralAmount - old.collateralAmount ELSE 0)
    BY <1>2, <1>4, FollowOwes
  <2>3. Owed(r, h, t) = Owed(f, history, t) + (IF t = token THEN reward + funding ELSE 0)
    BY <1>5 DEF Received
  <2>4. Owed(credited.market, h, t) = Owed(r, h, t)
          + (IF t = token THEN fees.forPool + fees.forReceiver + fees.forUi ELSE 0)
    BY <1>6, <1>13 DEF Credited
  <2>5. Owed(moved.market, h, t) = Owed(credited.market, h, t) + (IF t = LongToken THEN 0 ELSE 0)
    BY <1>8, <1>13 DEF Credited
  <2>6. Owed(next.market, next.history, t) = Owed(moved.market, h, t)
    BY <1>10, <1>12, <1>13 DEF Funded
  <2>7. Owed(m, history, t) \in Int  BY <1>2, OwedTypes
  <2>8. old.collateralAmount \in Nat /\ new.collateralAmount \in Nat  BY DEF Position
  <2>9. new.collateralAmount = old.collateralAmount + amount
          - (fees.forPool + fees.forReceiver + fees.forUi + reward + funding)
    BY <1>3 DEF fees
  <2>10. /\ Owed(f, history, t) \in Int /\ Owed(r, h, t) \in Int
         /\ Owed(credited.market, h, t) \in Int /\ Owed(moved.market, h, t) \in Int
    BY <1>a, <1>4, <1>7, <1>9, OwedTypes
  <2> HIDE DEF amount, reward, funding, token
  <2>11. Owed(next.market, next.history, t) = Owed(m, history, t) + (IF t = token THEN amount ELSE 0)
    <3>1. CASE t = token
      BY <3>1, <1>3, <2>2, <2>3, <2>4, <2>5, <2>6, <2>7, <2>8, <2>9, <2>10
    <3>2. CASE t # token
      BY <3>2, <2>2, <2>3, <2>4, <2>5, <2>6, <2>7, <2>10
    <3> QED BY <3>1, <3>2
  <2> QED BY <2>1, <2>11
<1>17. next.market \in Books /\ next.history \in History  BY <1>12 DEF Working
<1> QED BY <1>14, <1>15, <1>16, <1>17 DEF Increased

\* The terms of an increase.
LEMMA IncreaseTermsFacts ==
  ASSUME NEW order, order.key \in PositionKeys, order.sizeDeltaUsd \in Nat, order.ui \in BOOLEAN,
         NEW m \in Market, NEW old \in Position, NEW e \in Environment,
         old.borrowingFactor <= m.cumulativeBorrowingFactor[order.key.isLong],
         NEW terms, terms = IncreaseTerms(order, m, old, e)
  PROVE  /\ terms.fees \in Fees /\ FeesAddUp(terms.fees)
         /\ terms.impactAmount \in Int /\ terms.tokens \in Int
<1> DEFINE key == order.key
           size == order.sizeDeltaUsd
           sized == size > 0
           index == e.prices.index
           impactUsd == IF sized THEN CappedImpactUsd(m, e.prices, e.impactUsd, size) ELSE 0
           impactAmount == ImpactAmountForIncrease(e.prices, impactUsd)
           tokens == IF sized THEN TokensForIncrease(e.prices, impactUsd, size, key.isLong) ELSE 0
           price == TokenPrice(key.collateralToken, e.prices)
           positive == impactUsd > 0
           referred == key.account \in Referred
           fee == FundingFee(old, e)
           fees == PositionFees(m, old, key.isLong, price, size, positive, referred, order.ui, fee)
<1>1. /\ key \in PositionKeys /\ key.collateralToken \in Tokens /\ key.isLong \in BOOLEAN
      /\ e.prices \in Prices /\ e.impactUsd \in Int /\ fee \in Nat
  BY KeyFacts, FundingFacts DEF Environment, Prices
<1>2. price \in PriceRange  BY <1>1, PriceFacts
<1>3. index.min \in Nat \ {0} /\ index.max \in Nat \ {0}  BY <1>1 DEF Prices, PriceRange
<1>4. impactUsd \in Int
  <2>1. CappedImpactUsd(m, e.prices, e.impactUsd, size) \in Int  BY <1>1, CappedImpactFacts
  <2> QED BY <2>1
<1> HIDE DEF impactUsd, price, fee
<1>5. impactAmount \in Int
  <2>1. CASE impactUsd > 0
    <3>1. impactUsd \div index.max \in Nat  BY <1>3, <1>4, <2>1, FloorFacts
    <3> QED BY <2>1, <3>1 DEF ImpactAmountForIncrease
  <2>2. CASE ~(impactUsd > 0)
    <3>1. RoundUpMagnitudeDivision(impactUsd, index.min) \in Int
      BY <1>3, <1>4, RoundUpMagnitudeFacts
    <3> QED BY <2>2, <3>1 DEF ImpactAmountForIncrease
  <2> QED BY <2>1, <2>2
<1>6. tokens \in Int
  <2>1. size \div index.max \in Nat  BY <1>3, FloorFacts
  <2>2. RoundUpDivision(size, index.min) \in Nat  BY <1>3, RoundUpDivisionFacts
  <2>3. TokensForIncrease(e.prices, impactUsd, size, key.isLong)
          = IF key.isLong THEN size \div index.max + impactAmount
            ELSE RoundUpDivision(size, index.min) - impactAmount
    BY DEF TokensForIncrease
  <2> HIDE DEF impactAmount
  <2>4. TokensForIncrease(e.prices, impactUsd, size, key.isLong) \in Int
    BY <1>5, <2>1, <2>2, <2>3
  <2> QED BY <2>4
<1>7. fees \in Fees /\ FeesAddUp(fees)
  <2>1. positive \in BOOLEAN /\ referred \in BOOLEAN  OBVIOUS
  <2> HIDE DEF positive, referred
  <2> QED BY <1>1, <1>2, <2>1, PositionFeesFacts
<1>8. terms.impactAmount = impactAmount /\ terms.tokens = tokens /\ terms.fees = fees
  BY DEF IncreaseTerms, impactUsd, price, fee
<1> HIDE DEF impactAmount, tokens, fees
<1> QED BY <1>5, <1>6, <1>7, <1>8

\* An increase, its values named.
LEMMA IncreaseFacts ==
  ASSUME NEW order, NEW e, IncreasePosition(order, e)
  PROVE  \E accrued, old, terms, new, next :
           /\ accrued = Accrue(e) /\ old = positions[order.key]
           /\ terms = IncreaseTerms(order, accrued, old, e)
           /\ new = IncreasedPosition(order, accrued, old, terms)
           /\ next = IncreasedBooks(order, accrued, old, new, terms, e)
           /\ new.collateralAmount >= 0 /\ new.sizeInUsd > 0 /\ new.sizeInTokens > 0
           /\ NonNegative(next.market)
           /\ market' = next.market
           /\ positions' = [positions EXCEPT ![order.key] = new]
           /\ history' = next.history
           /\ steps < MaxSteps /\ steps' = steps + 1
           /\ UNCHANGED <<factorForTime, factorForAccount>>
<1>1. PICK accrued \in {Accrue(e)}, old \in {positions[order.key]} :
      \E terms \in {IncreaseTerms(order, accrued, old, e)} :
      \E new \in {IncreasedPosition(order, accrued, old, terms)} :
      \E next \in {IncreasedBooks(order, accrued, old, new, terms, e)} :
        /\ new.collateralAmount >= 0
        /\ ValidPosition(next.market, new, order.key, e, TRUE)
        /\ NonNegative(next.market) /\ ValidBalance(next.market)
        /\ market' = next.market
        /\ positions' = [positions EXCEPT ![order.key] = new]
        /\ history' = next.history
  BY ZenonT(60) DEF IncreasePosition
<1>2. PICK terms \in {IncreaseTerms(order, accrued, old, e)} :
      \E new \in {IncreasedPosition(order, accrued, old, terms)} :
      \E next \in {IncreasedBooks(order, accrued, old, new, terms, e)} :
        /\ new.collateralAmount >= 0
        /\ ValidPosition(next.market, new, order.key, e, TRUE)
        /\ NonNegative(next.market)
        /\ market' = next.market
        /\ positions' = [positions EXCEPT ![order.key] = new]
        /\ history' = next.history
  BY <1>1, ZenonT(60)
<1>3. PICK new, next :
        /\ new = IncreasedPosition(order, accrued, old, terms)
        /\ next = IncreasedBooks(order, accrued, old, new, terms, e)
        /\ new.collateralAmount >= 0
        /\ ValidPosition(next.market, new, order.key, e, TRUE)
        /\ NonNegative(next.market)
        /\ market' = next.market
        /\ positions' = [positions EXCEPT ![order.key] = new]
        /\ history' = next.history
  BY <1>2, ZenonT(60)
<1>4. new.sizeInUsd > 0 /\ new.sizeInTokens > 0  BY <1>3, Zenon DEF ValidPosition
<1>5. steps < MaxSteps /\ steps' = steps + 1 /\ UNCHANGED <<factorForTime, factorForAccount>>
  BY Zenon DEF IncreasePosition
<1> QED BY <1>1, <1>2, <1>3, <1>4, <1>5, ZenonT(60)

\* An increase keeps the invariant.
LEMMA IncreaseStep ==
  ASSUME Inv, NEW order \in IncreaseOrders, NEW e \in Environment, IncreasePosition(order, e)
  PROVE  Inv'
<1>1. PICK accrued, old, terms, new, next :
        /\ accrued = Accrue(e) /\ old = positions[order.key]
        /\ terms = IncreaseTerms(order, accrued, old, e)
        /\ new = IncreasedPosition(order, accrued, old, terms)
        /\ next = IncreasedBooks(order, accrued, old, new, terms, e)
        /\ new.collateralAmount >= 0 /\ new.sizeInUsd > 0 /\ new.sizeInTokens > 0
        /\ NonNegative(next.market)
        /\ market' = next.market
        /\ positions' = [positions EXCEPT ![order.key] = new]
        /\ history' = next.history
        /\ steps < MaxSteps /\ steps' = steps + 1
        /\ UNCHANGED <<factorForTime, factorForAccount>>
  BY IncreaseFacts
<1> DEFINE key == order.key
           exactly == ~history.restDropped
           f == Follow(accrued, key, old, new, new.sizeInUsd, new.sizeInTokens)
<1>2. /\ key \in PositionKeys /\ order.sizeDeltaUsd \in Nat /\ order.amount \in Nat
      /\ order.ui \in BOOLEAN
  BY PositionsAssumption
<1>3. /\ market \in Market /\ positions \in [PositionKeys -> Position] /\ history \in History
      /\ old \in Position /\ accrued \in Market
  <2>1. market \in Market /\ positions \in [PositionKeys -> Position] /\ history \in History
    BY DEF Inv, TypeOK
  <2>2. accrued \in Market  BY <1>1, <2>1, AccrueFacts
  <2> QED BY <1>1, <1>2, <2>1, <2>2
<1>4. /\ accrued.balance = market.balance
      /\ accrued.claimableFunding = market.claimableFunding
      /\ accrued.fundingOf = market.fundingOf
      /\ accrued.openInterest = market.openInterest
      /\ accrued.openInterestInTokens = market.openInterestInTokens
      /\ accrued.collateralSum = market.collateralSum
      /\ accrued.totalBorrowing = market.totalBorrowing
      /\ SameClaims(market, accrued)
      /\ \A t \in Tokens : Owed(accrued, history, t) = Owed(market, history, t)
      /\ \A isLong \in BOOLEAN :
           accrued.cumulativeBorrowingFactor[isLong] >= market.cumulativeBorrowingFactor[isLong]
  BY <1>1, <1>3, AccrueFacts
<1>5. /\ AddUp(accrued, positions, exactly) /\ FundingAddsUp(accrued)
      /\ CollateralAddsUp(accrued)
  <2>1. AddUp(market, positions, exactly)  BY AddUpIsPositionsAddUp DEF Inv
  <2>2. FundingAddsUp(market) /\ CollateralAddsUp(market)  BY ClaimsAddUpParts DEF Inv
  <2>3. AddUp(accrued, positions, exactly)  BY <1>4, <2>1, SameAddUp
  <2>4. FundingAddsUp(accrued)  BY <1>4, <2>2 DEF FundingAddsUp
  <2> QED BY <1>4, <2>2, <2>3, <2>4, SameClaimsAddUp
<1>6. \A k \in PositionKeys :
        /\ positions[k].borrowingFactor <= accrued.cumulativeBorrowingFactor[k.isLong]
        /\ accrued.cumulativeBorrowingFactor[k.isLong] \in Nat
  <2> SUFFICES ASSUME NEW k \in PositionKeys
               PROVE /\ positions[k].borrowingFactor <= accrued.cumulativeBorrowingFactor[k.isLong]
                     /\ accrued.cumulativeBorrowingFactor[k.isLong] \in Nat
    OBVIOUS
  <2>1. positions[k].borrowingFactor <= market.cumulativeBorrowingFactor[k.isLong]
    BY DEF Inv, Accrued
  <2>2. /\ k.isLong \in BOOLEAN /\ positions[k].borrowingFactor \in Nat
        /\ market.cumulativeBorrowingFactor[k.isLong] \in Nat
        /\ accrued.cumulativeBorrowingFactor[k.isLong] \in Nat
    BY <1>3, KeyFacts DEF Position, Market
  <2>3. accrued.cumulativeBorrowingFactor[k.isLong] >= market.cumulativeBorrowingFactor[k.isLong]
    BY <1>4, <2>2
  <2> QED BY <2>1, <2>2, <2>3
<1>7. /\ terms.fees \in Fees /\ FeesAddUp(terms.fees)
      /\ terms.impactAmount \in Int /\ terms.tokens \in Int
  BY <1>1, <1>2, <1>3, <1>6, IncreaseTermsFacts
<1>8. /\ new \in Position
      /\ new.collateralAmount = old.collateralAmount + order.amount - terms.fees.total
      /\ new.borrowingFactor = accrued.cumulativeBorrowingFactor[key.isLong]
  <2> DEFINE size == old.sizeInUsd + order.sizeDeltaUsd
             tokens == old.sizeInTokens + terms.tokens
             collateral == old.collateralAmount + order.amount - terms.fees.total
             factor == accrued.cumulativeBorrowingFactor[key.isLong]
  <2>1. new = [sizeInUsd |-> size, sizeInTokens |-> tokens, collateralAmount |-> collateral,
               borrowingFactor |-> factor]
    BY <1>1 DEF IncreasedPosition
  <2>2. /\ size \in Nat /\ tokens \in Int /\ collateral \in Int /\ factor \in Nat
    <3>1. /\ old.sizeInUsd \in Nat /\ old.sizeInTokens \in Nat /\ old.collateralAmount \in Nat
          /\ terms.fees.total \in Nat
      BY <1>3, <1>7 DEF Position, Fees
    <3> QED BY <1>2, <1>6, <1>7, <3>1
  <2> HIDE DEF size, tokens, collateral, factor
  <2>3. tokens > 0 /\ collateral >= 0  BY <1>1, <2>1
  <2>4. tokens \in Nat /\ collateral \in Nat  BY <2>2, <2>3
  <2> QED BY <2>1, <2>2, <2>4 DEF Position, collateral, factor
<1>9. Moved(positions, positions', key, new)
  BY <1>1, <1>2, <1>3, <1>8, MovedFacts
<1>10. f \in Books /\ AddUp(f, positions', exactly)
  <2>1. accrued \in Books  BY <1>3, MarketIsBooks
  <2>2. new.sizeInUsd \in Nat /\ new.sizeInTokens \in Nat  BY <1>8 DEF Position
  <2>3. f = Follow(accrued, key, positions[key], new, new.sizeInUsd, new.sizeInTokens)
    BY <1>1
  <2>4. Covers(accrued, key, new, new.sizeInUsd, exactly, exactly)
    <3> DEFINE now == ApplyFactor(new.sizeInUsd, new.borrowingFactor)
    <3>1. now \in Nat
      <4>1. new.borrowingFactor \in Nat  BY <1>8 DEF Position
      <4> QED BY <2>2, <4>1, ApplyFactorFacts
    <3>2. now = ApplyFactor(new.sizeInUsd, accrued.cumulativeBorrowingFactor[key.isLong])
      BY <1>8
    <3> HIDE DEF now
    <3> QED BY <2>2, <3>1, <3>2 DEF Covers, now
  <2>5. exactly \in BOOLEAN  OBVIOUS
  <2>6. f \in Books  BY <1>2, <1>3, <1>8, <2>1, <2>2, FollowFacts
  <2> HIDE DEF f, exactly, key
  <2> QED BY <1>2, <1>3, <1>5, <1>8, <1>9, <2>1, <2>2, <2>3, <2>4, <2>5, <2>6, FollowAddsUp
<1>11. /\ next.market \in Books /\ next.history \in History /\ SameFlags(history, next.history)
       /\ f.openInterest = next.market.openInterest
       /\ f.openInterestInTokens = next.market.openInterestInTokens
       /\ f.collateralSum = next.market.collateralSum
       /\ f.totalBorrowing = next.market.totalBorrowing
       /\ next.market.cumulativeBorrowingFactor = accrued.cumulativeBorrowingFactor
       /\ SameClaims(accrued, next.market)
       /\ FundingAddsUp(accrued) => FundingAddsUp(next.market)
       /\ \A t \in Tokens : next.market.balance[t]
            = accrued.balance[t] + (IF t = order.key.collateralToken THEN order.amount ELSE 0)
       /\ \A t \in Tokens : Owed(next.market, next.history, t) = Owed(accrued, history, t)
            + (IF t = order.key.collateralToken THEN order.amount ELSE 0)
  <2>1. f = Follow(accrued, order.key, old, new, new.sizeInUsd, new.sizeInTokens)  OBVIOUS
  <2> HIDE DEF f
  <2>2. Increased(accrued, f, next, order)
    BY <1>1, <1>2, <1>3, <1>7, <1>8, <2>1, IncreasedBooksFacts
  <2> QED BY <2>2 DEF Increased
<1> HIDE DEF f, exactly
<1>12. market' = next.market /\ market' \in Market /\ history' = next.history /\ history' \in History
  BY <1>1, <1>11, BooksAreMarket
<1>13. \A t \in Tokens : market'.balance[t] = Owed(market', history', t)
  <2> SUFFICES ASSUME NEW t \in Tokens
               PROVE next.market.balance[t] = Owed(next.market, next.history, t)
    BY <1>12
  <2>1. accrued.balance[t] = Owed(accrued, history, t)  BY <1>4 DEF Inv, TokensAddUp
  <2> QED BY <1>11, <2>1
<1>14. AddUp(market', positions', ~history'.restDropped)
  <2>1. AddUp(next.market, positions', exactly)  BY <1>10, <1>11, SameAddUp
  <2>2. history'.restDropped = history.restDropped  BY <1>11, <1>12 DEF SameFlags
  <2> QED BY <1>12, <2>1, <2>2 DEF exactly
<1>15. FundingAddsUp(market') /\ CollateralAddsUp(market')
  BY <1>5, <1>11, <1>12, SameClaimsAddUp
<1>16. ~history'.paidDespiteDebt
  BY <1>11, <1>12 DEF SameFlags, Inv, CostsComeFirst
<1>17. Sized'
  BY <1>1, <1>9 DEF Inv, Sized, Moved
<1>18. Accrued'
  <2> SUFFICES ASSUME NEW k \in PositionKeys
               PROVE positions'[k].borrowingFactor <= accrued.cumulativeBorrowingFactor[k.isLong]
    BY <1>11, <1>12 DEF Accrued
  <2>1. CASE k = key  BY <1>6, <1>8, <1>9, <2>1 DEF Moved
  <2>2. CASE k # key  BY <1>6, <1>9, <2>2 DEF Moved
  <2> QED BY <2>1, <2>2
<1>19. /\ positions' \in [PositionKeys -> Position]
       /\ factorForTime' \in 0..Precision /\ factorForAccount' \in [Holders -> 0..Precision]
       /\ steps' \in 0..MaxSteps
  <2>1. MaxSteps \in Nat  BY PositionsAssumption
  <2> QED BY <1>1, <1>9, <2>1 DEF Inv, TypeOK, Moved
<1> QED BY <1>12, <1>13, <1>14, <1>15, <1>16, <1>17, <1>18, <1>19, InvAfter
-----------------------------------------------------------------------------
(* Claims.                                                                   *)

\* What is paid for a claim is no longer owed.
Claimed(n, token, amount) ==
  /\ n \in Books
  /\ n.openInterest = market.openInterest
  /\ n.openInterestInTokens = market.openInterestInTokens
  /\ n.collateralSum = market.collateralSum /\ n.totalBorrowing = market.totalBorrowing
  /\ n.cumulativeBorrowingFactor = market.cumulativeBorrowingFactor
  /\ FundingAddsUp(n) /\ CollateralAddsUp(n)
  /\ \A t \in Tokens : n.balance[t] = market.balance[t] - (IF t = token THEN amount ELSE 0)
  /\ \A t \in Tokens : Owed(n, history, t)
                         = Owed(market, history, t) - (IF t = token THEN amount ELSE 0)

\* A claim that pays what the books no longer owe keeps the invariant.
LEMMA ClaimStep ==
  ASSUME Inv, NEW n, NEW token, NEW amount, Claimed(n, token, amount), Claim(amount, n)
  PROVE  Inv'
<1>1. /\ NonNegative(n) /\ market' = n /\ steps < MaxSteps /\ steps' = steps + 1
      /\ UNCHANGED <<positions, factorForTime, factorForAccount, history>>
  BY DEF Claim
<1>2. /\ positions \in [PositionKeys -> Position] /\ factorForTime \in 0..Precision
      /\ factorForAccount \in [Holders -> 0..Precision] /\ history \in History
      /\ steps \in 0..MaxSteps /\ MaxSteps \in Nat
  BY PositionsAssumption DEF Inv, TypeOK
<1>3. n \in Market  BY <1>1, BooksAreMarket DEF Claimed
<1>4. \A t \in Tokens : n.balance[t] = Owed(n, history, t)
  BY DEF Claimed, Inv, TokensAddUp
<1>5. AddUp(n, positions, ~history.restDropped)
  <2>1. AddUp(market, positions, ~history.restDropped)  BY AddUpIsPositionsAddUp DEF Inv
  <2> QED BY <2>1, SameAddUp DEF Claimed
<1>6. Sized'  BY <1>1 DEF Inv, Sized
<1>7. Accrued'  BY <1>1 DEF Inv, Accrued, Claimed
<1>8. steps' \in 0..MaxSteps  BY <1>1, <1>2
<1>9. ~history.paidDespiteDebt /\ FundingAddsUp(n) /\ CollateralAddsUp(n)
  BY DEF Inv, CostsComeFirst, Claimed
<1>10. AddUp(market', positions', ~history'.restDropped)  BY <1>1, <1>5
<1>11. \A t \in Tokens : market'.balance[t] = Owed(market', history', t)  BY <1>1, <1>4
<1> QED BY <1>1, <1>2, <1>3, <1>6, <1>7, <1>8, <1>9, <1>10, <1>11, InvAfter

\* The books before a claim.
LEMMA ClaimableFacts ==
  ASSUME Inv
  PROVE  /\ market \in Market /\ market \in Books /\ history \in History
         /\ FundingAddsUp(market) /\ CollateralAddsUp(market)
         /\ \A t \in Tokens : TypesOf(market, history, t)
BY MarketIsBooks, ClaimsAddUpParts, OwedTypes DEF Inv, TypeOK

\* FeeUtils.claimFees keeps the invariant.
LEMMA ClaimFeesStep ==
  ASSUME Inv, NEW token \in Tokens, ClaimFees(token)
  PROVE  Inv'
<1> DEFINE amount == market.claimableFee[token]
           balance == [market.balance EXCEPT ![token] = @ - amount]
           fee == [market.claimableFee EXCEPT ![token] = 0]
           n == [market EXCEPT !.balance = balance, !.claimableFee = fee]
<1>1. market \in Books /\ FundingAddsUp(market) /\ CollateralAddsUp(market)
      /\ \A t \in Tokens : TypesOf(market, history, t)
  BY ClaimableFacts
<1>2. Claim(amount, n)
  <2>1. n = [PayOut(market, token, amount) EXCEPT !.claimableFee[token] = 0]
    BY <1>1 DEF PayOut, Books
  <2> QED BY <2>1 DEF ClaimFees
<1>3. /\ balance \in [Tokens -> Int] /\ fee \in Amounts
      /\ \A t \in Tokens : balance[t] = market.balance[t] - (IF t = token THEN amount ELSE 0)
      /\ \A t \in Tokens : fee[t] = market.claimableFee[t] - (IF t = token THEN amount ELSE 0)
  BY <1>1 DEF Books, Amounts
<1> HIDE DEF balance, fee, amount
<1>4. /\ n \in Books /\ n.balance = balance /\ n.claimableFee = fee
      /\ n.poolAmount = market.poolAmount
      /\ n.claimableUiFee = market.claimableUiFee /\ n.affiliateReward = market.affiliateReward
      /\ n.openInterest = market.openInterest
      /\ n.openInterestInTokens = market.openInterestInTokens
      /\ n.collateralSum = market.collateralSum /\ n.totalBorrowing = market.totalBorrowing
      /\ n.cumulativeBorrowingFactor = market.cumulativeBorrowingFactor
      /\ n.claimableFunding = market.claimableFunding /\ n.fundingOf = market.fundingOf
      /\ SameClaims(market, n)
  BY <1>1, <1>3 DEF Books, SameClaims
<1> HIDE DEF n
<1>5. ASSUME NEW t \in Tokens
      PROVE  Owed(n, history, t) = Owed(market, history, t) - (IF t = token THEN amount ELSE 0)
  <2>1. TypesOf(market, history, t)  BY <1>1
  <2>2. n.claimableFee[t] = market.claimableFee[t] - (IF t = token THEN amount ELSE 0)
    BY <1>3, <1>4
  <2>3. /\ n.claimableUiFee[t] = market.claimableUiFee[t]
        /\ n.affiliateReward[t] = market.affiliateReward[t]
        /\ n.claimableCollateral[t] = market.claimableCollateral[t]
        /\ n.claimableFunding[t] = market.claimableFunding[t]
        /\ n.poolAmount[t] = market.poolAmount[t] /\ n.collateralSum = market.collateralSum
    BY <1>4 DEF SameClaims
  <2>4. amount \in Nat  BY <1>1 DEF TypesOf, amount
  <2>5. CASE t = token  BY <2>1, <2>2, <2>3, <2>4, <2>5 DEF Owed, TypesOf
  <2>6. CASE t # token  BY <2>1, <2>2, <2>3, <2>6 DEF Owed, TypesOf
  <2> QED BY <2>5, <2>6
<1>6. FundingAddsUp(n) /\ CollateralAddsUp(n)
  BY <1>1, <1>4, SameClaimsAddUp DEF FundingAddsUp
<1>7. Claimed(n, token, amount)
  BY <1>3, <1>4, <1>5, <1>6 DEF Claimed
<1> QED BY <1>2, <1>7, ClaimStep

\* FeeUtils.claimUiFees keeps the invariant.
LEMMA ClaimUiFeesStep ==
  ASSUME Inv, NEW token \in Tokens, ClaimUiFees(token)
  PROVE  Inv'
<1> DEFINE amount == market.claimableUiFee[token]
           balance == [market.balance EXCEPT ![token] = @ - amount]
           fee == [market.claimableUiFee EXCEPT ![token] = 0]
           n == [market EXCEPT !.balance = balance, !.claimableUiFee = fee]
<1>1. market \in Books /\ FundingAddsUp(market) /\ CollateralAddsUp(market)
      /\ \A t \in Tokens : TypesOf(market, history, t)
  BY ClaimableFacts
<1>2. Claim(amount, n)
  <2>1. n = [PayOut(market, token, amount) EXCEPT !.claimableUiFee[token] = 0]
    BY <1>1 DEF PayOut, Books
  <2> QED BY <2>1 DEF ClaimUiFees
<1>3. /\ balance \in [Tokens -> Int] /\ fee \in Amounts
      /\ \A t \in Tokens : balance[t] = market.balance[t] - (IF t = token THEN amount ELSE 0)
      /\ \A t \in Tokens : fee[t] = market.claimableUiFee[t] - (IF t = token THEN amount ELSE 0)
  BY <1>1 DEF Books, Amounts
<1> HIDE DEF balance, fee, amount
<1>4. /\ n \in Books /\ n.balance = balance /\ n.claimableUiFee = fee
      /\ n.poolAmount = market.poolAmount
      /\ n.claimableFee = market.claimableFee /\ n.affiliateReward = market.affiliateReward
      /\ n.openInterest = market.openInterest
      /\ n.openInterestInTokens = market.openInterestInTokens
      /\ n.collateralSum = market.collateralSum /\ n.totalBorrowing = market.totalBorrowing
      /\ n.cumulativeBorrowingFactor = market.cumulativeBorrowingFactor
      /\ n.claimableFunding = market.claimableFunding /\ n.fundingOf = market.fundingOf
      /\ SameClaims(market, n)
  BY <1>1, <1>3 DEF Books, SameClaims
<1> HIDE DEF n
<1>5. ASSUME NEW t \in Tokens
      PROVE  Owed(n, history, t) = Owed(market, history, t) - (IF t = token THEN amount ELSE 0)
  <2>1. TypesOf(market, history, t)  BY <1>1
  <2>2. n.claimableUiFee[t] = market.claimableUiFee[t] - (IF t = token THEN amount ELSE 0)
    BY <1>3, <1>4
  <2>3. /\ n.claimableFee[t] = market.claimableFee[t]
        /\ n.affiliateReward[t] = market.affiliateReward[t]
        /\ n.claimableCollateral[t] = market.claimableCollateral[t]
        /\ n.claimableFunding[t] = market.claimableFunding[t]
        /\ n.poolAmount[t] = market.poolAmount[t] /\ n.collateralSum = market.collateralSum
    BY <1>4 DEF SameClaims
  <2>4. amount \in Nat  BY <1>1 DEF TypesOf, amount
  <2>5. CASE t = token  BY <2>1, <2>2, <2>3, <2>4, <2>5 DEF Owed, TypesOf
  <2>6. CASE t # token  BY <2>1, <2>2, <2>3, <2>6 DEF Owed, TypesOf
  <2> QED BY <2>5, <2>6
<1>6. FundingAddsUp(n) /\ CollateralAddsUp(n)
  BY <1>1, <1>4, SameClaimsAddUp DEF FundingAddsUp
<1>7. Claimed(n, token, amount)
  BY <1>3, <1>4, <1>5, <1>6 DEF Claimed
<1> QED BY <1>2, <1>7, ClaimStep

\* ReferralUtils.claimAffiliateReward keeps the invariant.
LEMMA ClaimAffiliateRewardStep ==
  ASSUME Inv, NEW token \in Tokens, ClaimAffiliateReward(token)
  PROVE  Inv'
<1> DEFINE amount == market.affiliateReward[token]
           balance == [market.balance EXCEPT ![token] = @ - amount]
           fee == [market.affiliateReward EXCEPT ![token] = 0]
           n == [market EXCEPT !.balance = balance, !.affiliateReward = fee]
<1>1. market \in Books /\ FundingAddsUp(market) /\ CollateralAddsUp(market)
      /\ \A t \in Tokens : TypesOf(market, history, t)
  BY ClaimableFacts
<1>2. Claim(amount, n)
  <2>1. n = [PayOut(market, token, amount) EXCEPT !.affiliateReward[token] = 0]
    BY <1>1 DEF PayOut, Books
  <2> QED BY <2>1 DEF ClaimAffiliateReward
<1>3. /\ balance \in [Tokens -> Int] /\ fee \in Amounts
      /\ \A t \in Tokens : balance[t] = market.balance[t] - (IF t = token THEN amount ELSE 0)
      /\ \A t \in Tokens : fee[t] = market.affiliateReward[t] - (IF t = token THEN amount ELSE 0)
  BY <1>1 DEF Books, Amounts
<1> HIDE DEF balance, fee, amount
<1>4. /\ n \in Books /\ n.balance = balance /\ n.affiliateReward = fee
      /\ n.poolAmount = market.poolAmount
      /\ n.claimableUiFee = market.claimableUiFee /\ n.claimableFee = market.claimableFee
      /\ n.openInterest = market.openInterest
      /\ n.openInterestInTokens = market.openInterestInTokens
      /\ n.collateralSum = market.collateralSum /\ n.totalBorrowing = market.totalBorrowing
      /\ n.cumulativeBorrowingFactor = market.cumulativeBorrowingFactor
      /\ n.claimableFunding = market.claimableFunding /\ n.fundingOf = market.fundingOf
      /\ SameClaims(market, n)
  BY <1>1, <1>3 DEF Books, SameClaims
<1> HIDE DEF n
<1>5. ASSUME NEW t \in Tokens
      PROVE  Owed(n, history, t) = Owed(market, history, t) - (IF t = token THEN amount ELSE 0)
  <2>1. TypesOf(market, history, t)  BY <1>1
  <2>2. n.affiliateReward[t] = market.affiliateReward[t] - (IF t = token THEN amount ELSE 0)
    BY <1>3, <1>4
  <2>3. /\ n.claimableUiFee[t] = market.claimableUiFee[t]
        /\ n.claimableFee[t] = market.claimableFee[t]
        /\ n.claimableCollateral[t] = market.claimableCollateral[t]
        /\ n.claimableFunding[t] = market.claimableFunding[t]
        /\ n.poolAmount[t] = market.poolAmount[t] /\ n.collateralSum = market.collateralSum
    BY <1>4 DEF SameClaims
  <2>4. amount \in Nat  BY <1>1 DEF TypesOf, amount
  <2>5. CASE t = token  BY <2>1, <2>2, <2>3, <2>4, <2>5 DEF Owed, TypesOf
  <2>6. CASE t # token  BY <2>1, <2>2, <2>3, <2>6 DEF Owed, TypesOf
  <2> QED BY <2>5, <2>6
<1>6. FundingAddsUp(n) /\ CollateralAddsUp(n)
  BY <1>1, <1>4, SameClaimsAddUp DEF FundingAddsUp
<1>7. Claimed(n, token, amount)
  BY <1>3, <1>4, <1>5, <1>6 DEF Claimed
<1> QED BY <1>2, <1>7, ClaimStep

\* MarketUtils.claimFundingFees keeps the invariant.
LEMMA ClaimFundingFeesStep ==
  ASSUME Inv, NEW account \in Accounts, NEW token \in Tokens, ClaimFundingFees(account, token)
  PROVE  Inv'
<1> DEFINE amount == market.fundingOf[token][account]
           balance == [market.balance EXCEPT ![token] = @ - amount]
           of == [market.fundingOf EXCEPT ![token][account] = 0]
           total == [market.claimableFunding EXCEPT ![token] = @ - amount]
           n == [market EXCEPT !.balance = balance, !.fundingOf = of, !.claimableFunding = total]
<1>1. market \in Books /\ FundingAddsUp(market) /\ CollateralAddsUp(market)
      /\ \A t \in Tokens : TypesOf(market, history, t)
  BY ClaimableFacts
<1>2. account \in Holders /\ IsFiniteSet(Accounts) /\ Accounts \subseteq Holders
  BY HoldersFacts
<1>3. Claim(amount, n)
  <2>1. n = [PayOut(market, token, amount) EXCEPT
               !.fundingOf[token][account] = 0, !.claimableFunding[token] = @ - amount]
    BY <1>1, <1>2 DEF PayOut, Books, AmountsOf
  <2> QED BY <2>1 DEF ClaimFundingFees
<1>4. /\ balance \in [Tokens -> Int] /\ of \in AmountsOf /\ total \in [Tokens -> Int]
      /\ \A t \in Tokens : balance[t] = market.balance[t] - (IF t = token THEN amount ELSE 0)
      /\ \A t \in Tokens : total[t] = market.claimableFunding[t] - (IF t = token THEN amount ELSE 0)
      /\ \A t \in Tokens, a \in Holders :
           of[t][a] = IF t = token /\ a = account THEN 0 ELSE market.fundingOf[t][a]
      /\ amount \in Nat
  BY <1>1, <1>2 DEF Books, Amounts, AmountsOf
<1>5. \A t \in Tokens, a \in Holders : market.fundingOf[t][a] \in Nat /\ of[t][a] \in Nat
  BY <1>1, <1>4 DEF Books, AmountsOf
<1>6. amount = market.fundingOf[token][account]  OBVIOUS
<1> HIDE DEF balance, of, total, amount
<1>7. ASSUME NEW t \in Tokens
      PROVE  total[t] = SumFunctionOnSet(of[t], Accounts) /\ total[t] \in Nat
  <2> DEFINE f == market.fundingOf[t]  g == of[t]
  <2>1. /\ \A a \in Accounts : f[a] \in Nat /\ f[a] \in Int /\ g[a] \in Nat
        /\ \A a \in Accounts \ {account} : g[a] = f[a]
        /\ f[account] \in Nat /\ g[account] \in Int
        /\ g[account] = f[account] - (IF t = token THEN amount ELSE 0)
    BY <1>2, <1>4, <1>5, <1>6
  <2>2. market.claimableFunding[t] = SumFunctionOnSet(f, Accounts)  BY <1>1 DEF FundingAddsUp
  <2>3. total[t] = market.claimableFunding[t] - (IF t = token THEN amount ELSE 0)  BY <1>4
  <2> HIDE DEF f, g
  <2>4. SumFunctionOnSet(g, Accounts) = SumFunctionOnSet(f, Accounts) - f[account] + g[account]
    BY <1>2, <2>1, SumChange
  <2>5. SumFunctionOnSet(f, Accounts) \in Nat /\ SumFunctionOnSet(g, Accounts) \in Nat
    BY <1>2, <2>1, SumBounds
  <2>6. total[t] = SumFunctionOnSet(g, Accounts)
    BY <1>4, <2>1, <2>2, <2>3, <2>4, <2>5
  <2> QED BY <2>5, <2>6 DEF g
<1>8. total \in Amounts  BY <1>4, <1>7 DEF Amounts
<1>9. /\ n \in Books /\ n.balance = balance /\ n.fundingOf = of /\ n.claimableFunding = total
      /\ n.poolAmount = market.poolAmount /\ n.claimableFee = market.claimableFee
      /\ n.claimableUiFee = market.claimableUiFee /\ n.affiliateReward = market.affiliateReward
      /\ n.openInterest = market.openInterest
      /\ n.openInterestInTokens = market.openInterestInTokens
      /\ n.collateralSum = market.collateralSum /\ n.totalBorrowing = market.totalBorrowing
      /\ n.cumulativeBorrowingFactor = market.cumulativeBorrowingFactor
      /\ SameClaims(market, n)
  BY <1>1, <1>4, <1>8 DEF Books, SameClaims
<1> HIDE DEF n
<1>10. ASSUME NEW t \in Tokens
       PROVE  Owed(n, history, t) = Owed(market, history, t) - (IF t = token THEN amount ELSE 0)
  <2>1. TypesOf(market, history, t)  BY <1>1
  <2>2. n.claimableFunding[t] = market.claimableFunding[t] - (IF t = token THEN amount ELSE 0)
    BY <1>4, <1>9
  <2>3. /\ n.claimableFee[t] = market.claimableFee[t]
        /\ n.claimableUiFee[t] = market.claimableUiFee[t]
        /\ n.affiliateReward[t] = market.affiliateReward[t]
        /\ n.claimableCollateral[t] = market.claimableCollateral[t]
        /\ n.poolAmount[t] = market.poolAmount[t] /\ n.collateralSum = market.collateralSum
    BY <1>9 DEF SameClaims
  <2>4. CASE t = token  BY <1>4, <2>1, <2>2, <2>3, <2>4 DEF Owed, TypesOf
  <2>5. CASE t # token  BY <2>1, <2>2, <2>3, <2>5 DEF Owed, TypesOf
  <2> QED BY <2>4, <2>5
<1>11. FundingAddsUp(n) /\ CollateralAddsUp(n)
  BY <1>1, <1>7, <1>9, SameClaimsAddUp DEF FundingAddsUp
<1>12. Claimed(n, token, amount)
  BY <1>4, <1>9, <1>10, <1>11 DEF Claimed
<1> QED BY <1>3, <1>12, ClaimStep

\* MarketUtils.claimCollateral keeps the invariant, whatever the factors were set to
\* between two claims.
LEMMA ClaimCollateralStep ==
  ASSUME Inv, NEW holder \in Holders, NEW token \in Tokens, ClaimCollateral(holder, token)
  PROVE  Inv'
<1> DEFINE factor == IF factorForTime > factorForAccount[holder] THEN factorForTime
                     ELSE factorForAccount[holder]
           claimable == ApplyFactor(market.collateralOf[token][holder], factor)
           amount == claimable - market.claimedOf[token][holder]
           balance == [market.balance EXCEPT ![token] = @ - amount]
           of == [market.claimedOf EXCEPT ![token][holder] = claimable]
           total == [market.claimableCollateral EXCEPT ![token] = @ - amount]
           n == [market EXCEPT !.balance = balance, !.claimedOf = of, !.claimableCollateral = total]
<1>1. market \in Books /\ FundingAddsUp(market) /\ CollateralAddsUp(market)
      /\ \A t \in Tokens : TypesOf(market, history, t)
  BY ClaimableFacts
<1>2. \A t \in Tokens, h \in Holders :
        market.collateralOf[t][h] \in Nat /\ market.claimedOf[t][h] \in Nat
  BY <1>1 DEF Books, AmountsOf
<1>3. claimable \in Nat /\ claimable <= market.collateralOf[token][holder]
  <2>1. factor \in 0..Precision  BY DEF Inv, TypeOK
  <2> HIDE DEF factor
  <2> QED BY <1>2, <2>1, PartFacts
<1> HIDE DEF claimable, factor
<1>4. Claim(amount, n)
  <2>1. n = [PayOut(market, token, amount) EXCEPT
               !.claimedOf[token][holder] = claimable, !.claimableCollateral[token] = @ - amount]
    BY <1>1 DEF PayOut, Books, AmountsOf
  <2> QED BY <2>1 DEF ClaimCollateral, claimable, factor
<1>5. /\ amount \in Int /\ amount = claimable - market.claimedOf[token][holder]
      /\ balance \in [Tokens -> Int] /\ of \in AmountsOf /\ total \in [Tokens -> Int]
      /\ \A t \in Tokens : balance[t] = market.balance[t] - (IF t = token THEN amount ELSE 0)
      /\ \A t \in Tokens : total[t] = market.claimableCollateral[t]
                                        - (IF t = token THEN amount ELSE 0)
      /\ \A t \in Tokens, h \in Holders :
           of[t][h] = IF t = token /\ h = holder THEN claimable ELSE market.claimedOf[t][h]
  <2>1. amount \in Int  BY <1>2, <1>3
  <2> QED BY <1>1, <1>2, <1>3, <2>1 DEF Books, Amounts, AmountsOf
<1> HIDE DEF balance, of, total, amount
<1>6. \A t \in Tokens, h \in Holders : of[t][h] \in Nat /\ of[t][h] <= market.collateralOf[t][h]
  BY <1>1, <1>2, <1>3, <1>5 DEF CollateralAddsUp
<1>7. ASSUME NEW t \in Tokens
      PROVE  /\ total[t] = SumFunctionOnSet([h \in Holders |-> market.collateralOf[t][h] - of[t][h]],
                                            Holders)
             /\ total[t] \in Nat
  <2> DEFINE f == Unclaimed(market, t)
             g == [h \in Holders |-> market.collateralOf[t][h] - of[t][h]]
  <2>1. /\ \A h \in Holders : f[h] \in Int /\ g[h] \in Nat /\ g[h] \in Int
        /\ \A h \in Holders \ {holder} : g[h] = f[h]
        /\ g[holder] = f[holder] - (IF t = token THEN amount ELSE 0)
    BY <1>2, <1>3, <1>5, <1>6 DEF Unclaimed
  <2>2. market.claimableCollateral[t] = SumFunctionOnSet(f, Holders)
    BY <1>1 DEF CollateralAddsUp
  <2>3. total[t] = market.claimableCollateral[t] - (IF t = token THEN amount ELSE 0)  BY <1>5
  <2> HIDE DEF f, g
  <2>4. SumFunctionOnSet(g, Holders) = SumFunctionOnSet(f, Holders) - f[holder] + g[holder]
    BY <2>1, HoldersFacts, SumChange
  <2>5. SumFunctionOnSet(f, Holders) \in Int  BY <2>1, HoldersFacts, SumUnfold
  <2>6. SumFunctionOnSet(g, Holders) \in Nat  BY <2>1, HoldersFacts, SumBounds
  <2>7. total[t] = SumFunctionOnSet(g, Holders)
    BY <1>5, <2>1, <2>2, <2>3, <2>4, <2>5
  <2> QED BY <2>6, <2>7 DEF g
<1>8. total \in Amounts  BY <1>5, <1>7 DEF Amounts
<1>9. /\ n \in Books /\ n.balance = balance /\ n.claimedOf = of /\ n.claimableCollateral = total
      /\ n.collateralOf = market.collateralOf
      /\ n.poolAmount = market.poolAmount /\ n.claimableFee = market.claimableFee
      /\ n.claimableUiFee = market.claimableUiFee /\ n.affiliateReward = market.affiliateReward
      /\ n.claimableFunding = market.claimableFunding /\ n.fundingOf = market.fundingOf
      /\ n.openInterest = market.openInterest
      /\ n.openInterestInTokens = market.openInterestInTokens
      /\ n.collateralSum = market.collateralSum /\ n.totalBorrowing = market.totalBorrowing
      /\ n.cumulativeBorrowingFactor = market.cumulativeBorrowingFactor
  BY <1>1, <1>5, <1>8 DEF Books
<1> HIDE DEF n
<1>10. ASSUME NEW t \in Tokens
       PROVE  Owed(n, history, t) = Owed(market, history, t) - (IF t = token THEN amount ELSE 0)
  <2>1. TypesOf(market, history, t)  BY <1>1
  <2>2. n.claimableCollateral[t] = market.claimableCollateral[t] - (IF t = token THEN amount ELSE 0)
    BY <1>5, <1>9
  <2>3. /\ n.claimableFee[t] = market.claimableFee[t]
        /\ n.claimableUiFee[t] = market.claimableUiFee[t]
        /\ n.affiliateReward[t] = market.affiliateReward[t]
        /\ n.claimableFunding[t] = market.claimableFunding[t]
        /\ n.poolAmount[t] = market.poolAmount[t] /\ n.collateralSum = market.collateralSum
    BY <1>9
  <2>4. CASE t = token
    <3>1. n.claimableCollateral[t] = market.claimableCollateral[t] - amount /\ amount \in Int
      BY <1>5, <2>2, <2>4
    <3> QED BY <2>1, <2>3, <2>4, <3>1 DEF Owed, TypesOf
  <2>5. CASE t # token  BY <2>1, <2>2, <2>3, <2>5 DEF Owed, TypesOf
  <2> QED BY <2>4, <2>5
<1>11. FundingAddsUp(n)  BY <1>1, <1>9 DEF FundingAddsUp
<1>12. CollateralAddsUp(n)
  <2> SUFFICES ASSUME NEW t \in Tokens
               PROVE  /\ total[t] = SumFunctionOnSet(Unclaimed(n, t), Holders)
                      /\ \A h \in Holders : of[t][h] <= market.collateralOf[t][h]
    BY <1>9 DEF CollateralAddsUp
  <2>1. Unclaimed(n, t) = [h \in Holders |-> market.collateralOf[t][h] - of[t][h]]
    BY <1>9 DEF Unclaimed
  <2> QED BY <1>6, <1>7, <2>1
<1>13. Claimed(n, token, amount)
  BY <1>5, <1>9, <1>10, <1>11, <1>12 DEF Claimed
<1> QED BY <1>4, <1>13, ClaimStep
-----------------------------------------------------------------------------
(* The invariant.                                                            *)

\* An empty market.
LEMMA InitFacts ==
  Init => Inv
<1> SUFFICES ASSUME Init PROVE Inv  OBVIOUS
<1> DEFINE none == 0
           nothing == [t \in Tokens |-> none]
           nobodys == [t \in Tokens |-> [holder \in Holders |-> none]]
           noSides == [side \in Sides |-> none]
           noFactor == [isLong \in BOOLEAN |-> none]
<1>1. /\ market = [balance |-> InitialPool, poolAmount |-> InitialPool,
                   claimableFee |-> nothing, claimableUiFee |-> nothing,
                   affiliateReward |-> nothing, claimableCollateral |-> nothing,
                   claimableFunding |-> nothing,
                   collateralOf |-> nobodys, claimedOf |-> nobodys, fundingOf |-> nobodys,
                   positionImpactPool |-> InitialImpactPool,
                   openInterest |-> noSides, openInterestInTokens |-> noSides,
                   collateralSum |-> noSides, cumulativeBorrowingFactor |-> noFactor,
                   totalBorrowing |-> noFactor]
      /\ positions = [key \in PositionKeys |-> NoPosition]
      /\ factorForTime = none /\ factorForAccount = [holder \in Holders |-> none]
      /\ history = [funding |-> nothing, forgiven |-> nothing, dropped |-> nothing,
                    roundedLosses |-> 0, insolvent |-> FALSE, restDropped |-> FALSE, paidDespiteDebt |-> FALSE]
      /\ steps = none
  BY DEF Init, Zero, ZeroHolders
<1>2. none = 0 /\ none \in Nat  OBVIOUS
<1>3. /\ InitialPool \in [Tokens -> Nat] /\ InitialImpactPool \in Nat /\ MaxSteps \in Nat
      /\ Precision \in Nat
  BY PositionsAssumption, ConstantFacts
<1> HIDE DEF none
<1>4. /\ nothing \in Amounts /\ nothing \in [Tokens -> Int] /\ nobodys \in AmountsOf
      /\ noSides \in [Sides -> Nat] /\ noFactor \in [BOOLEAN -> Nat]
      /\ InitialPool \in Amounts
  BY <1>2, <1>3 DEF Amounts, AmountsOf
<1>5. /\ \A t \in Tokens : nothing[t] = 0
      /\ \A t \in Tokens, h \in Holders : nobodys[t][h] = 0
      /\ \A side \in Sides : noSides[side] = 0
      /\ \A isLong \in BOOLEAN : noFactor[isLong] = 0
  BY <1>2
<1> HIDE DEF nothing, nobodys, noSides, noFactor
<1>6. market \in Market
  BY <1>1, <1>3, <1>4 DEF Market
<1>7. history \in History
  BY <1>1, <1>4 DEF History
<1>8. positions \in [PositionKeys -> Position]
  BY <1>1, NoPositionFacts
<1>9. TypeOK
  <2>1. /\ factorForTime \in 0..Precision /\ factorForAccount \in [Holders -> 0..Precision]
        /\ steps \in 0..MaxSteps
    BY <1>1, <1>2, <1>3
  <2> QED BY <1>6, <1>7, <1>8, <2>1 DEF TypeOK
<1>10. /\ market.balance = InitialPool /\ market.poolAmount = InitialPool
       /\ market.claimableFee = nothing /\ market.claimableUiFee = nothing
       /\ market.affiliateReward = nothing /\ market.claimableCollateral = nothing
       /\ market.claimableFunding = nothing
       /\ market.collateralOf = nobodys /\ market.claimedOf = nobodys
       /\ market.fundingOf = nobodys
       /\ market.openInterest = noSides /\ market.openInterestInTokens = noSides
       /\ market.collateralSum = noSides /\ market.totalBorrowing = noFactor
       /\ market.cumulativeBorrowingFactor = noFactor
       /\ history.funding = nothing /\ history.forgiven = nothing /\ history.dropped = nothing
       /\ history.restDropped = FALSE /\ history.paidDespiteDebt = FALSE
  BY <1>1
<1>11. TokensAddUp
  <2> SUFFICES ASSUME NEW t \in Tokens PROVE market.balance[t] = Owed(market, history, t)
    BY DEF TokensAddUp
  <2>1. noSides[<<t, TRUE>>] = 0 /\ noSides[<<t, FALSE>>] = 0  BY <1>5 DEF Sides
  <2>2. nothing[t] = 0 /\ InitialPool[t] \in Nat  BY <1>3, <1>5
  <2> QED BY <1>10, <2>1, <2>2 DEF Owed
<1>12. PositionsAddUp
  <2>1. \A key \in PositionKeys : positions[key] = NoPosition  BY <1>1
  <2>2. \A key \in PositionKeys :
          ApplyFactor(positions[key].sizeInUsd, positions[key].borrowingFactor) = 0
    <3>1. 0 \div Precision = 0  BY ConstantFacts
    <3>2. ApplyFactor(0, 0) = 0  BY <3>1 DEF ApplyFactor
    <3> QED BY <2>1, <3>2, NoPositionFacts
  <2>3. ASSUME NEW side \in Sides
        PROVE /\ SizesOf(positions, side) = 0 /\ TokensOf(positions, side) = 0
              /\ CollateralOf(positions, side) = 0
    <3> DEFINE S == KeysOf(side)
               f == [key \in PositionKeys |-> positions[key].sizeInUsd]
               g == [key \in PositionKeys |-> positions[key].sizeInTokens]
               h == [key \in PositionKeys |-> positions[key].collateralAmount]
    <3>1. S \in SUBSET PositionKeys /\ IsFiniteSet(S)  BY KeysFacts
    <3>2. \A key \in S : f[key] = 0 /\ g[key] = 0 /\ h[key] = 0
      BY <2>1, <3>1, NoPositionFacts
    <3>3. /\ SizesOf(positions, side) = SumFunctionOnSet(f, S)
          /\ TokensOf(positions, side) = SumFunctionOnSet(g, S)
          /\ CollateralOf(positions, side) = SumFunctionOnSet(h, S)
      BY DEF SizesOf, TokensOf, CollateralOf
    <3> HIDE DEF S, f, g, h
    <3> QED BY <3>1, <3>2, <3>3, SumZero
  <2>4. ASSUME NEW isLong \in BOOLEAN PROVE BorrowingOf(positions, isLong) = 0
    <3> DEFINE S == KeysOn(isLong)
               f == [key \in PositionKeys |-> ApplyFactor(positions[key].sizeInUsd,
                                                          positions[key].borrowingFactor)]
    <3>1. S \in SUBSET PositionKeys /\ IsFiniteSet(S)  BY KeysFacts
    <3>2. \A key \in S : f[key] = 0  BY <2>2, <3>1
    <3>3. BorrowingOf(positions, isLong) = SumFunctionOnSet(f, S)  BY DEF BorrowingOf
    <3> HIDE DEF S, f
    <3> QED BY <3>1, <3>2, <3>3, SumZero
  <2>5. AddUp(market, positions, ~history.restDropped)
    BY <1>5, <1>10, <2>3, <2>4 DEF AddUp
  <2> QED BY <2>5, AddUpIsPositionsAddUp
<1>13. ClaimsAddUp
  <2>1. FundingAddsUp(market)
    <3> SUFFICES ASSUME NEW t \in Tokens PROVE 0 = SumFunctionOnSet(nobodys[t], Accounts)
      BY <1>5, <1>10 DEF FundingAddsUp
    <3>1. \A a \in Accounts : nobodys[t][a] = 0  BY <1>5, HoldersFacts
    <3> QED BY <3>1, HoldersFacts, SumZero
  <2>2. CollateralAddsUp(market)
    <3> SUFFICES ASSUME NEW t \in Tokens PROVE 0 = SumFunctionOnSet(Unclaimed(market, t), Holders)
      BY <1>5, <1>10 DEF CollateralAddsUp
    <3>1. \A a \in Holders : Unclaimed(market, t)[a] = 0  BY <1>5, <1>10 DEF Unclaimed
    <3> QED BY <3>1, HoldersFacts, SumZero
  <2> QED BY <2>1, <2>2, ClaimsAddUpParts
<1>14. CostsComeFirst  BY <1>10 DEF CostsComeFirst
<1>15. Sized  BY <1>1 DEF Sized
<1>16. Accrued
  <2> SUFFICES ASSUME NEW key \in PositionKeys
               PROVE positions[key].borrowingFactor <= noFactor[key.isLong]
    BY <1>10 DEF Accrued
  <2> QED BY <1>1, <1>5, NoPositionFacts, KeyFacts
<1> QED BY <1>9, <1>11, <1>12, <1>13, <1>14, <1>15, <1>16 DEF Inv

\* Setting a claim factor keeps the invariant.
LEMMA SetFactorStep ==
  ASSUME Inv, SetFactor
  PROVE  Inv'
<1>1. UNCHANGED <<market, positions, history, steps>>
  BY DEF SetFactor, SetClaimableCollateralFactorForTime, SetClaimableCollateralFactorForAccount
<1>2. factorForTime' \in 0..Precision /\ factorForAccount' \in [Holders -> 0..Precision]
  <2>1. factorForTime \in 0..Precision /\ factorForAccount \in [Holders -> 0..Precision]
    BY DEF Inv, TypeOK
  <2>2. \A factor \in ClaimableFactors : factor \in 0..Precision  BY PositionsAssumption
  <2> QED
    BY <2>1, <2>2
       DEF SetFactor, SetClaimableCollateralFactorForTime, SetClaimableCollateralFactorForAccount
<1>3. /\ AddUp(market, positions, ~history.restDropped)
      /\ FundingAddsUp(market) /\ CollateralAddsUp(market)
  BY AddUpIsPositionsAddUp, ClaimsAddUpParts DEF Inv
<1>4. Sized' /\ Accrued'  BY <1>1 DEF Inv, Sized, Accrued
<1>5. /\ AddUp(market', positions', ~history'.restDropped)
      /\ FundingAddsUp(market') /\ CollateralAddsUp(market')
  BY <1>1, <1>3
<1>6. \A t \in Tokens : market'.balance[t] = Owed(market', history', t)
  BY <1>1 DEF Inv, TokensAddUp
<1> QED BY <1>1, <1>2, <1>4, <1>5, <1>6, InvAfter DEF Inv, TypeOK, CostsComeFirst

\* So does a step that changes nothing.
LEMMA StutteringStep ==
  ASSUME Inv, UNCHANGED vars
  PROVE  Inv'
BY DEF vars, Inv, TypeOK, TokensAddUp, PositionsAddUp, ClaimsAddUp, CostsComeFirst, Sized, Accrued,
       SumOfSizes, SumOfTokens, SumOfCollateral, SumOfBorrowing

\* What a liquidation asks for, and an ADL order, of whatever size.
LEMMA LiquidationOrderFacts ==
  ASSUME Inv, NEW key \in PositionKeys
  PROVE  /\ Asks(LiquidationOrder(key)) /\ LiquidationOrder(key).ui \in BOOLEAN
         /\ \A size \in Nat : /\ Asks([LiquidationOrder(key) EXCEPT !.sizeDeltaUsd = size])
                              /\ [LiquidationOrder(key) EXCEPT !.sizeDeltaUsd = size].ui \in BOOLEAN
<1>1. positions[key] \in Position  BY DEF Inv, TypeOK
<1>2. positions[key].sizeInUsd \in Nat  BY <1>1 DEF Position
<1> QED BY <1>2 DEF LiquidationOrder, Asks

\* Every trade keeps the invariant.
LEMMA TradeStep ==
  ASSUME Inv, Trade
  PROVE  Inv'
<1>1. PICK e \in Environments :
        \/ \E order \in IncreaseOrders : IncreasePosition(order, e)
        \/ \E order \in DecreaseOrders : DecreasePosition(order, e)
        \/ \E key \in PositionKeys :
             LiquidatePosition(key, e) \/ \E size \in AdlSizes : DeleveragePosition(key, size, e)
  BY DEF Trade
<1>2. e \in Environment  BY PositionsAssumption
<1>3. ASSUME NEW order \in IncreaseOrders, IncreasePosition(order, e)  PROVE Inv'
  BY <1>2, <1>3, IncreaseStep
<1>4. ASSUME NEW order \in DecreaseOrders, DecreasePosition(order, e)  PROVE Inv'
  <2>1. Asks(order) /\ order.ui \in BOOLEAN  BY PositionsAssumption DEF Asks
  <2>2. Decrease(order, FALSE, e)  BY <1>4 DEF DecreasePosition
  <2> QED BY <1>2, <2>1, <2>2, DecreaseStep
<1>5. \A key \in PositionKeys :
        /\ Asks(LiquidationOrder(key)) /\ LiquidationOrder(key).ui \in BOOLEAN
        /\ \A size \in Nat : /\ Asks([LiquidationOrder(key) EXCEPT !.sizeDeltaUsd = size])
                             /\ [LiquidationOrder(key) EXCEPT !.sizeDeltaUsd = size].ui \in BOOLEAN
  BY LiquidationOrderFacts
<1>6. ASSUME NEW key \in PositionKeys, LiquidatePosition(key, e)  PROVE Inv'
  <2>1. Decrease(LiquidationOrder(key), TRUE, e)  BY <1>6 DEF LiquidatePosition
  <2> QED BY <1>2, <1>5, <2>1, DecreaseStep
<1>7. ASSUME NEW key \in PositionKeys, NEW size \in AdlSizes, DeleveragePosition(key, size, e)
      PROVE  Inv'
  <2> DEFINE order == [LiquidationOrder(key) EXCEPT !.sizeDeltaUsd = size]
  <2>1. Decrease(order, TRUE, e)  BY <1>7 DEF DeleveragePosition
  <2>2. size \in Nat  BY PositionsAssumption
  <2>3. Asks(order) /\ order.ui \in BOOLEAN  BY <1>5, <2>2
  <2> HIDE DEF order
  <2> QED BY <1>2, <2>1, <2>3, DecreaseStep
<1> QED BY <1>1, <1>3, <1>4, <1>6, <1>7

\* Every claim keeps the invariant.
LEMMA ClaimsStep ==
  ASSUME Inv, MakeClaim
  PROVE  Inv'
BY ClaimFundingFeesStep, ClaimCollateralStep, ClaimFeesStep, ClaimUiFeesStep,
   ClaimAffiliateRewardStep DEF MakeClaim

\* The invariant holds in every state: it is what the source's totals, claims and
\* balances keep to under every trade, liquidation, claim and change of a factor.
THEOREM Invariance == Spec => []Inv
<1>1. Init => Inv  BY InitFacts
<1>2. Inv /\ [Next]_vars => Inv'
  BY TradeStep, ClaimsStep, SetFactorStep, StutteringStep DEF Next
<1> QED BY <1>1, <1>2, PTL DEF Spec

\* Every unsigned amount the market stores stays one: a claim takes no more than its
\* total holds, and a balance is never paid below zero.
THEOREM TypeCorrect == Spec => []TypeOK
<1>1. Inv => TypeOK  BY DEF Inv
<1> QED BY <1>1, Invariance, PTL

\* The market's balance of a token is exactly what its books owe in it: no increase,
\* decrease, swap on the way or claim loses a token or pays one twice.
THEOREM TokensAlwaysAddUp == Spec => []TokensAddUp
<1>1. Inv => TokensAddUp  BY DEF Inv
<1> QED BY <1>1, Invariance, PTL

\* openInterest, openInterestInTokens, collateralSum and totalBorrowing are the sums
\* over the stored positions, up to the sizes of rests that were dropped.
THEOREM PositionsAlwaysAddUp == Spec => []PositionsAddUp
<1>1. Inv => PositionsAddUp  BY DEF Inv
<1> QED BY <1>1, Invariance, PTL

\* The market-wide claimable totals are the sums of what each account can claim.
THEOREM ClaimsAlwaysAddUp == Spec => []ClaimsAddUp
<1>1. Inv => ClaimsAddUp  BY DEF Inv
<1> QED BY <1>1, Invariance, PTL

\* processCollateral pays a trader nothing while a cost is left unpaid.
THEOREM CostsAlwaysComeFirst == Spec => []CostsComeFirst
<1>1. Inv => CostsComeFirst  BY DEF Inv
<1> QED BY <1>1, Invariance, PTL

-----------------------------------------------------------------------------
(* What the books are worth to those who have deposited.                    *)

\* What is in the pool, without the part that the impact pool stands for.
Worth(m, p) ==
  m.poolAmount[LongToken] * p.long.min + m.poolAmount[ShortToken] * p.short.min
    - m.positionImpactPool * p.index.max

\* The same, with what losses may have lost when they were rounded.
Value(x, p) == Worth(x.market, p) + RoundedUsd(x.history, p)

\* The prices of the tokens and of the index are positive, and their min is the less.
LEMMA PriceNumbers ==
  ASSUME NEW p \in Prices
  PROVE  /\ \A t \in Tokens : /\ TokenPrice(t, p).min \in Nat \ {0} /\ TokenPrice(t, p).max \in Nat \ {0}
                              /\ TokenPrice(t, p).min <= TokenPrice(t, p).max
         /\ p.index.min \in Nat \ {0} /\ p.index.max \in Nat \ {0} /\ p.index.min <= p.index.max
         /\ p.long.min \in Nat \ {0} /\ p.short.min \in Nat \ {0}
         /\ TokenPrice(LongToken, p) = p.long /\ TokenPrice(ShortToken, p) = p.short
<1>1. \A r \in PriceRange : r.min \in Nat \ {0} /\ r.max \in Nat \ {0} /\ r.min <= r.max
  BY DEF PriceRange
<1>2. p.index \in PriceRange /\ p.long \in PriceRange /\ p.short \in PriceRange
  BY DEF Prices
<1>3. TokenPrice(LongToken, p) = p.long /\ TokenPrice(ShortToken, p) = p.short
  BY ConstantFacts DEF TokenPrice
<1>4. \A t \in Tokens : TokenPrice(t, p) \in PriceRange
  BY <1>2, <1>3 DEF Tokens
<1> QED BY <1>1, <1>2, <1>3, <1>4

\* What books are worth is a number.
LEMMA WorthTypes ==
  ASSUME NEW m \in Books, NEW p \in Prices
  PROVE  /\ Worth(m, p) \in Int
         /\ m.poolAmount[LongToken] \in Int /\ m.poolAmount[ShortToken] \in Int
         /\ m.positionImpactPool \in Nat
<1>1. /\ m.poolAmount[LongToken] \in Int /\ m.poolAmount[ShortToken] \in Int
      /\ m.positionImpactPool \in Nat
  BY DEF Books, Tokens
<1>2. p.long.min \in Int /\ p.short.min \in Int /\ p.index.max \in Int
  BY PriceNumbers
<1>3. /\ m.poolAmount[LongToken] * p.long.min \in Int /\ m.poolAmount[ShortToken] * p.short.min \in Int
      /\ m.positionImpactPool * p.index.max \in Int
  BY <1>1, <1>2
<1> QED BY <1>1, <1>3 DEF Worth

\* A number of rounded losses is worth a number, and one more is worth a Dust more.
Dust(p) == Greatest(p.long.min, p.short.min) - 1

LEMMA DustFacts ==
  ASSUME NEW p \in Prices
  PROVE  /\ Dust(p) \in Nat
         /\ \A t \in Tokens : TokenPrice(t, p).min - 1 <= Dust(p)
         /\ \A h \in History : RoundedUsd(h, p) \in Nat
         /\ \A h, g \in History : g.roundedLosses = h.roundedLosses + 1
              => RoundedUsd(g, p) = RoundedUsd(h, p) + Dust(p)
         /\ \A h, g \in History : g.roundedLosses = h.roundedLosses
              => RoundedUsd(g, p) = RoundedUsd(h, p)
<1>1. p.long.min \in Nat \ {0} /\ p.short.min \in Nat \ {0}
      /\ TokenPrice(LongToken, p) = p.long /\ TokenPrice(ShortToken, p) = p.short
  BY PriceNumbers
<1>2. Dust(p) \in Nat /\ p.long.min - 1 <= Dust(p) /\ p.short.min - 1 <= Dust(p)
  BY <1>1 DEF Dust, Greatest
<1>3. \A t \in Tokens : TokenPrice(t, p).min - 1 <= Dust(p)
  BY <1>1, <1>2 DEF Tokens
<1>4. \A h \in History : h.roundedLosses \in Nat /\ RoundedUsd(h, p) = h.roundedLosses * Dust(p)
  BY DEF History, RoundedUsd, Dust
<1> HIDE DEF Dust
<1>5. \A a \in Nat : a * Dust(p) \in Nat /\ (a + 1) * Dust(p) = a * Dust(p) + Dust(p)
  BY <1>2
<1>6. \A h \in History : RoundedUsd(h, p) \in Nat  BY <1>4, <1>5
<1>7. ASSUME NEW h \in History, NEW g \in History, g.roundedLosses = h.roundedLosses + 1
      PROVE  RoundedUsd(g, p) = RoundedUsd(h, p) + Dust(p)
  <2>1. RoundedUsd(g, p) = (h.roundedLosses + 1) * Dust(p) /\ h.roundedLosses \in Nat
    BY <1>4, <1>7
  <2>2. RoundedUsd(h, p) = h.roundedLosses * Dust(p)  BY <1>4
  <2> QED BY <2>1, <2>2, <1>5
<1>8. \A h, g \in History : g.roundedLosses = h.roundedLosses => RoundedUsd(g, p) = RoundedUsd(h, p)
  BY <1>4
<1> QED BY <1>2, <1>3, <1>6, <1>7, <1>8

\* The value of what a decrease works on is a number.
LEMMA ValueTypes ==
  ASSUME NEW x \in Working, NEW p \in Prices
  PROVE  Value(x, p) \in Int /\ Worth(x.market, p) \in Int /\ RoundedUsd(x.history, p) \in Nat
<1>1. x.market \in Books /\ x.history \in History  BY DEF Working
<1>2. Worth(x.market, p) \in Int /\ RoundedUsd(x.history, p) \in Nat
  BY <1>1, WorthTypes, DustFacts
<1> QED BY <1>2 DEF Value

\* More or less of a token in the pool changes what the books are worth by its price.
LEMMA PoolIsWorth ==
  ASSUME NEW m \in Books, NEW n \in Books, NEW p \in Prices, NEW token \in Tokens, NEW amount \in Int,
         n.positionImpactPool = m.positionImpactPool,
         \A t \in Tokens : n.poolAmount[t] = m.poolAmount[t] + (IF t = token THEN amount ELSE 0)
  PROVE  Worth(n, p) = Worth(m, p) + amount * TokenPrice(token, p).min
<1> DEFINE long == p.long.min  short == p.short.min
           a == m.poolAmount[LongToken]  b == m.poolAmount[ShortToken]
           i == m.positionImpactPool * p.index.max
<1>1. long \in Int /\ short \in Int /\ a \in Int /\ b \in Int /\ p.index.max \in Int
      /\ m.positionImpactPool \in Int
  BY PriceNumbers, WorthTypes
<1>2. TokenPrice(LongToken, p).min = long /\ TokenPrice(ShortToken, p).min = short
      /\ LongToken # ShortToken
  BY PriceNumbers, ConstantFacts
<1>3. Worth(m, p) = a * long + b * short - i  BY DEF Worth
<1>4. Worth(n, p) = n.poolAmount[LongToken] * long + n.poolAmount[ShortToken] * short - i
  BY DEF Worth
<1>5. i \in Int  BY <1>1
<1> HIDE DEF i, long, short, a, b
<1>6. amount * long \in Int /\ amount * short \in Int /\ a * long \in Int /\ b * short \in Int
  BY <1>1
<1>7. CASE token = LongToken
  <2>1. n.poolAmount[LongToken] = a + amount /\ n.poolAmount[ShortToken] = b + 0
    BY <1>2, <1>7 DEF Tokens, a, b
  <2>2. (a + amount) * long = a * long + amount * long  BY <1>1
  <2> QED BY <1>1, <1>2, <1>3, <1>4, <1>5, <1>6, <1>7, <2>1, <2>2
<1>8. CASE token = ShortToken
  <2>1. n.poolAmount[LongToken] = a + 0 /\ n.poolAmount[ShortToken] = b + amount
    BY <1>2, <1>8 DEF Tokens, a, b
  <2>2. (b + amount) * short = b * short + amount * short  BY <1>1
  <2> QED BY <1>1, <1>2, <1>3, <1>4, <1>5, <1>6, <1>8, <2>1, <2>2
<1> QED BY <1>7, <1>8 DEF Tokens

\* More in the impact pool is less for the depositors, at the index's max.
LEMMA ImpactIsWorth ==
  ASSUME NEW m \in Books, NEW n \in Books, NEW p \in Prices, NEW amount \in Int,
         n.poolAmount = m.poolAmount, n.positionImpactPool = m.positionImpactPool + amount
  PROVE  Worth(n, p) = Worth(m, p) - amount * p.index.max
<1> DEFINE i == m.positionImpactPool  j == n.positionImpactPool  price == p.index.max
           long == m.poolAmount[LongToken] * p.long.min
           short == m.poolAmount[ShortToken] * p.short.min
<1>1. i \in Int /\ price \in Int  BY PriceNumbers, WorthTypes
<1>2. long \in Int /\ short \in Int
  <2>1. m.poolAmount[LongToken] \in Int /\ m.poolAmount[ShortToken] \in Int
        /\ p.long.min \in Int /\ p.short.min \in Int
    BY PriceNumbers, WorthTypes
  <2> QED BY <2>1
<1>3. Worth(m, p) = long + short - i * price /\ Worth(n, p) = long + short - j * price
  BY DEF Worth
<1>4. j = i + amount  OBVIOUS
<1> HIDE DEF i, j, price, long, short
<1>5. (i + amount) * price = i * price + amount * price /\ i * price \in Int /\ amount * price \in Int
  BY <1>1
<1>6. Worth(n, p) = Worth(m, p) - amount * price  BY <1>2, <1>3, <1>4, <1>5
<1> QED BY <1>6 DEF price

\* What has the same pool amounts and the same impact pool is worth the same.
SamePools(m, n) == n.poolAmount = m.poolAmount /\ n.positionImpactPool = m.positionImpactPool

LEMMA SameWorth ==
  ASSUME NEW m, NEW n, NEW p, SamePools(m, n)
  PROVE  Worth(n, p) = Worth(m, p)
BY DEF SamePools, Worth

\* applyDeltaToPoolAmount.
LEMMA AddToPoolIsWorth ==
  ASSUME NEW x \in Working, NEW token \in Tokens, NEW amount \in Int, NEW p \in Prices,
         NEW y, y = AddToPool(x, token, amount)
  PROVE  /\ y \in Working /\ SameHands(x, y) /\ y.history = x.history
         /\ y.market.positionImpactPool = x.market.positionImpactPool
         /\ Value(y, p) = Value(x, p) + amount * TokenPrice(token, p).min
<1> DEFINE m == x.market
           n == [m EXCEPT !.poolAmount[token] = @ + amount]
<1>1. Credited(x, y, token, amount)  BY AddToPoolFacts
<1>2. m \in Books /\ y.market \in Books /\ y \in Working /\ y.history = x.history /\ SameHands(x, y)
  BY <1>1 DEF Credited, Working
<1>3. y.market = n  BY DEF AddToPool, Working
<1>4. /\ \A t \in Tokens : n.poolAmount[t] = m.poolAmount[t] + (IF t = token THEN amount ELSE 0)
      /\ n.positionImpactPool = m.positionImpactPool
  BY <1>2 DEF Books
<1> HIDE DEF n
<1>5. Worth(y.market, p) = Worth(m, p) + amount * TokenPrice(token, p).min
  BY <1>2, <1>3, <1>4, PoolIsWorth
<1>6. Worth(m, p) \in Int /\ RoundedUsd(x.history, p) \in Int  BY ValueTypes
<1>7. amount * TokenPrice(token, p).min \in Int  BY PriceNumbers
<1> QED BY <1>2, <1>3, <1>4, <1>5, <1>6, <1>7 DEF Value

\* applyDeltaToPositionImpactPool, of an amount that is there.
LEMMA AddToImpactPoolIsWorth ==
  ASSUME NEW x \in Working, NEW amount \in Int, NEW p \in Prices,
         x.market.positionImpactPool + amount >= 0,
         NEW y, y = AddToImpactPool(x, amount)
  PROVE  /\ y \in Working /\ SameHands(x, y) /\ y.history = x.history
         /\ Value(y, p) = Value(x, p) - amount * p.index.max
<1> DEFINE m == x.market
           n == [m EXCEPT !.positionImpactPool = IF @ + amount < 0 THEN 0 ELSE @ + amount]
<1>1. Credited(x, y, LongToken, 0)  BY AddToImpactPoolFacts
<1>2. m \in Books /\ y.market \in Books /\ y \in Working /\ y.history = x.history /\ SameHands(x, y)
  BY <1>1 DEF Credited, Working
<1>3. y.market = n  BY DEF AddToImpactPool, Working
<1>4. n.poolAmount = m.poolAmount /\ n.positionImpactPool = m.positionImpactPool + amount
  BY <1>2 DEF Books
<1> HIDE DEF n
<1>5. Worth(y.market, p) = Worth(m, p) - amount * p.index.max
  BY <1>2, <1>3, <1>4, ImpactIsWorth
<1>6. Worth(m, p) \in Int /\ RoundedUsd(x.history, p) \in Int  BY ValueTypes
<1>7. amount * p.index.max \in Int  BY PriceNumbers
<1> QED BY <1>2, <1>3, <1>5, <1>6, <1>7 DEF Value

\* The pool's part of the fees adds to what the books are worth.
LEMMA CreditFeesIsWorth ==
  ASSUME NEW x \in Working, NEW token \in Tokens, NEW fees \in Fees, NEW p \in Prices,
         NEW y, y = CreditFees(x, token, fees)
  PROVE  /\ y \in Working /\ SameHands(x, y) /\ y.history = x.history
         /\ y.market.positionImpactPool = x.market.positionImpactPool
         /\ Value(y, p) >= Value(x, p)
<1> DEFINE m == x.market
           n == [m EXCEPT !.poolAmount[token] = @ + fees.forPool,
                          !.claimableFee[token] = @ + fees.forReceiver,
                          !.claimableUiFee[token] = @ + fees.forUi]
           amount == fees.forPool
<1>1. Credited(x, y, token, fees.forPool + fees.forReceiver + fees.forUi)  BY CreditFeesFacts
<1>2. m \in Books /\ y.market \in Books /\ y \in Working /\ y.history = x.history /\ SameHands(x, y)
  BY <1>1 DEF Credited, Working
<1>3. y.market = n  BY DEF CreditFees, Working
<1>4. /\ \A t \in Tokens : n.poolAmount[t] = m.poolAmount[t] + (IF t = token THEN amount ELSE 0)
      /\ n.positionImpactPool = m.positionImpactPool
  BY <1>2 DEF Books, Fees
<1>5. amount \in Nat  BY DEF Fees
<1> HIDE DEF n, amount
<1>6. Worth(y.market, p) = Worth(m, p) + amount * TokenPrice(token, p).min
  BY <1>2, <1>3, <1>4, <1>5, PoolIsWorth
<1>7. Worth(m, p) \in Int /\ RoundedUsd(x.history, p) \in Int  BY ValueTypes
<1>8. amount * TokenPrice(token, p).min \in Nat  BY <1>5, PriceNumbers
<1> QED BY <1>2, <1>3, <1>4, <1>6, <1>7, <1>8 DEF Value

\* What is kept for claims is apart from the pool.
LEMMA AddClaimableCollateralIsWorth ==
  ASSUME NEW x \in Working, NEW token \in Tokens, NEW holder \in Holders, NEW amount \in Nat,
         NEW p \in Prices, NEW y, y = AddClaimableCollateral(x, token, holder, amount)
  PROVE  /\ y \in Working /\ SameHands(x, y) /\ y.history = x.history
         /\ Value(y, p) = Value(x, p)
<1>1. y \in Working /\ SameHands(x, y) /\ y.history = x.history
  BY AddClaimableCollateralFacts
<1>2. SamePools(x.market, y.market)
  BY DEF AddClaimableCollateral, Working, Books, SamePools
<1> QED BY <1>1, <1>2, SameWorth DEF Value

\* A swap in the market pays out no more than it takes in is worth.
LEMMA SwapIsWorth ==
  ASSUME NEW m \in Books, NEW tokenIn \in Tokens, NEW tokenOut \in Tokens,
         NEW amount \in Nat, NEW p \in Prices,
         NEW swap, swap = SwapInMarket(m, tokenIn, amount, tokenOut, p)
  PROVE  swap.market \in Books /\ Worth(swap.market, p) >= Worth(m, p)
<1> DEFINE priceIn == TokenPrice(tokenIn, p).min
           priceOut == TokenPrice(tokenOut, p).max
           minOut == TokenPrice(tokenOut, p).min
           out == (amount * priceIn) \div priceOut
           taken == [m EXCEPT !.poolAmount[tokenIn] = @ + amount]
           after == [taken EXCEPT !.poolAmount[tokenOut] = @ - out]
<1>1. swap.market = after  BY DEF SwapInMarket
<1>2. priceIn \in Nat \ {0} /\ priceOut \in Nat \ {0} /\ minOut \in Nat \ {0} /\ minOut <= priceOut
  BY PriceNumbers
<1>3. out \in Nat /\ priceOut * out <= amount * priceIn
  <2> DEFINE in == amount * priceIn
  <2>1. in \in Nat  BY <1>2
  <2> HIDE DEF in
  <2>2. in \div priceOut \in Nat /\ priceOut * (in \div priceOut) <= in
    BY <2>1, <1>2, DivisionFacts
  <2> QED BY <2>2 DEF in
<1> HIDE DEF out
<1>4. taken \in Books /\ taken.positionImpactPool = m.positionImpactPool
      /\ \A t \in Tokens : taken.poolAmount[t] = m.poolAmount[t] + (IF t = tokenIn THEN amount ELSE 0)
  BY DEF Books
<1> HIDE DEF taken
<1>5. after \in Books /\ after.positionImpactPool = taken.positionImpactPool
      /\ \A t \in Tokens : after.poolAmount[t] = taken.poolAmount[t] + (IF t = tokenOut THEN -out ELSE 0)
  BY <1>3, <1>4 DEF Books
<1> HIDE DEF after
<1>6. Worth(taken, p) = Worth(m, p) + amount * TokenPrice(tokenIn, p).min
  BY <1>4, PoolIsWorth
<1>7. Worth(after, p) = Worth(taken, p) + (-out) * TokenPrice(tokenOut, p).min
  <2>1. -out \in Int  BY <1>3
  <2> QED BY <1>4, <1>5, <2>1, PoolIsWorth
<1>8. Worth(m, p) \in Int  BY WorthTypes
<1> HIDE DEF priceIn, priceOut, minOut
<1>9. amount * priceIn \in Int /\ (-out) * minOut \in Int /\ (-out) * minOut = -(out * minOut)
      /\ out * minOut <= out * priceOut /\ out * priceOut = priceOut * out /\ out * minOut \in Int
      /\ out * priceOut \in Int
  BY <1>2, <1>3
<1>10. Worth(after, p) = Worth(m, p) + amount * priceIn + (-out) * minOut
  BY <1>6, <1>7, <1>8, <1>9 DEF priceIn, minOut
<1> QED BY <1>1, <1>3, <1>5, <1>8, <1>9, <1>10

-----------------------------------------------------------------------------
(* What the steps of processCollateral do to it, at the prices of the deal. *)

Priced(d) ==
  /\ Deal(d)
  /\ d.price = TokenPrice(d.token, d.prices) /\ d.pnlPrice = TokenPrice(d.pnlToken, d.prices)

PaidUsd(x, d) == x.paid * d.price.min + x.paidSecondary * d.pnlPrice.min

\* The numbers of a deal.
LEMMA PricedFacts ==
  ASSUME NEW d, Priced(d)
  PROVE  /\ d.prices \in Prices /\ d.token \in Tokens /\ d.pnlToken \in Tokens
         /\ d.price.min \in Nat \ {0} /\ d.price.min = TokenPrice(d.token, d.prices).min
         /\ d.pnlPrice.min \in Nat \ {0} /\ d.pnlPrice.min = TokenPrice(d.pnlToken, d.prices).min
         /\ d.pnlPrice.max \in Nat \ {0} /\ d.pnlPrice.min <= d.pnlPrice.max
         /\ d.prices.index.min \in Nat \ {0} /\ d.prices.index.max \in Nat \ {0}
         /\ d.prices.index.min <= d.prices.index.max
         /\ d.pnlUsd \in Int /\ d.impact.usd \in Int /\ d.impact.diffUsd \in Nat
         /\ d.fees \in Fees /\ d.account \in Holders
BY PriceNumbers, HoldersFacts DEF Priced, Deal

\* payForCost: when nothing is left to pay, all but less than one unit of the
\* secondary token is paid.
LEMMA PaidFacts ==
  ASSUME NEW x \in Working, NEW d, Priced(d), NEW costUsd \in Nat,
         NEW y, y = Pay(x, d, costUsd)
  PROVE  /\ y \in Working /\ y.market = x.market /\ y.history = x.history
         /\ PaidUsd(y, d) \in Nat
         /\ Solvent(y) => PaidUsd(y, d) > costUsd - d.pnlPrice.min
<1> DEFINE price == d.price.min
           secondaryPrice == d.pnlPrice.min
           cost == RoundUpDivision(costUsd, price)
           fromOutput == Least(x.output, cost)
           fromCollateral == Least(x.collateral, cost - fromOutput)
           rest == ((cost - fromOutput - fromCollateral) * price) \div secondaryPrice
           fromSecondary == Least(x.secondary, rest)
<1>1. y \in Working /\ y.market = x.market /\ y.history = x.history
      /\ y.paid \in Nat /\ y.paidSecondary \in Nat
  <2>1. y \in Working /\ y.market = x.market /\ y.history = x.history
    BY PayFacts DEF Priced
  <2> QED BY <2>1 DEF Working
<1>2. price \in Nat \ {0} /\ secondaryPrice \in Nat \ {0}  BY PricedFacts
<1>3. PaidUsd(y, d) \in Nat
  <2>1. y.paid * price \in Nat /\ y.paidSecondary * secondaryPrice \in Nat  BY <1>1, <1>2
  <2> QED BY <2>1 DEF PaidUsd
<1>4. ASSUME Solvent(y)  PROVE PaidUsd(y, d) > costUsd - secondaryPrice
  <2>1. y.paid = fromOutput + fromCollateral /\ y.paidSecondary = fromSecondary
        /\ y.unpaidUsd = (rest - fromSecondary) * secondaryPrice
    BY DEF Pay, PayForCost, Working
  <2>2. (rest - fromSecondary) * secondaryPrice = 0  BY <1>4, <2>1 DEF Solvent
  <2>3. x.output \in Nat /\ x.collateral \in Nat /\ x.secondary \in Nat  BY DEF Working
  <2>4. cost \in Nat /\ price * cost >= costUsd
    <3> DEFINE up == costUsd + price - 1
    <3>1. up \in Nat  BY <1>2
    <3>2. up \div price \in Nat /\ up < price * (up \div price) + price
      <4> HIDE DEF up, price
      <4> QED BY <1>2, <3>1, DivisionFacts
    <3>3. cost = up \div price  BY DEF RoundUpDivision
    <3> HIDE DEF cost
    <3>4. price * cost \in Nat  BY <1>2, <3>2, <3>3
    <3> QED BY <1>2, <3>2, <3>3, <3>4 DEF up
  <2> HIDE DEF cost, price, secondaryPrice
  <2>5. fromOutput \in Nat /\ fromOutput <= cost  BY <2>3, <2>4 DEF Least
  <2> HIDE DEF fromOutput
  <2>6. fromCollateral \in Nat /\ fromCollateral <= cost - fromOutput
    BY <2>3, <2>4, <2>5 DEF Least
  <2> HIDE DEF fromCollateral
  <2> DEFINE paid == fromOutput + fromCollateral
             restUsd == (cost - fromOutput - fromCollateral) * price
  <2>7. paid \in Nat /\ restUsd \in Nat /\ paid * price + restUsd = price * cost
    <3>1. cost - fromOutput - fromCollateral \in Nat  BY <2>4, <2>5, <2>6
    <3>2. cost = paid + (cost - fromOutput - fromCollateral)  BY <2>4, <2>5, <2>6
    <3> DEFINE short == cost - fromOutput - fromCollateral
    <3>3. short \in Nat /\ cost = paid + short /\ paid \in Nat  BY <2>5, <2>6, <3>1, <3>2
    <3> HIDE DEF short, paid
    <3>4. price * (paid + short) = paid * price + short * price /\ short * price \in Nat
      BY <1>2, <3>3
    <3> QED BY <3>3, <3>4 DEF short
  <2>8. rest \in Nat /\ restUsd < secondaryPrice * rest + secondaryPrice
    <3>1. rest = restUsd \div secondaryPrice  OBVIOUS
    <3>2. restUsd \in Nat  BY <2>7
    <3> HIDE DEF restUsd, rest
    <3>3. restUsd \div secondaryPrice \in Nat
          /\ restUsd < secondaryPrice * (restUsd \div secondaryPrice) + secondaryPrice
      BY <1>2, <3>2, DivisionFacts
    <3> QED BY <3>1, <3>3
  <2> HIDE DEF rest, restUsd
  <2>9. fromSecondary \in Nat /\ rest - fromSecondary \in Nat  BY <2>3, <2>8 DEF Least
  <2> HIDE DEF fromSecondary
  <2>10. fromSecondary = rest
    <3> DEFINE k == rest - fromSecondary
    <3>1. k \in Nat /\ k * secondaryPrice = 0  BY <2>2, <2>9
    <3> HIDE DEF k
    <3>2. k = 0  BY <1>2, <3>1
    <3> QED BY <2>8, <2>9, <3>2 DEF k
  <2>11. PaidUsd(y, d) = paid * price + rest * secondaryPrice
    BY <2>1, <2>10 DEF PaidUsd, price, secondaryPrice
  <2>12. rest * secondaryPrice = secondaryPrice * rest /\ rest * secondaryPrice \in Nat
         /\ paid * price \in Nat /\ price * cost \in Nat
    BY <1>2, <2>4, <2>7, <2>8
  <2> HIDE DEF paid
  <2> QED BY <1>2, <2>4, <2>7, <2>8, <2>11, <2>12
<1> QED BY <1>1, <1>3, <1>4

\* What is paid to the pool adds to what the books are worth.
LEMMA PaidToPoolIsWorth ==
  ASSUME NEW x \in Working, NEW d, Priced(d), NEW y, y = PaidToPool(x, d)
  PROVE  /\ y \in Working /\ SameHands(x, y) /\ y.history = x.history
         /\ y.market.positionImpactPool = x.market.positionImpactPool
         /\ Value(y, d.prices) = Value(x, d.prices) + PaidUsd(x, d)
<1> DEFINE z == AddToPool(x, d.token, x.paid)  p == d.prices
           a == x.paid * d.price.min  b == x.paidSecondary * d.pnlPrice.min
<1>1. x.paid \in Nat /\ x.paidSecondary \in Nat  BY DEF Working
<1>2. /\ z \in Working /\ SameHands(x, z) /\ z.history = x.history
      /\ z.market.positionImpactPool = x.market.positionImpactPool
      /\ Value(z, p) = Value(x, p) + a
  BY <1>1, PricedFacts, AddToPoolIsWorth
<1>3. y = AddToPool(z, d.pnlToken, x.paidSecondary)  BY DEF PaidToPool
<1> HIDE DEF z
<1>4. /\ y \in Working /\ SameHands(z, y) /\ y.history = z.history
      /\ y.market.positionImpactPool = z.market.positionImpactPool
      /\ Value(y, p) = Value(z, p) + b
  BY <1>1, <1>2, <1>3, PricedFacts, AddToPoolIsWorth
<1>5. a \in Nat /\ b \in Nat  BY <1>1, PricedFacts
<1>6. Value(x, p) \in Int  BY PricedFacts, ValueTypes
<1>7. PaidUsd(x, d) = a + b  BY DEF PaidUsd
<1>8. SameHands(x, y)  BY <1>2, <1>4 DEF SameHands
<1> HIDE DEF a, b
<1> QED BY <1>2, <1>4, <1>5, <1>6, <1>7, <1>8

ProfitUsd(d) == IF d.pnlUsd > 0 THEN d.pnlUsd ELSE 0
LossUsd(d) == IF d.pnlUsd < 0 THEN -d.pnlUsd ELSE 0

\* Positive impact is capped by the impact pool.
ImpactIsThere(m, d) ==
  d.impact.usd > 0 => d.impact.usd <= m.positionImpactPool * d.prices.index.min

\* A larger number has the larger multiples.
LEMMA Multiples ==
  ASSUME NEW a \in Nat, NEW b \in Nat, a <= b, NEW c \in Nat
  PROVE  a * c \in Nat /\ b * c \in Nat /\ a * c <= b * c /\ a * c = c * a /\ b * c = c * b
<1>1. a * c \in Nat /\ b * c \in Nat /\ a * c = c * a /\ b * c = c * b  OBVIOUS
<1>2. PICK k \in Nat : b = a + k
  <2>1. b - a \in Nat /\ b = a + (b - a)  OBVIOUS
  <2> QED BY <2>1
<1>3. b * c = a * c + k * c /\ k * c \in Nat  BY <1>2
<1> QED BY <1>1, <1>3

\* What the pool gives for a value in its tokens, at their max, is worth no more.
LEMMA FloorIsWorth ==
  ASSUME NEW usd \in Nat, NEW min \in Nat, NEW max \in Nat \ {0}, min <= max
  PROVE  usd \div max \in Nat /\ (usd \div max) * min <= usd
<1> DEFINE q == usd \div max
<1>1. q \in Nat /\ max * q <= usd  BY DivisionFacts
<1> HIDE DEF q
<1>2. q * min <= q * max /\ q * max = max * q /\ q * min \in Nat /\ max * q \in Nat
  BY <1>1
<1> QED BY <1>1, <1>2 DEF q

\* Profit and positive impact in tokens are worth no more than in dollars.
LEMMA GainIsWorth ==
  ASSUME NEW d, Priced(d)
  PROVE  /\ GainAmount(d) \in Nat
         /\ GainAmount(d) * d.pnlPrice.min
              <= ProfitUsd(d) + (IF d.impact.usd > 0 THEN d.impact.usd ELSE 0)
<1> DEFINE min == d.pnlPrice.min  max == d.pnlPrice.max
           impactUsd == IF d.impact.usd > 0 THEN d.impact.usd ELSE 0
           a == IF d.pnlUsd > 0 THEN d.pnlUsd \div max ELSE 0
           b == IF d.impact.usd > 0 THEN d.impact.usd \div max ELSE 0
<1>1. min \in Nat /\ max \in Nat \ {0} /\ min <= max /\ d.pnlUsd \in Int /\ d.impact.usd \in Int
  BY PricedFacts
<1>2. GainAmount(d) = a + b  BY DEF GainAmount
<1>3. a \in Nat /\ a * min <= ProfitUsd(d) /\ ProfitUsd(d) \in Nat
  <2>1. CASE d.pnlUsd > 0
    <3>1. d.pnlUsd \div max \in Nat /\ (d.pnlUsd \div max) * min <= d.pnlUsd
      <4>1. d.pnlUsd \in Nat  BY <1>1, <2>1
      <4> HIDE DEF min, max
      <4> QED BY ONLY <1>1, <4>1, FloorIsWorth
    <3> QED BY <1>1, <2>1, <3>1 DEF ProfitUsd
  <2>2. CASE ~(d.pnlUsd > 0)
    <3>1. a = 0 /\ ProfitUsd(d) = 0  BY <2>2 DEF ProfitUsd
    <3> HIDE DEF a, min
    <3> QED BY <1>1, <3>1
  <2> QED BY <2>1, <2>2
<1>4. b \in Nat /\ b * min <= impactUsd /\ impactUsd \in Nat
  <2>1. CASE d.impact.usd > 0
    <3>1. d.impact.usd \div max \in Nat /\ (d.impact.usd \div max) * min <= d.impact.usd
      <4>1. d.impact.usd \in Nat  BY <1>1, <2>1
      <4> HIDE DEF min, max
      <4> QED BY ONLY <1>1, <4>1, FloorIsWorth
    <3> QED BY <1>1, <2>1, <3>1
  <2>2. CASE ~(d.impact.usd > 0)
    <3>1. b = 0 /\ impactUsd = 0  BY <2>2
    <3> HIDE DEF b, impactUsd, min
    <3> QED BY <1>1, <3>1
  <2> QED BY <2>1, <2>2
<1>5. GainAmount(d) \in Nat /\ GainAmount(d) * min <= ProfitUsd(d) + impactUsd
  <2> HIDE DEF a, b, min, impactUsd
  <2>1. (a + b) * min = a * min + b * min /\ a * min \in Nat /\ b * min \in Nat
    BY <1>1, <1>3, <1>4
  <2> QED BY <1>2, <1>3, <1>4, <2>1
<1> QED BY <1>5

\* Profit leaves the pool; positive impact leaves the pool and the impact pool, and
\* the impact pool no less of it.
LEMMA TakeProfitIsWorth ==
  ASSUME NEW x \in Working, NEW d, Priced(d), ImpactIsThere(x.market, d),
         NEW y, y = TakeProfit(x, d)
  PROVE  y \in Working /\ Value(y, d.prices) >= Value(x, d.prices) - ProfitUsd(d)
<1> DEFINE p == d.prices
           gain == GainAmount(d)
           min == d.pnlPrice.min
           iMin == d.prices.index.min
           iMax == d.prices.index.max
           impactUsd == IF d.impact.usd > 0 THEN d.impact.usd ELSE 0
           used == IF d.impact.usd > 0 THEN RoundUpDivision(d.impact.usd, iMin) ELSE 0
           out == IF d.impact.usd > 0 THEN -RoundUpDivision(d.impact.usd, iMin) ELSE 0
           v == AddToPool(x, d.pnlToken, -gain)
           z == AddToImpactPool(v, out)
<1>1. /\ gain \in Nat /\ gain * min <= ProfitUsd(d) + impactUsd
  BY GainIsWorth
<1>2. /\ p \in Prices /\ d.pnlToken \in Tokens /\ min \in Nat \ {0}
      /\ min = TokenPrice(d.pnlToken, p).min
      /\ iMin \in Nat \ {0} /\ iMax \in Nat \ {0} /\ iMin <= iMax
      /\ d.impact.usd \in Int /\ d.pnlUsd \in Int
  BY PricedFacts
<1>3. impactUsd \in Nat /\ ProfitUsd(d) \in Nat  BY <1>2 DEF ProfitUsd
<1>4. y = IF d.pnlToken = d.token THEN [z EXCEPT !.output = @ + gain]
                                  ELSE [z EXCEPT !.secondary = @ + gain]
  BY DEF TakeProfit
<1>5. x.market.positionImpactPool \in Nat  BY DEF Working, Books
<1>6. used \in Nat /\ used <= x.market.positionImpactPool /\ impactUsd <= used * iMax /\ out = -used
  <2>1. CASE d.impact.usd > 0
    <3> DEFINE usd == d.impact.usd  up == usd + iMin - 1  q == up \div iMin
               pool == x.market.positionImpactPool
    <3>1. usd \in Nat /\ up \in Nat /\ usd <= pool * iMin
      BY <1>2, <2>1 DEF ImpactIsThere
    <3>2. q \in Nat /\ iMin * q <= up /\ up < iMin * q + iMin
      <4> HIDE DEF up
      <4> QED BY <1>2, <3>1, DivisionFacts
    <3>3. used = q /\ out = -q /\ impactUsd = usd  BY <2>1 DEF RoundUpDivision
    <3> HIDE DEF q, pool, usd, iMin, iMax, used, out, impactUsd
    <3>4. q <= pool
      <4> SUFFICES ASSUME q >= pool + 1 PROVE FALSE  BY <1>5, <3>2 DEF pool
      <4>1. pool \in Nat /\ pool + 1 \in Nat  BY <1>5 DEF pool
      <4>2. (pool + 1) * iMin <= q * iMin /\ q * iMin = iMin * q
        BY <1>2, <3>2, <4>1, Multiples
      <4>3. (pool + 1) * iMin = pool * iMin + iMin /\ iMin * q \in Nat /\ pool * iMin \in Nat
        BY <1>2, <3>2, <4>1
      <4> QED BY <1>2, <3>1, <3>2, <4>2, <4>3
    <3>5. usd <= q * iMax
      <4>1. q * iMin <= q * iMax /\ iMin * q = q * iMin /\ q * iMin \in Nat /\ q * iMax \in Nat
        BY <1>2, <3>2
      <4> QED BY <1>2, <3>1, <3>2, <4>1
    <3>6. used * iMax = q * iMax  BY <3>3
    <3>7. used \in Nat /\ used <= pool /\ out = -used  BY <3>2, <3>3, <3>4
    <3>8. impactUsd <= used * iMax  BY <3>3, <3>5, <3>6
    <3> QED BY <3>7, <3>8 DEF pool
  <2>2. CASE ~(d.impact.usd > 0)
    <3>1. used = 0 /\ out = 0 /\ impactUsd = 0  BY <2>2
    <3> HIDE DEF used, out, impactUsd, iMax
    <3>2. 0 * iMax = 0  BY <1>2
    <3>3. used * iMax = 0  BY <3>1, <3>2
    <3>4. used \in Nat /\ used <= x.market.positionImpactPool  BY <1>5, <3>1
    <3>5. impactUsd <= used * iMax  BY <3>1, <3>3
    <3>6. out = -used
      <4>1. \A a \in Int : -a = 0 - a  OBVIOUS
      <4>2. out = 0 - used  BY <3>1, <3>4
      <4> QED BY ONLY <3>4, <4>1, <4>2
    <3> QED BY <3>4, <3>5, <3>6
  <2> QED BY <2>1, <2>2
<1>7. /\ v \in Working /\ v.market.positionImpactPool = x.market.positionImpactPool
      /\ Value(v, p) = Value(x, p) + (-gain) * min
  <2> HIDE DEF gain, min, p
  <2>1. -gain \in Int  BY <1>1
  <2> QED BY <1>2, <2>1, AddToPoolIsWorth
<1> HIDE DEF v, used, out, gain, p, impactUsd
<1>8. z \in Working /\ Value(z, p) = Value(v, p) - out * iMax
  <2>1. out \in Int /\ v.market.positionImpactPool + out >= 0
    BY <1>5, <1>6, <1>7
  <2> QED BY <1>2, <1>7, <2>1, AddToImpactPoolIsWorth DEF p
<1> HIDE DEF z, iMax, min
<1>9. y \in Working /\ y.market = z.market /\ y.history = z.history
  BY <1>1, <1>4, <1>8 DEF Working
<1>10. Value(y, p) = Value(z, p)  BY <1>9 DEF Value
<1>11. Value(x, p) \in Int  BY <1>2, ValueTypes
<1>12. (-gain) * min = -(gain * min) /\ gain * min \in Int /\ out * iMax = -(used * iMax)
       /\ used * iMax \in Int
  BY <1>1, <1>2, <1>6
<1>13. Value(y, p) >= Value(x, p) - ProfitUsd(d)
  BY <1>1, <1>3, <1>6, <1>7, <1>8, <1>10, <1>11, <1>12
<1> QED BY <1>9, <1>13 DEF p

\* What gains nothing and loses nothing for the pool.
Holds(x, y, p) == y \in Working /\ (Solvent(y) => Solvent(x) /\ Value(y, p) >= Value(x, p))

\* Holding is transitive, and to leave all as it is holds.
LEMMA HoldsChain ==
  ASSUME NEW x \in Working, NEW y \in Working, NEW z \in Working, NEW p \in Prices,
         Holds(x, y, p), Holds(y, z, p)
  PROVE  Holds(x, z, p)
<1>1. Value(x, p) \in Int /\ Value(y, p) \in Int /\ Value(z, p) \in Int  BY ValueTypes
<1> QED BY <1>1 DEF Holds

LEMMA HoldsSame ==
  ASSUME NEW x \in Working, NEW p \in Prices
  PROVE  Holds(x, x, p)
<1>1. Value(x, p) \in Int  BY ValueTypes
<1> QED BY <1>1 DEF Holds

\* The swap of the profit holds.
LEMMA SwapProfitIsWorth ==
  ASSUME NEW x \in Working, NEW d, Priced(d), NEW y \in Working, y = SwapProfit(x, d)
  PROVE  Holds(x, y, d.prices)
<1> DEFINE p == d.prices
           swap == SwapInMarket(x.market, d.pnlToken, x.secondary, d.token, p)
           swaps == d.swap = "SwapPnlTokenToCollateralToken" /\ d.swapWorks /\ swap.succeeds
<1>1. y = IF swaps THEN [x EXCEPT !.market = swap.market, !.output = @ + swap.out, !.secondary = 0]
                   ELSE x
  BY DEF SwapProfit
<1>2. /\ p \in Prices /\ x.market \in Books /\ x.secondary \in Nat
      /\ d.token \in Tokens /\ d.pnlToken \in Tokens
  BY PricedFacts DEF Working
<1>3. Worth(swap.market, p) >= Worth(x.market, p)
  BY <1>2, SwapIsWorth
<1>4. CASE ~swaps
  <2>1. y = x  BY <1>1, <1>4
  <2> QED BY <1>2, <2>1, HoldsSame
<1>5. CASE swaps
  <2> HIDE DEF swap, swaps
  <2>1. y = [x EXCEPT !.market = swap.market, !.output = @ + swap.out, !.secondary = 0]
    BY <1>1, <1>5
  <2>2. y.market = swap.market /\ y.history = x.history /\ y.unpaidUsd = x.unpaidUsd
    BY <2>1 DEF Working
  <2>3. Worth(y.market, p) \in Int /\ Worth(x.market, p) \in Int /\ RoundedUsd(x.history, p) \in Int
    BY <1>2, ValueTypes
  <2>4. Value(y, p) >= Value(x, p)
    BY <1>3, <2>2, <2>3 DEF Value
  <2> QED BY <2>2, <2>4 DEF Holds, Solvent
<1> QED BY <1>4, <1>5

\* Funding is paid to the holders of claims, not to the pool and not by it.
LEMMA PayFundingIsWorth ==
  ASSUME NEW x \in Working, Solvent(x), NEW d, Priced(d), NEW y \in Working, y = PayFunding(x, d)
  PROVE  Holds(x, y, d.prices)
<1> DEFINE cost == d.fees.funding * d.price.min
           q == Pay(x, d, cost)
           p == d.prices
<1>1. cost \in Nat /\ p \in Prices /\ d.pnlToken \in Tokens /\ d.token \in Tokens
  BY PricedFacts DEF Fees
<1>2. q \in Working /\ q.market = x.market /\ q.history = x.history
  <2> HIDE DEF cost
  <2> QED BY <1>1, PaidFacts
<1>3. y = AddClaimableCollateral([q EXCEPT !.history.funding[d.token] = @ + q.paid],
                                 d.pnlToken, HoldingAddress, q.paidSecondary)
  BY DEF PayFunding
<1> HIDE DEF q, cost
<1> DEFINE funding == [q.history.funding EXCEPT ![d.token] = @ + q.paid]
           h == [q.history EXCEPT !.funding = funding]
           z == [q EXCEPT !.history = h]
<1>4. h \in History /\ h.roundedLosses = q.history.roundedLosses /\ q.paidSecondary \in Nat
  <2>1. q.history \in History /\ q.paid \in Nat /\ q.paidSecondary \in Nat  BY <1>2 DEF Working
  <2>2. funding \in [Tokens -> Int]  BY <1>1, <2>1 DEF History
  <2> HIDE DEF funding
  <2> QED BY <2>1, <2>2 DEF History
<1>5. y = AddClaimableCollateral(z, d.pnlToken, HoldingAddress, q.paidSecondary)
  <2>1. [q EXCEPT !.history.funding[d.token] = @ + q.paid] = z  BY <1>2 DEF Working, History
  <2> QED BY <1>3, <2>1
<1> HIDE DEF h
<1>6. z \in Working /\ z.market = q.market /\ z.history = h  BY <1>2, <1>4 DEF Working
<1> HIDE DEF z
<1>7. y.history = h /\ Value(y, p) = Value(z, p)
  <2>1. HoldingAddress \in Holders  BY HoldersFacts
  <2> QED BY <1>1, <1>4, <1>5, <1>6, <2>1, AddClaimableCollateralIsWorth
<1>8. Value(z, p) = Value(x, p) /\ Value(x, p) \in Int
  BY <1>1, <1>2, <1>4, <1>6, ValueTypes DEF Value, RoundedUsd
<1> QED BY <1>7, <1>8 DEF Holds

\* A loss that is taken as paid is paid to the pool, or counted as rounded.
LEMMA PayLossIsWorth ==
  ASSUME NEW x \in Working, NEW d, Priced(d), NEW y \in Working, y = PayLoss(x, d)
  PROVE  Solvent(y) => Solvent(x) /\ Value(y, d.prices) >= Value(x, d.prices) + LossUsd(d)
<1> DEFINE p == d.prices
<1>0. p \in Prices /\ d.pnlUsd \in Int /\ Value(x, p) \in Int
  BY PricedFacts, ValueTypes
<1>1. CASE Solvent(x) /\ d.pnlUsd < 0
  <2> SUFFICES ASSUME Solvent(y) PROVE Value(y, p) >= Value(x, p) + LossUsd(d)
    BY <1>1
  <2>1. PICK loss \in Nat : loss = -d.pnlUsd
    <3>1. -d.pnlUsd \in Nat  BY <1>0, <1>1
    <3> QED BY <3>1
  <2>2. PICK z : z = Pay(x, d, loss)  OBVIOUS
  <2>3. /\ z \in Working /\ z.market = x.market /\ z.history = x.history
        /\ PaidUsd(z, d) \in Nat
        /\ Solvent(z) => PaidUsd(z, d) > loss - d.pnlPrice.min
    <3>1. z \in Working  BY <2>2, PaidFacts
    <3>2. Pay(x, d, loss).market = x.market /\ Pay(x, d, loss).history = x.history
      BY DEF Pay, Working
    <3>3. z.market = x.market /\ z.history = x.history  BY <2>2, <3>2
    <3>4. PaidUsd(z, d) \in Nat  BY <2>2, PaidFacts
    <3>5. Solvent(z) => PaidUsd(z, d) > loss - d.pnlPrice.min  BY <2>2, PaidFacts
    <3> QED BY <3>1, <3>2, <3>3, <3>4, <3>5
  <2>4. LossUsd(d) = loss  BY <1>1, <2>1 DEF LossUsd
  <2> DEFINE k == IF Solvent(z) /\ PaidUsd(z, d) < loss THEN 1 ELSE 0
             w == PaidToPool(z, d)
  <2>5. y = [w EXCEPT !.history.roundedLosses = @ + k]
    BY <1>1, <2>1, <2>2 DEF PayLoss, PaidUsd
  <2>k. k = IF Solvent(z) /\ PaidUsd(z, d) < loss THEN 1 ELSE 0  OBVIOUS
  <2> HIDE DEF k
  <2>6. w \in Working /\ SameHands(z, w) /\ w.history = z.history
        /\ Value(w, p) = Value(z, p) + PaidUsd(z, d)
    BY <2>3, PaidToPoolIsWorth
  <2> HIDE DEF w
  <2>7. /\ y.market = w.market /\ y.unpaidUsd = w.unpaidUsd
        /\ y.history.roundedLosses = w.history.roundedLosses + k
    BY <2>5, <2>6 DEF Working, History
  <2>8. Solvent(z)  BY <2>6, <2>7 DEF Solvent, SameHands
  <2>9. Value(z, p) = Value(x, p)  BY <2>3 DEF Value
  <2>10. /\ y.history \in History /\ w.history \in History
         /\ Worth(w.market, p) \in Int /\ RoundedUsd(w.history, p) \in Nat
         /\ Dust(p) \in Nat /\ d.pnlPrice.min - 1 <= Dust(p) /\ d.pnlPrice.min \in Nat
    <3>1. d.pnlToken \in Tokens /\ d.pnlPrice.min = TokenPrice(d.pnlToken, p).min /\ d.pnlPrice.min \in Nat
      BY PricedFacts
    <3> QED BY <1>0, <2>6, <3>1, DustFacts, ValueTypes DEF Working
  <2>11. CASE PaidUsd(z, d) < loss
    <3>1. k = 1  BY <2>k, <2>8, <2>11
    <3>2. y.history.roundedLosses = w.history.roundedLosses + 1  BY <2>7, <3>1
    <3>3. RoundedUsd(y.history, p) = RoundedUsd(w.history, p) + Dust(p)
      BY <1>0, <2>10, <3>2, DustFacts
    <3>4. Value(y, p) = Value(w, p) + Dust(p)  BY <2>7, <2>10, <3>3 DEF Value
    <3> HIDE DEF p
    <3> QED BY <1>0, <2>3, <2>4, <2>6, <2>8, <2>9, <2>10, <3>4
  <2>12. CASE ~(PaidUsd(z, d) < loss)
    <3>1. k = 0  BY <2>k, <2>12
    <3>2. y.history.roundedLosses = w.history.roundedLosses
      BY <2>7, <2>10, <3>1 DEF History
    <3>3. Value(y, p) = Value(w, p)  BY <2>7, <3>2 DEF Value, RoundedUsd
    <3> HIDE DEF p
    <3> QED BY <1>0, <2>3, <2>4, <2>6, <2>9, <2>12, <3>3
  <2> QED BY <2>11, <2>12
<1>2. CASE ~(Solvent(x) /\ d.pnlUsd < 0)
  <2>1. y = x  BY <1>2 DEF PayLoss
  <2>2. Solvent(x) => LossUsd(d) = 0  BY <1>2 DEF LossUsd
  <2> HIDE DEF p
  <2> QED BY <1>0, <2>1, <2>2 DEF p
<1> QED BY <1>1, <1>2

\* To pay moves nothing in the pool yet.
LEMMA PayIsWorth ==
  ASSUME NEW x \in Working, NEW d, Priced(d), NEW costUsd \in Nat, NEW z, z = Pay(x, d, costUsd)
  PROVE  /\ z \in Working /\ Value(z, d.prices) = Value(x, d.prices) /\ Value(x, d.prices) \in Int
         /\ PaidUsd(z, d) \in Nat
         /\ z.paid \in Nat /\ z.paidSecondary \in Nat
<1>1. z \in Working  BY PaidFacts
<1>2. PaidUsd(z, d) \in Nat  BY PaidFacts
<1>3. z.market = x.market /\ z.history = x.history  BY DEF Pay, Working
<1>4. Value(z, d.prices) = Value(x, d.prices)  BY <1>3 DEF Value
<1>5. z.paid \in Nat /\ z.paidSecondary \in Nat  BY <1>1 DEF Working
<1>6. Value(x, d.prices) \in Int  BY PricedFacts, ValueTypes
<1> QED BY <1>1, <1>2, <1>4, <1>5, <1>6

\* Fees add to the pool.
LEMMA PayFeesIsWorth ==
  ASSUME NEW x \in Working, NEW d, Priced(d), NEW y \in Working, y = PayFees(x, d)
  PROVE  Holds(x, y, d.prices)
<1> DEFINE p == d.prices
<1>0. /\ p \in Prices /\ Value(x, p) \in Int /\ d.fees \in Fees /\ d.token \in Tokens
      /\ d.price.min \in Nat
  BY PricedFacts, ValueTypes
<1>1. CASE Solvent(x)
  <2>1. PICK cost \in Nat : cost = d.fees.excludingFunding * d.price.min
    <3>1. d.fees.excludingFunding * d.price.min \in Nat  BY <1>0 DEF Fees
    <3> QED BY <3>1
  <2>2. PICK z : z = Pay(x, d, cost)  OBVIOUS
  <2>3. /\ z \in Working /\ Value(z, p) = Value(x, p) /\ PaidUsd(z, d) \in Nat
    BY <2>2, PayIsWorth
  <2>4. CASE Solvent(z) /\ z.paidSecondary = 0
    <3>1. PICK w : w = CreditFees(z, d.token, d.fees)  OBVIOUS
    <3>2. w \in Working /\ w.history = z.history /\ Value(w, p) >= Value(z, p)
      BY <1>0, <2>3, <3>1, CreditFeesIsWorth
    <3>3. y = [w EXCEPT !.affiliateReward = d.fees.forAffiliate,
                        !.history.forgiven[d.token] = @ + d.fees.excludingFunding - z.paid]
      BY <1>1, <2>1, <2>2, <2>4, <3>1 DEF PayFees
    <3>4. y.market = w.market /\ y.history.roundedLosses = w.history.roundedLosses
      BY <3>2, <3>3 DEF Working, History
    <3>5. Value(y, p) = Value(w, p)  BY <3>4 DEF Value, RoundedUsd
    <3>6. Value(w, p) \in Int /\ Value(z, p) \in Int  BY <1>0, <2>3, <3>2, ValueTypes
    <3> HIDE DEF p
    <3>7. Value(y, p) >= Value(x, p)  BY <1>0, <2>3, <3>2, <3>5, <3>6
    <3> QED BY <1>1, <3>7 DEF Holds, p
  <2>5. CASE ~(Solvent(z) /\ z.paidSecondary = 0)
    <3>1. y = PaidToPool(z, d)  BY <1>1, <2>1, <2>2, <2>5 DEF PayFees
    <3>2. Value(y, p) = Value(z, p) + PaidUsd(z, d)  BY <2>3, <3>1, PaidToPoolIsWorth
    <3> HIDE DEF p
    <3>3. Value(y, p) >= Value(x, p)  BY <1>0, <2>3, <3>2
    <3> QED BY <1>1, <3>3 DEF Holds, p
  <2> QED BY <2>4, <2>5
<1>2. CASE ~Solvent(x)
  <2>1. y = x  BY <1>2 DEF PayFees
  <2> QED BY <1>0, <2>1, HoldsSame
<1> QED BY <1>1, <1>2

\* Negative impact is paid to the pool, and the impact pool is given no more than that.
LEMMA PayImpactIsWorth ==
  ASSUME NEW x \in Working, NEW d, Priced(d), NEW y \in Working, y = PayImpact(x, d)
  PROVE  Holds(x, y, d.prices)
<1> DEFINE p == d.prices  max == d.prices.index.max
<1>0. /\ p \in Prices /\ Value(x, p) \in Int /\ d.impact.usd \in Int
      /\ d.price.min \in Nat /\ d.pnlPrice.min \in Nat /\ max \in Nat \ {0}
  BY PricedFacts, ValueTypes
<1>1. CASE Solvent(x) /\ d.impact.usd < 0
  <2>1. PICK cost \in Nat : cost = -d.impact.usd
    <3>1. -d.impact.usd \in Nat  BY <1>0, <1>1
    <3> QED BY <3>1
  <2>2. PICK z : z = Pay(x, d, cost)  OBVIOUS
  <2>3. /\ z \in Working /\ Value(z, p) = Value(x, p) /\ PaidUsd(z, d) \in Nat
        /\ z.paid \in Nat /\ z.paidSecondary \in Nat
    BY <2>2, PayIsWorth
  <2> DEFINE w == PaidToPool(z, d)
             paid == z.paid * d.price.min
             paidSecondary == z.paidSecondary * d.pnlPrice.min
             a == paid \div max
             b == paidSecondary \div max
             n == a + b
  <2>4. y = AddToImpactPool(w, n)
    BY <1>1, <2>1, <2>2 DEF PayImpact
  <2>5. w \in Working /\ Value(w, p) = Value(z, p) + PaidUsd(z, d)
    BY <2>3, PaidToPoolIsWorth
  <2>6. paid \in Nat /\ paidSecondary \in Nat /\ PaidUsd(z, d) = paid + paidSecondary
    BY <1>0, <2>3 DEF PaidUsd
  <2> HIDE DEF paid, paidSecondary
  <2>7. /\ a \in Nat /\ a * max <= paid
        /\ b \in Nat /\ b * max <= paidSecondary
    <3> HIDE DEF max
    <3> QED BY <1>0, <2>6, FloorIsWorth
  <2> HIDE DEF a, b, w
  <2>8. n \in Int /\ w.market.positionImpactPool + n >= 0
    BY <2>5, <2>7 DEF Working, Books
  <2>9. n * max = a * max + b * max /\ a * max \in Nat /\ b * max \in Nat
    <3> HIDE DEF max
    <3> QED BY <1>0, <2>7
  <2> HIDE DEF n
  <2>10. Value(y, p) = Value(w, p) - n * max
    BY <1>0, <2>4, <2>5, <2>8, AddToImpactPoolIsWorth
  <2> HIDE DEF p, max
  <2>11. Value(y, p) >= Value(x, p)  BY <1>0, <2>3, <2>5, <2>6, <2>7, <2>9, <2>10
  <2> QED BY <1>1, <2>11 DEF Holds, p
<1>2. CASE ~(Solvent(x) /\ d.impact.usd < 0)
  <2>1. y = x  BY <1>2 DEF PayImpact
  <2> QED BY <1>0, <2>1, HoldsSame
<1> QED BY <1>1, <1>2

\* What the trader may claim later is not the pool's.
LEMMA PayImpactDiffIsWorth ==
  ASSUME NEW x \in Working, NEW d, Priced(d), NEW y \in Working, y = PayImpactDiff(x, d)
  PROVE  Holds(x, y, d.prices)
<1> DEFINE p == d.prices
<1>0. /\ p \in Prices /\ Value(x, p) \in Int /\ d.impact.diffUsd \in Nat
      /\ d.token \in Tokens /\ d.pnlToken \in Tokens /\ d.account \in Holders
  BY PricedFacts, ValueTypes
<1>1. CASE Solvent(x) /\ d.impact.diffUsd > 0
  <2>2. PICK z : z = Pay(x, d, d.impact.diffUsd)  OBVIOUS
  <2>3. /\ z \in Working /\ Value(z, p) = Value(x, p)
        /\ z.paid \in Nat /\ z.paidSecondary \in Nat
    BY <1>0, <2>2, PayIsWorth
  <2>4. PICK w : w = AddClaimableCollateral(z, d.token, d.account, z.paid)  OBVIOUS
  <2>5. w \in Working /\ Value(w, p) = Value(z, p)
    BY <1>0, <2>3, <2>4, AddClaimableCollateralIsWorth
  <2>6. y = AddClaimableCollateral(w, d.pnlToken, d.account, z.paidSecondary)
    BY <1>1, <2>2, <2>4 DEF PayImpactDiff
  <2>7. Value(y, p) = Value(w, p)
    BY <1>0, <2>3, <2>5, <2>6, AddClaimableCollateralIsWorth
  <2> HIDE DEF p
  <2>8. Value(y, p) >= Value(x, p)  BY <1>0, <2>3, <2>5, <2>7
  <2> QED BY <1>1, <2>8 DEF Holds, p
<1>2. CASE ~(Solvent(x) /\ d.impact.diffUsd > 0)
  <2>1. y = x  BY <1>2 DEF PayImpactDiff
  <2> QED BY <1>0, <2>1, HoldsSame
<1> QED BY <1>1, <1>2

\* Collateral is not the pool's either.
LEMMA WithdrawIsWorth ==
  ASSUME NEW x \in Working, NEW d, Priced(d), NEW y \in Working, y = Withdraw(x, d)
  PROVE  Holds(x, y, d.prices)
<1> DEFINE p == d.prices
<1>0. p \in Prices /\ Value(x, p) \in Int
  BY PricedFacts, ValueTypes
<1>1. y.market = x.market /\ y.history = x.history /\ y.unpaidUsd = x.unpaidUsd
  BY DEF Withdraw, Working
<1> QED BY <1>0, <1>1 DEF Holds, Value, Solvent

\* processCollateral: what the trader has gained is all that the pool may lose.
LEMMA ProcessCollateralIsWorth ==
  ASSUME NEW x \in Working, NEW d, Priced(d), Solvent(x), x.affiliateReward = 0,
         ImpactIsThere(x.market, d), NEW y, y = ProcessCollateral(x, d)
  PROVE  Solvent(y) => Value(y, d.prices) >= Value(x, d.prices) - d.pnlUsd
<1> DEFINE p == d.prices
           x1 == TakeProfit(x, d)
           x2 == SwapProfit(x1, d)
           x3 == PayFunding(x2, d)
           x4 == PayLoss(x3, d)
           x5 == PayFees(x4, d)
           x6 == PayImpact(x5, d)
           x7 == PayImpactDiff(x6, d)
<1>0. p \in Prices /\ d.pnlUsd \in Int /\ Deal(d)  BY PricedFacts DEF Priced
<1>1. y = Withdraw(x7, d)  BY DEF ProcessCollateral
<1>2. x1 \in Working /\ Solvent(x1) /\ x1.affiliateReward = 0
      /\ Value(x1, p) >= Value(x, p) - ProfitUsd(d)
  <2>1. Kept(x, x1, d) /\ Solvent(x1) /\ x1.affiliateReward = 0  BY <1>0, TakeProfitKeeps
  <2>2. x1 \in Working /\ Value(x1, p) >= Value(x, p) - ProfitUsd(d)
    BY TakeProfitIsWorth
  <2> QED BY <2>1, <2>2
<1> HIDE DEF x1
<1>3. x2 \in Working /\ Solvent(x2) /\ x2.affiliateReward = 0 /\ Holds(x1, x2, p)
  <2>1. x2 \in Working /\ x2.affiliateReward = 0  BY <1>0, <1>2, SwapProfitKeeps DEF Kept
  <2>2. x2.unpaidUsd = x1.unpaidUsd  BY <1>2 DEF SwapProfit, Working
  <2>3. Holds(x1, x2, p)  BY <1>2, <2>1, SwapProfitIsWorth
  <2> QED BY <1>2, <2>1, <2>2, <2>3 DEF Solvent
<1> HIDE DEF x2
<1>4. x3 \in Working /\ Broke(x3) /\ x3.affiliateReward = 0 /\ Holds(x2, x3, p)
  <2>1. x3 \in Working /\ Broke(x3) /\ x3.affiliateReward = 0
    BY <1>0, <1>3, PayFundingKeeps DEF Kept
  <2> QED BY <1>3, <2>1, PayFundingIsWorth
<1> HIDE DEF x3
<1>5. x4 \in Working /\ Broke(x4) /\ x4.affiliateReward = 0
      /\ (Solvent(x4) => Solvent(x3) /\ Value(x4, p) >= Value(x3, p) + LossUsd(d))
  <2>1. x4 \in Working /\ Broke(x4) /\ x4.affiliateReward = 0
    BY <1>0, <1>4, PayLossKeeps DEF Kept
  <2> QED BY <1>4, <2>1, PayLossIsWorth
<1> HIDE DEF x4
<1>6. x5 \in Working /\ Broke(x5) /\ Holds(x4, x5, p)
  <2>1. x5 \in Working /\ Broke(x5)  BY <1>0, <1>5, PayFeesKeeps DEF Kept
  <2> QED BY <1>5, <2>1, PayFeesIsWorth
<1> HIDE DEF x5
<1>7. x6 \in Working /\ Broke(x6) /\ Holds(x5, x6, p)
  <2>1. x6 \in Working /\ Broke(x6)  BY <1>0, <1>6, PayImpactKeeps DEF Kept
  <2> QED BY <1>6, <2>1, PayImpactIsWorth
<1> HIDE DEF x6
<1>8. x7 \in Working /\ Broke(x7) /\ Holds(x6, x7, p)
  <2>1. x7 \in Working /\ Broke(x7)  BY <1>0, <1>7, PayImpactDiffKeeps DEF Kept
  <2> QED BY <1>7, <2>1, PayImpactDiffIsWorth
<1> HIDE DEF x7
<1>9. y \in Working /\ Holds(x7, y, p)
  <2>1. y \in Working  BY <1>0, <1>1, <1>8, WithdrawKeeps DEF Kept
  <2> QED BY <1>1, <1>8, <2>1, WithdrawIsWorth
<1>10. Holds(x4, y, p)
  <2>1. Holds(x4, x6, p)  BY <1>0, <1>5, <1>6, <1>7, HoldsChain
  <2>2. Holds(x4, x7, p)  BY <1>0, <1>5, <1>7, <1>8, <2>1, HoldsChain
  <2> QED BY <1>0, <1>5, <1>8, <1>9, <2>2, HoldsChain
<1>11. Holds(x1, x3, p)  BY <1>0, <1>2, <1>3, <1>4, HoldsChain
<1>12. /\ Value(x, p) \in Int /\ Value(x1, p) \in Int /\ Value(x3, p) \in Int
       /\ Value(x4, p) \in Int /\ Value(y, p) \in Int
  BY <1>0, <1>2, <1>4, <1>5, <1>9, ValueTypes
<1>13. ProfitUsd(d) \in Nat /\ LossUsd(d) \in Nat /\ ProfitUsd(d) - LossUsd(d) = d.pnlUsd
  BY <1>0 DEF ProfitUsd, LossUsd
<1> HIDE DEF p
<1> SUFFICES ASSUME Solvent(y) PROVE Value(y, p) >= Value(x, p) - d.pnlUsd
  BY DEF p
<1>14. Solvent(x4) /\ Value(y, p) >= Value(x4, p)  BY <1>10 DEF Holds
<1>15. Solvent(x3) /\ Value(x4, p) >= Value(x3, p) + LossUsd(d)  BY <1>5, <1>14
<1>16. Value(x3, p) >= Value(x1, p)  BY <1>11, <1>15 DEF Holds
<1> QED BY <1>0, <1>2, <1>12, <1>13, <1>14, <1>15, <1>16

-----------------------------------------------------------------------------
(* What the positions would gain if all of them closed at once.             *)

GainOfPosition(position, price, isLong) ==
  GainOf(position.sizeInUsd, position.sizeInTokens, price, isLong)

SideGain(p, side, price) == GainOf(SizesOf(p, side), TokensOf(p, side), price, side[2])

Gains(p, price) ==
  SideGain(p, <<LongToken, TRUE>>, price) + SideGain(p, <<ShortToken, TRUE>>, price)
    + SideGain(p, <<LongToken, FALSE>>, price) + SideGain(p, <<ShortToken, FALSE>>, price)

\* A key is summed on its own side.
LEMMA SideFacts ==
  ASSUME NEW key \in PositionKeys, NEW side \in Sides
  PROVE  key \in KeysOf(side) <=> side = <<key.collateralToken, key.isLong>>
<1>1. side = <<side[1], side[2]>>  BY DEF Sides
<1> QED BY <1>1 DEF KeysOf

\* One position changes: so do the sizes and the tokens of its side.
LEMMA SumsMove ==
  ASSUME NEW p \in [PositionKeys -> Position], NEW key \in PositionKeys, NEW new \in Position,
         NEW q, Moved(p, q, key, new), NEW s \in Sides
  PROVE  /\ SizesOf(p, s) \in Nat /\ TokensOf(p, s) \in Nat
         /\ SizesOf(q, s) = SizesOf(p, s)
              + (IF s = <<key.collateralToken, key.isLong>>
                 THEN new.sizeInUsd - p[key].sizeInUsd ELSE 0)
         /\ TokensOf(q, s) = TokensOf(p, s)
              + (IF s = <<key.collateralToken, key.isLong>>
                 THEN new.sizeInTokens - p[key].sizeInTokens ELSE 0)
<1> DEFINE side == <<key.collateralToken, key.isLong>>
           sizes(r) == [k \in PositionKeys |-> r[k].sizeInUsd]
           tokens(r) == [k \in PositionKeys |-> r[k].sizeInTokens]
<1>1. q \in [PositionKeys -> Position] /\ q[key] = new
      /\ \A k \in PositionKeys \ {key} : q[k] = p[k]
  BY DEF Moved
<1>2. KeysOf(s) \in SUBSET PositionKeys  BY KeysFacts
<1>3. key \in KeysOf(s) <=> s = side  BY SideFacts
<1>4. /\ sizes(p) \in [PositionKeys -> Nat] /\ sizes(q) \in [PositionKeys -> Nat]
      /\ \A k \in PositionKeys \ {key} : sizes(q)[k] = sizes(p)[k]
      /\ sizes(p)[key] = p[key].sizeInUsd /\ sizes(q)[key] = new.sizeInUsd
  BY <1>1 DEF Position
<1>5. /\ tokens(p) \in [PositionKeys -> Nat] /\ tokens(q) \in [PositionKeys -> Nat]
      /\ \A k \in PositionKeys \ {key} : tokens(q)[k] = tokens(p)[k]
      /\ tokens(p)[key] = p[key].sizeInTokens /\ tokens(q)[key] = new.sizeInTokens
  BY <1>1 DEF Position
<1>6. /\ SizesOf(p, s) = SumFunctionOnSet(sizes(p), KeysOf(s))
      /\ SizesOf(q, s) = SumFunctionOnSet(sizes(q), KeysOf(s))
      /\ TokensOf(p, s) = SumFunctionOnSet(tokens(p), KeysOf(s))
      /\ TokensOf(q, s) = SumFunctionOnSet(tokens(q), KeysOf(s))
  BY DEF SizesOf, TokensOf
<1> HIDE DEF sizes, tokens, side
<1>7. /\ SizesOf(p, s) \in Nat
      /\ SizesOf(q, s) = SizesOf(p, s) + (IF s = side THEN new.sizeInUsd - p[key].sizeInUsd ELSE 0)
  BY <1>2, <1>3, <1>4, <1>6, PositionSumFacts
<1>8. /\ TokensOf(p, s) \in Nat
      /\ TokensOf(q, s) = TokensOf(p, s)
           + (IF s = side THEN new.sizeInTokens - p[key].sizeInTokens ELSE 0)
  BY <1>2, <1>3, <1>5, <1>6, PositionSumFacts
<1> QED BY <1>7, <1>8 DEF side

\* So do the gains of its side, by what its own gain changes by.
LEMMA SideGainMoves ==
  ASSUME NEW p \in [PositionKeys -> Position], NEW key \in PositionKeys, NEW new \in Position,
         NEW q, Moved(p, q, key, new), NEW s \in Sides, NEW price \in Nat
  PROVE  /\ SideGain(p, s, price) \in Int
         /\ SideGain(q, s, price) = SideGain(p, s, price)
              + (IF s = <<key.collateralToken, key.isLong>>
                 THEN GainOfPosition(new, price, key.isLong) - GainOfPosition(p[key], price, key.isLong)
                 ELSE 0)
<1> DEFINE side == <<key.collateralToken, key.isLong>>
           S == SizesOf(p, s)  T == TokensOf(p, s)
           S2 == SizesOf(q, s)  T2 == TokensOf(q, s)
           a == p[key].sizeInUsd  b == p[key].sizeInTokens
           c == new.sizeInUsd  e == new.sizeInTokens
<1>1. /\ S \in Nat /\ T \in Nat
      /\ S2 = S + (IF s = side THEN c - a ELSE 0)
      /\ T2 = T + (IF s = side THEN e - b ELSE 0)
  BY SumsMove
<1>2. a \in Nat /\ b \in Nat /\ c \in Nat /\ e \in Nat  BY DEF Position
<1>3. s[2] \in BOOLEAN /\ (s = side => s[2] = key.isLong)  BY DEF Sides
<1>4. /\ SideGain(p, s, price) = IF s[2] THEN T * price - S ELSE S - T * price
      /\ SideGain(q, s, price) = IF s[2] THEN T2 * price - S2 ELSE S2 - T2 * price
      /\ GainOfPosition(p[key], price, key.isLong)
           = IF key.isLong THEN b * price - a ELSE a - b * price
      /\ GainOfPosition(new, price, key.isLong)
           = IF key.isLong THEN e * price - c ELSE c - e * price
  BY DEF SideGain, GainOfPosition, GainOf
<1> HIDE DEF S, T, S2, T2, a, b, c, e, side
<1>5. T * price \in Nat /\ b * price \in Nat /\ e * price \in Nat  BY <1>1, <1>2
<1>6. CASE s = side
  <2>1. T2 = T + e - b /\ S2 = S + c - a  BY <1>1, <1>2, <1>6
  <2>2. T2 * price = T * price + e * price - b * price  BY <1>1, <1>2, <2>1
  <2> QED BY <1>1, <1>2, <1>3, <1>4, <1>5, <1>6, <2>1, <2>2 DEF side
<1>7. CASE s # side
  <2>1. T2 = T /\ S2 = S  BY <1>1, <1>7
  <2> QED BY <1>1, <1>3, <1>4, <1>5, <1>7, <2>1 DEF side
<1> QED BY <1>6, <1>7

\* And so do the gains of all of them.
LEMMA GainsMove ==
  ASSUME NEW p \in [PositionKeys -> Position], NEW key \in PositionKeys, NEW new \in Position,
         NEW q, Moved(p, q, key, new), NEW price \in Nat
  PROVE  /\ Gains(p, price) \in Int
         /\ GainOfPosition(new, price, key.isLong) \in Int
         /\ GainOfPosition(p[key], price, key.isLong) \in Int
         /\ Gains(q, price) = Gains(p, price)
              + GainOfPosition(new, price, key.isLong) - GainOfPosition(p[key], price, key.isLong)
<1> DEFINE side == <<key.collateralToken, key.isLong>>
           change == GainOfPosition(new, price, key.isLong) - GainOfPosition(p[key], price, key.isLong)
           LT == <<LongToken, TRUE>>  ST == <<ShortToken, TRUE>>
           LF == <<LongToken, FALSE>>  SF == <<ShortToken, FALSE>>
<1>1. /\ GainOfPosition(new, price, key.isLong) \in Int
      /\ GainOfPosition(p[key], price, key.isLong) \in Int
  <2>1. /\ new.sizeInUsd \in Nat /\ new.sizeInTokens \in Nat
        /\ p[key].sizeInUsd \in Nat /\ p[key].sizeInTokens \in Nat /\ key.isLong \in BOOLEAN
    BY KeyFacts DEF Position
  <2> QED BY <2>1, GainFromPriceFacts DEF GainOfPosition
<1>2. LT \in Sides /\ ST \in Sides /\ LF \in Sides /\ SF \in Sides  BY DEF Sides, Tokens
<1>3. \A s \in {LT, ST, LF, SF} :
        /\ SideGain(p, s, price) \in Int
        /\ SideGain(q, s, price) = SideGain(p, s, price) + (IF s = side THEN change ELSE 0)
  <2> SUFFICES ASSUME NEW s \in Sides
               PROVE  /\ SideGain(p, s, price) \in Int
                      /\ SideGain(q, s, price) = SideGain(p, s, price) + (IF s = side THEN change ELSE 0)
    BY <1>2
  <2> QED BY SideGainMoves
<1>4. side \in {LT, ST, LF, SF}
  <2>1. key.collateralToken \in {LongToken, ShortToken} /\ key.isLong \in BOOLEAN
    BY KeyFacts DEF Tokens
  <2> QED BY <2>1
<1>5. LT # ST /\ LT # LF /\ LT # SF /\ ST # LF /\ ST # SF /\ LF # SF
  BY ConstantFacts
<1>6. change \in Int  BY <1>1
<1>7. Gains(p, price) = SideGain(p, LT, price) + SideGain(p, ST, price)
                          + SideGain(p, LF, price) + SideGain(p, SF, price)
  BY DEF Gains
<1>8. Gains(q, price) = SideGain(q, LT, price) + SideGain(q, ST, price)
                          + SideGain(q, LF, price) + SideGain(q, SF, price)
  BY DEF Gains
<1>9. Gains(p, price) \in Int /\ Gains(q, price) = Gains(p, price) + change
  <2> HIDE DEF LT, ST, LF, SF, side, change
  <2> QED BY <1>3, <1>4, <1>5, <1>6, <1>7, <1>8
<1>10. Gains(p, price) + change
         = Gains(p, price) + GainOfPosition(new, price, key.isLong)
             - GainOfPosition(p[key], price, key.isLong)
  BY <1>1, <1>9
<1> QED BY <1>1, <1>9, <1>10

\* A quotient that is rounded towards 0 keeps below every integer the dividend allows.
LEMMA QuotientBound ==
  ASSUME NEW a \in Int, NEW b \in Nat \ {0}, NEW bound \in Int, a <= b * bound
  PROVE  Quotient(a, b) \in Int /\ Quotient(a, b) <= bound
<1>0. Quotient(a, b) \in Int  BY QuotientFacts
<1>1. CASE a < 0
  <2>1. PICK n \in Nat : n = -a
    <3>1. -a \in Nat  BY <1>1
    <3> QED BY <3>1
  <2>2. Quotient(a, b) = -(n \div b)  BY <1>1, <2>1 DEF Quotient
  <2>3. PICK q \in Nat : q = n \div b
    <3>1. n \div b \in Nat  BY FloorFacts
    <3> QED BY <3>1
  <2>4. b * q <= n /\ n < b * q + b  BY <2>3, DivisionFacts
  <2>5. SUFFICES ASSUME -q > bound PROVE FALSE  BY <1>0, <2>2, <2>3
  <2>6. PICK k \in Nat : -bound = q + 1 + k
    <3>1. -bound - q - 1 \in Nat /\ -bound = q + 1 + (-bound - q - 1)  BY <2>5
    <3> QED BY <3>1
  <2>7. b * (q + 1 + k) = b * q + b + b * k /\ b * k \in Nat /\ b * q \in Nat  OBVIOUS
  <2>8. b * bound = -(b * (q + 1 + k))
    <3>1. bound = -(q + 1 + k)  BY <2>6
    <3> QED BY <3>1
  <2> QED BY <2>1, <2>4, <2>7, <2>8
<1>2. CASE a >= 0
  <2>1. Quotient(a, b) = a \div b  BY <1>2 DEF Quotient
  <2>2. PICK q \in Nat : q = a \div b
    <3>1. a \div b \in Nat  BY <1>2, FloorFacts
    <3> QED BY <3>1
  <2>3. b * q <= a  BY <2>2, DivisionFacts
  <2>4. SUFFICES ASSUME q > bound PROVE FALSE  BY <1>0, <2>1, <2>2
  <2>5. PICK k \in Nat : q = bound + 1 + k
    <3>1. q - bound - 1 \in Nat /\ q = bound + 1 + (q - bound - 1)  BY <2>4
    <3> QED BY <3>1
  <2>6. b * q = b * bound + b + b * k /\ b * k \in Nat /\ b * bound \in Int  BY <2>5
  <2> QED BY <2>3, <2>6
<1> QED BY <1>1, <1>2

\* A quotient that is multiplied back is the dividend.
LEMMA QuotientOfMultiple ==
  ASSUME NEW a \in Int, NEW b \in Nat \ {0}
  PROVE  Quotient(a * b, b) <= a
<1>1. a * b \in Int /\ a * b <= b * a  OBVIOUS
<1>2. PICK c \in Int : c = a * b  BY <1>1
<1> QED BY <1>1, <1>2, QuotientBound

\* The tokens of a part are rounded against the trader.
LEMMA TokensAreRounded ==
  ASSUME NEW position \in Position, position.sizeInUsd > 0, position.sizeInTokens > 0,
         NEW isLong \in BOOLEAN, NEW size \in Nat, size <= position.sizeInUsd,
         NEW tokens, tokens = SizeDeltaInTokens(position, isLong, size)
  PROVE  /\ tokens \in Nat /\ tokens <= position.sizeInTokens
         /\ isLong => position.sizeInUsd * tokens >= position.sizeInTokens * size
         /\ ~isLong => position.sizeInUsd * tokens <= position.sizeInTokens * size
         /\ size = position.sizeInUsd => tokens = position.sizeInTokens
         /\ ~isLong /\ tokens = position.sizeInTokens => size = position.sizeInUsd
<1>1. PICK S \in Nat \ {0} : S = position.sizeInUsd
  <2>1. position.sizeInUsd \in Nat \ {0}  BY DEF Position
  <2> QED BY <2>1
<1>2. PICK T \in Nat \ {0} : T = position.sizeInTokens
  <2>1. position.sizeInTokens \in Nat \ {0}  BY DEF Position
  <2> QED BY <2>1
<1>3. tokens \in Nat /\ tokens <= T /\ (size = S => tokens = T)
  BY <1>1, <1>2, SizeDeltaInTokensFacts
<1>4. PICK c \in Nat : c = T * size  OBVIOUS
<1>5. tokens = IF size = S THEN T ELSE IF isLong THEN RoundUpDivision(c, S) ELSE c \div S
  BY <1>1, <1>2, <1>4 DEF SizeDeltaInTokens
<1>6. isLong => S * tokens >= c
  <2>0. PICK m \in Nat : m = S * tokens  BY <1>3
  <2>1. CASE size = S
    <3>1. m = S * T  BY <1>3, <2>0, <2>1
    <3>2. c = T * S  BY <1>4, <2>1
    <3>3. S * T = T * S  OBVIOUS
    <3>4. m = c  BY <3>1, <3>2, <3>3
    <3>5. m >= c  BY <3>4
    <3> QED BY <2>0, <3>5
  <2>2. CASE size # S /\ isLong
    <3>1. PICK up \in Nat : up = c + S - 1
      <4>1. c + S - 1 \in Nat  OBVIOUS
      <4> QED BY <4>1
    <3>2. tokens = up \div S  BY <1>5, <2>2, <3>1 DEF RoundUpDivision
    <3>3. up < S * tokens + S  BY <3>2, DivisionFacts
    <3>4. m >= c  BY <2>0, <3>1, <3>3
    <3> QED BY <2>0, <3>4
  <2> QED BY <2>1, <2>2
<1>7. ~isLong => S * tokens <= c
  <2>1. CASE size = S
    <3>1. tokens = T  BY <1>3, <2>1
    <3> QED BY <1>4, <2>1, <3>1
  <2>2. CASE size # S /\ ~isLong
    <3>1. tokens = c \div S  BY <1>5, <2>2
    <3> QED BY <3>1, DivisionFacts
  <2> QED BY <2>1, <2>2
<1>8. ASSUME ~isLong, tokens = T PROVE size = S
  <2>1. S * T <= T * size  BY <1>4, <1>7, <1>8
  <2>2. SUFFICES ASSUME size < S PROVE FALSE  BY <1>1
  <2>3. PICK k \in Nat : S = size + 1 + k
    <3>1. S - size - 1 \in Nat /\ S = size + 1 + (S - size - 1)  BY <2>2
    <3> QED BY <3>1
  <2>4. S * T = T * size + T + T * k /\ T * k \in Nat /\ T * size \in Nat  BY <2>3
  <2> QED BY <2>1, <2>4
<1> QED BY <1>1, <1>2, <1>3, <1>4, <1>6, <1>7, <1>8

\* A part of a gain is not more than the gain.
LEMMA PartOfGain ==
  ASSUME NEW gain \in Nat, NEW part \in Nat, NEW whole \in Nat \ {0}, part <= whole
  PROVE  (gain * part) \div whole \in Nat /\ (gain * part) \div whole <= gain
<1>1. PICK c \in Nat : c = gain * part  OBVIOUS
<1>2. c <= gain * whole  BY <1>1, Multiples
<1>3. PICK q \in Nat : q = c \div whole
  <2>1. c \div whole \in Nat  BY FloorFacts
  <2> QED BY <2>1
<1>4. whole * q <= c  BY <1>3, DivisionFacts
<1>5. SUFFICES ASSUME q > gain PROVE FALSE  BY <1>1, <1>3
<1>6. PICK k \in Nat : q = gain + 1 + k
  <2>1. q - gain - 1 \in Nat /\ q = gain + 1 + (q - gain - 1)  BY <1>5
  <2> QED BY <2>1
<1>7. whole * q = gain * whole + whole + whole * k /\ whole * k \in Nat /\ gain * whole \in Nat
  BY <1>6
<1> QED BY <1>2, <1>4, <1>7

\* The gain that is paid, capped or not, is no more than the gain.
LEMMA TotalPnlIsCovered ==
  ASSUME NEW m \in Market, NEW prices \in Prices, prices.index.min = prices.index.max,
         NEW position \in Position, NEW isLong \in BOOLEAN
  PROVE  /\ GainOfPosition(position, prices.index.max, isLong) \in Int
         /\ TotalPositionPnl(m, prices, position, isLong) \in Int
         /\ TotalPositionPnl(m, prices, position, isLong)
              <= GainOfPosition(position, prices.index.max, isLong)
<1> DEFINE price == prices.index.max
           gain == GainOfPosition(position, price, isLong)
           poolPnl == PoolPnl(m, prices, isLong)
           capped == Least(poolPnl, ApplyFactor(PoolUsd(m, prices, isLong), MaxPnlFactorForTraders))
           total == TotalPositionPnl(m, prices, position, isLong)
<1>0. /\ \A maximize \in BOOLEAN : PriceForPnl(prices.index, isLong, maximize) = price
      /\ price \in Nat
  BY PriceNumbers DEF PriceForPnl
<1>1. gain \in Int
  <2>1. position.sizeInUsd \in Nat /\ position.sizeInTokens \in Nat  BY DEF Position
  <2> QED BY <1>0, <2>1, GainFromPriceFacts DEF GainOfPosition
<1>3. poolPnl \in Int
  <2>2. OpenInterest(m, isLong) \in Nat /\ OpenInterestInTokens(m, isLong) \in Nat
    BY DEF OpenInterest, OpenInterestInTokens, Market, Sides, Tokens
  <2> DEFINE whole == GainOf(OpenInterest(m, isLong), OpenInterestInTokens(m, isLong), price, isLong)
  <2>3. whole \in Int  BY <1>0, <2>2, GainFromPriceFacts
  <2>4. poolPnl = 0 \/ poolPnl = whole  BY <1>0 DEF PoolPnl
  <2> HIDE DEF whole, poolPnl
  <2> QED BY <2>3, <2>4
<1>4. capped \in Int
  <2>1. m.poolAmount[PnlToken(isLong)] \in Nat  BY DEF Market, Amounts, PnlToken, Tokens
  <2>2. TokenPrice(PnlToken(isLong), prices).min \in Nat  BY PriceFacts DEF PriceRange
  <2>3. PoolUsd(m, prices, isLong) \in Nat  BY <2>1, <2>2 DEF PoolUsd
  <2>4. ApplyFactor(PoolUsd(m, prices, isLong), MaxPnlFactorForTraders) \in Nat
    BY <2>3, ConstantFacts, ApplyFactorFacts
  <2> QED BY <1>3, <2>4 DEF Least
<1>5. total = IF gain > 0 /\ poolPnl > 0 /\ 0 < capped /\ capped < poolPnl
              THEN (gain * capped) \div poolPnl ELSE gain
  BY <1>0 DEF TotalPositionPnl, GainOfPosition
<1> HIDE DEF gain, poolPnl, capped, total
<1>6. total \in Int /\ total <= gain
  <2>1. CASE gain > 0 /\ poolPnl > 0 /\ 0 < capped /\ capped < poolPnl
    <3>1. gain \in Nat /\ capped \in Nat /\ poolPnl \in Nat \ {0} /\ capped <= poolPnl
      BY <1>1, <1>3, <1>4, <2>1
    <3>2. (gain * capped) \div poolPnl \in Nat /\ (gain * capped) \div poolPnl <= gain
      BY <3>1, PartOfGain
    <3>3. total = (gain * capped) \div poolPnl  BY <1>5, <2>1
    <3> QED BY <3>2, <3>3
  <2>2. CASE ~(gain > 0 /\ poolPnl > 0 /\ 0 < capped /\ capped < poolPnl)
    <3>1. total = gain  BY <1>5, <2>2
    <3> QED BY <1>1, <3>1
  <2> QED BY <2>1, <2>2
<1> QED BY <1>1, <1>6 DEF gain, total

\* PositionUtils.getPositionPnlUsd: a decrease realizes no more than what the gain
\* of the position falls by, however the parts are rounded.
LEMMA PnlIsCovered ==
  ASSUME NEW m \in Market, NEW prices \in Prices, prices.index.min = prices.index.max,
         NEW position \in Position, position.sizeInUsd > 0, position.sizeInTokens > 0,
         NEW isLong \in BOOLEAN, NEW size \in Nat, size <= position.sizeInUsd,
         NEW rest, rest.sizeInUsd = position.sizeInUsd - size,
         rest.sizeInTokens = position.sizeInTokens - SizeDeltaInTokens(position, isLong, size)
  PROVE  PositionPnlUsd(m, prices, position, isLong, size)
           <= GainOfPosition(position, prices.index.max, isLong)
                - GainOfPosition(Left(rest), prices.index.max, isLong)
<1>1. PICK S \in Nat \ {0} : S = position.sizeInUsd
  <2>1. position.sizeInUsd \in Nat \ {0}  BY DEF Position
  <2> QED BY <2>1
<1>2. PICK T \in Nat \ {0} : T = position.sizeInTokens
  <2>1. position.sizeInTokens \in Nat \ {0}  BY DEF Position
  <2> QED BY <2>1
<1>3. PICK tokens : tokens = SizeDeltaInTokens(position, isLong, size)  OBVIOUS
<1>4. /\ tokens \in Nat /\ tokens <= T
      /\ isLong => S * tokens >= T * size
      /\ ~isLong => S * tokens <= T * size
      /\ size = S => tokens = T
  BY <1>1, <1>2, <1>3, TokensAreRounded
<1>5. PICK price \in Nat : price = prices.index.max
  <2>1. prices.index.max \in Nat  BY PriceNumbers
  <2> QED BY <2>1
<1>6. PICK total \in Int : total = TotalPositionPnl(m, prices, position, isLong)
  BY TotalPnlIsCovered
<1>7. PICK gain \in Int : gain = GainOfPosition(position, price, isLong)
  BY <1>5, TotalPnlIsCovered
<1>8. total <= gain  BY <1>5, <1>6, <1>7, TotalPnlIsCovered
<1>9. PICK pnl : pnl = Quotient(total * tokens, T)  OBVIOUS
<1>10. PositionPnlUsd(m, prices, position, isLong, size) = pnl
  BY <1>2, <1>3, <1>6, <1>9 DEF PositionPnlUsd
<1>11. gain = IF isLong THEN T * price - S ELSE S - T * price
  BY <1>1, <1>2, <1>7 DEF GainOfPosition, GainOf
<1>12. CASE Closes(rest)
  <2>1. tokens = T
    <3>1. S - size = 0 \/ T - tokens = 0  BY <1>1, <1>2, <1>3, <1>12 DEF Closes
    <3> QED BY <1>1, <1>4, <3>1
  <2>2. pnl <= total  BY <1>9, <2>1, QuotientOfMultiple
  <2>3. pnl \in Int
    <3>1. total * T \in Int  OBVIOUS
    <3> QED BY <1>9, <2>1, <3>1, QuotientFacts
  <2>4. GainOfPosition(Left(rest), price, isLong) = 0
    <3>1. Left(rest) = NoPosition  BY <1>12 DEF Left
    <3>2. 0 * price = 0  OBVIOUS
    <3> QED BY <3>1, <3>2, NoPositionFacts DEF GainOfPosition, GainOf
  <2>5. pnl <= gain - 0  BY <1>8, <2>2, <2>3
  <2> QED BY <1>5, <1>7, <1>10, <2>4, <2>5
<1>13. CASE ~Closes(rest)
  <2> DEFINE bound == IF isLong THEN tokens * price - size ELSE size - tokens * price
  <2>1. /\ T * price \in Nat /\ tokens * price \in Nat /\ S * tokens \in Nat /\ T * size \in Nat
        /\ (T - tokens) * price = T * price - tokens * price
    BY <1>4
  <2>2. GainOfPosition(Left(rest), price, isLong)
          = IF isLong THEN (T - tokens) * price - (S - size) ELSE (S - size) - (T - tokens) * price
    <3>1. Left(rest) = rest  BY <1>13 DEF Left
    <3> QED BY <1>1, <1>2, <1>3, <3>1 DEF GainOfPosition, GainOf
  <2>3. bound \in Int  BY <2>1
  <2>4. gain - GainOfPosition(Left(rest), price, isLong) = bound
    <3>1. CASE isLong  BY <1>11, <2>1, <2>2, <3>1
    <3>2. CASE ~isLong  BY <1>11, <2>1, <2>2, <3>2
    <3> QED BY <3>1, <3>2
  <2>5. total * tokens <= gain * tokens /\ total * tokens \in Int /\ gain * tokens \in Int
    <3>1. PICK k \in Nat : gain = total + k
      <4>1. gain - total \in Nat /\ gain = total + (gain - total)  BY <1>8
      <4> QED BY <4>1
    <3>2. gain * tokens = total * tokens + k * tokens /\ k * tokens \in Nat
          /\ total * tokens \in Int
      BY <1>4, <3>1
    <3> QED BY <3>2
  <2>6. gain * tokens <= T * bound
    <3>1. PICK v \in Nat : v = T * price * tokens
      <4>1. T * price * tokens \in Nat  BY <1>4, <2>1
      <4> QED BY <4>1
    <3>2. CASE isLong
      <4>1. gain * tokens = v - S * tokens  BY <1>4, <1>11, <3>1, <3>2
      <4>2. T * bound = v - T * size  BY <1>4, <3>1, <3>2
      <4> QED BY <1>4, <2>1, <3>2, <4>1, <4>2
    <3>3. CASE ~isLong
      <4>1. gain * tokens = S * tokens - v  BY <1>4, <1>11, <3>1, <3>3
      <4>2. T * bound = T * size - v  BY <1>4, <3>1, <3>3
      <4> QED BY <1>4, <2>1, <3>3, <4>1, <4>2
    <3> QED BY <3>2, <3>3
  <2> HIDE DEF bound
  <2>7. PICK c \in Int : c = total * tokens  BY <2>5
  <2>8. c <= T * bound
    <3>1. T * bound \in Int  BY <2>3
    <3> QED BY <2>5, <2>6, <2>7, <3>1
  <2>9. pnl <= bound  BY <1>9, <2>3, <2>7, <2>8, QuotientBound
  <2> QED BY <1>5, <1>7, <1>10, <2>4, <2>9
<1> QED BY <1>12, <1>13

\* A side without a size has no tokens, and the reverse.
LEMMA SidesAreSized ==
  ASSUME NEW p \in [PositionKeys -> Position], NEW s \in Sides,
         \A k \in PositionKeys : p[k].sizeInUsd = 0 <=> p[k].sizeInTokens = 0
  PROVE  /\ SizesOf(p, s) \in Nat /\ TokensOf(p, s) \in Nat
         /\ SizesOf(p, s) = 0 <=> TokensOf(p, s) = 0
<1> DEFINE sizes == [k \in PositionKeys |-> p[k].sizeInUsd]
           tokens == [k \in PositionKeys |-> p[k].sizeInTokens]
           S == KeysOf(s)
<1>1. IsFiniteSet(S) /\ S \subseteq PositionKeys  BY KeysFacts
<1>2. /\ \A k \in S : sizes[k] \in Nat /\ tokens[k] \in Nat
      /\ \A k \in S : sizes[k] = 0 <=> tokens[k] = 0
  BY <1>1 DEF Position
<1>3. SizesOf(p, s) = SumFunctionOnSet(sizes, S) /\ TokensOf(p, s) = SumFunctionOnSet(tokens, S)
  BY DEF SizesOf, TokensOf
<1> HIDE DEF sizes, tokens, S
<1>4. /\ SumFunctionOnSet(sizes, S) \in Nat
      /\ \A k \in S : sizes[k] <= SumFunctionOnSet(sizes, S)
  BY <1>1, <1>2, SumBounds
<1>5. /\ SumFunctionOnSet(tokens, S) \in Nat
      /\ \A k \in S : tokens[k] <= SumFunctionOnSet(tokens, S)
  BY <1>1, <1>2, SumBounds
<1>6. ASSUME SumFunctionOnSet(sizes, S) = 0  PROVE SumFunctionOnSet(tokens, S) = 0
  <2>1. \A k \in S : tokens[k] = 0  BY <1>2, <1>4, <1>6
  <2> QED BY <1>1, <2>1, SumZero
<1>7. ASSUME SumFunctionOnSet(tokens, S) = 0  PROVE SumFunctionOnSet(sizes, S) = 0
  <2>1. \A k \in S : sizes[k] = 0  BY <1>2, <1>5, <1>7
  <2> QED BY <1>1, <2>1, SumZero
<1> QED BY <1>3, <1>4, <1>5, <1>6, <1>7

PnlOfBoth(interest1, tokens1, interest2, tokens2, price, isLong) ==
  IF interest1 + interest2 = 0 \/ tokens1 + tokens2 = 0 THEN 0
  ELSE GainOf(interest1 + interest2, tokens1 + tokens2, price, isLong)

\* The totals of a side, of positions of this size and with these tokens.
Totals(size, tokens, interest, isLong) ==
  /\ size \in Nat /\ tokens \in Nat /\ interest \in Nat
  /\ interest >= size /\ (~isLong => interest = size)
  /\ size = 0 <=> tokens = 0

\* The gain computed from the totals of two sides is no more than the gains of them.
LEMMA TwoSidesAreCovered ==
  ASSUME NEW price \in Nat, NEW isLong \in BOOLEAN,
         NEW size1, NEW tokens1, NEW interest1, Totals(size1, tokens1, interest1, isLong),
         NEW size2, NEW tokens2, NEW interest2, Totals(size2, tokens2, interest2, isLong)
  PROVE  /\ PnlOfBoth(interest1, tokens1, interest2, tokens2, price, isLong) \in Int
         /\ GainOf(size1, tokens1, price, isLong) \in Int
         /\ GainOf(size2, tokens2, price, isLong) \in Int
         /\ PnlOfBoth(interest1, tokens1, interest2, tokens2, price, isLong)
              <= GainOf(size1, tokens1, price, isLong) + GainOf(size2, tokens2, price, isLong)
<1>0. /\ size1 \in Nat /\ tokens1 \in Nat /\ interest1 \in Nat
      /\ size2 \in Nat /\ tokens2 \in Nat /\ interest2 \in Nat
      /\ interest1 >= size1 /\ interest2 >= size2
      /\ ~isLong => interest1 = size1 /\ interest2 = size2
      /\ size1 = 0 <=> tokens1 = 0
      /\ size2 = 0 <=> tokens2 = 0
  BY DEF Totals
<1>1. PICK usd1 \in Nat, usd2 \in Nat : usd1 = tokens1 * price /\ usd2 = tokens2 * price
  <2>1. tokens1 * price \in Nat /\ tokens2 * price \in Nat  BY <1>0
  <2> QED BY <2>1
<1>2. (tokens1 + tokens2) * price = usd1 + usd2  BY <1>0, <1>1
<1>3. /\ GainOf(size1, tokens1, price, isLong) = IF isLong THEN usd1 - size1 ELSE size1 - usd1
      /\ GainOf(size2, tokens2, price, isLong) = IF isLong THEN usd2 - size2 ELSE size2 - usd2
  BY <1>1 DEF GainOf
<1>4. PICK pnl : pnl = PnlOfBoth(interest1, tokens1, interest2, tokens2, price, isLong)  OBVIOUS
<1>5. CASE interest1 + interest2 = 0 \/ tokens1 + tokens2 = 0
  <2>1. size1 = 0 /\ size2 = 0 /\ tokens1 = 0 /\ tokens2 = 0  BY <1>0, <1>5
  <2>2. usd1 = 0 /\ usd2 = 0  BY <1>1, <2>1
  <2>3. pnl = 0  BY <1>4, <1>5 DEF PnlOfBoth
  <2> QED BY <1>3, <1>4, <2>1, <2>2, <2>3
<1>6. CASE ~(interest1 + interest2 = 0 \/ tokens1 + tokens2 = 0)
  <2>1. pnl = IF isLong THEN (usd1 + usd2) - (interest1 + interest2)
                        ELSE (interest1 + interest2) - (usd1 + usd2)
    BY <1>2, <1>4, <1>6 DEF PnlOfBoth, GainOf
  <2>2. CASE isLong   BY <1>0, <1>3, <1>4, <2>1, <2>2
  <2>3. CASE ~isLong  BY <1>0, <1>3, <1>4, <2>1, <2>3
  <2> QED BY <2>2, <2>3
<1> QED BY <1>5, <1>6

\* The same of the gain of all traders, as the market computes it.
LEMMA PoolPnlIsCovered ==
  ASSUME NEW m \in Market, NEW p \in [PositionKeys -> Position], NEW prices \in Prices,
         prices.index.min = prices.index.max,
         \A k \in PositionKeys : p[k].sizeInUsd = 0 <=> p[k].sizeInTokens = 0,
         \A s \in Sides : /\ m.openInterest[s] >= SizesOf(p, s)
                          /\ m.openInterestInTokens[s] = TokensOf(p, s),
         \A t \in Tokens : m.openInterest[<<t, FALSE>>] = SizesOf(p, <<t, FALSE>>)
  PROVE  /\ PoolPnl(m, prices, TRUE) \in Int /\ PoolPnl(m, prices, FALSE) \in Int
         /\ Gains(p, prices.index.max) \in Int
         /\ PoolPnl(m, prices, TRUE) + PoolPnl(m, prices, FALSE) <= Gains(p, prices.index.max)
<1>1. PICK price \in Nat : price = prices.index.max
  <2>1. prices.index.max \in Nat  BY PriceNumbers
  <2> QED BY <2>1
<1>2. ASSUME NEW isLong \in BOOLEAN
      PROVE  /\ PoolPnl(m, prices, isLong) \in Int
             /\ SideGain(p, <<LongToken, isLong>>, price) \in Int
             /\ SideGain(p, <<ShortToken, isLong>>, price) \in Int
             /\ PoolPnl(m, prices, isLong) <= SideGain(p, <<LongToken, isLong>>, price)
                                               + SideGain(p, <<ShortToken, isLong>>, price)
  <2>1. PICK one, two : one = <<LongToken, isLong>> /\ two = <<ShortToken, isLong>>  OBVIOUS
  <2>2. one \in Sides /\ two \in Sides /\ one[2] = isLong /\ two[2] = isLong
    BY <2>1 DEF Sides, Tokens
  <2>3. /\ SizesOf(p, one) \in Nat /\ TokensOf(p, one) \in Nat
        /\ SizesOf(p, one) = 0 <=> TokensOf(p, one) = 0
    BY <2>2, SidesAreSized
  <2>4. /\ SizesOf(p, two) \in Nat /\ TokensOf(p, two) \in Nat
        /\ SizesOf(p, two) = 0 <=> TokensOf(p, two) = 0
    BY <2>2, SidesAreSized
  <2>5. /\ m.openInterest[one] \in Nat /\ m.openInterest[one] >= SizesOf(p, one)
        /\ m.openInterest[two] \in Nat /\ m.openInterest[two] >= SizesOf(p, two)
    BY <2>2 DEF Market
  <2>6. ~isLong => m.openInterest[one] = SizesOf(p, one) /\ m.openInterest[two] = SizesOf(p, two)
    BY <2>1 DEF Tokens
  <2>7. PoolPnl(m, prices, isLong)
          = PnlOfBoth(m.openInterest[one], TokensOf(p, one), m.openInterest[two], TokensOf(p, two),
                      price, isLong)
    <3>1. OpenInterest(m, isLong) = m.openInterest[one] + m.openInterest[two]
      BY <2>1 DEF OpenInterest
    <3>2. OpenInterestInTokens(m, isLong) = TokensOf(p, one) + TokensOf(p, two)
      BY <2>1, <2>2 DEF OpenInterestInTokens
    <3>3. PriceForPnl(prices.index, isLong, TRUE) = price  BY <1>1 DEF PriceForPnl
    <3> QED BY <3>1, <3>2, <3>3 DEF PoolPnl, PnlOfBoth
  <2>8. /\ SideGain(p, one, price) = GainOf(SizesOf(p, one), TokensOf(p, one), price, isLong)
        /\ SideGain(p, two, price) = GainOf(SizesOf(p, two), TokensOf(p, two), price, isLong)
    BY <2>2 DEF SideGain
  <2>9. /\ PoolPnl(m, prices, isLong) \in Int
        /\ SideGain(p, one, price) \in Int /\ SideGain(p, two, price) \in Int
        /\ PoolPnl(m, prices, isLong) <= SideGain(p, one, price) + SideGain(p, two, price)
    <3>1. /\ Totals(SizesOf(p, one), TokensOf(p, one), m.openInterest[one], isLong)
          /\ Totals(SizesOf(p, two), TokensOf(p, two), m.openInterest[two], isLong)
      BY <2>3, <2>4, <2>5, <2>6 DEF Totals
    <3> QED BY <2>7, <2>8, <3>1, TwoSidesAreCovered
  <2> QED BY <2>1, <2>9
<1>3. Gains(p, price) = SideGain(p, <<LongToken, TRUE>>, price) + SideGain(p, <<ShortToken, TRUE>>, price)
                          + SideGain(p, <<LongToken, FALSE>>, price) + SideGain(p, <<ShortToken, FALSE>>, price)
  BY DEF Gains
<1>4. /\ PoolPnl(m, prices, TRUE) \in Int
      /\ SideGain(p, <<LongToken, TRUE>>, price) \in Int
      /\ SideGain(p, <<ShortToken, TRUE>>, price) \in Int
      /\ PoolPnl(m, prices, TRUE) <= SideGain(p, <<LongToken, TRUE>>, price)
                                     + SideGain(p, <<ShortToken, TRUE>>, price)
  BY <1>2
<1>5. /\ PoolPnl(m, prices, FALSE) \in Int
      /\ SideGain(p, <<LongToken, FALSE>>, price) \in Int
      /\ SideGain(p, <<ShortToken, FALSE>>, price) \in Int
      /\ PoolPnl(m, prices, FALSE) <= SideGain(p, <<LongToken, FALSE>>, price)
                                      + SideGain(p, <<ShortToken, FALSE>>, price)
  BY <1>2
<1>6. PICK a, b, c, d, long, short :
        /\ a = SideGain(p, <<LongToken, TRUE>>, price) /\ b = SideGain(p, <<ShortToken, TRUE>>, price)
        /\ c = SideGain(p, <<LongToken, FALSE>>, price) /\ d = SideGain(p, <<ShortToken, FALSE>>, price)
        /\ long = PoolPnl(m, prices, TRUE) /\ short = PoolPnl(m, prices, FALSE)
  OBVIOUS
<1>7. /\ a \in Int /\ b \in Int /\ c \in Int /\ d \in Int /\ long \in Int /\ short \in Int
      /\ long <= a + b /\ short <= c + d
  BY <1>4, <1>5, <1>6
<1>8. long + short <= a + b + c + d  BY <1>7
<1>9. Gains(p, price) = a + b + c + d  BY <1>3, <1>6
<1>10. Gains(p, price) \in Int /\ long + short <= Gains(p, price)  BY <1>7, <1>8, <1>9
<1> QED BY <1>1, <1>6, <1>7, <1>10

-----------------------------------------------------------------------------
(* What a trade does to the books besides.                                  *)

\* No loss is counted in between.
SameLosses(x, y) ==
  /\ y.history.roundedLosses = x.history.roundedLosses
  /\ y.history.insolvent = x.history.insolvent

\* What accrues may only lower the impact pool.
LEMMA AccrueIsWorth ==
  ASSUME market \in Market, NEW e \in Environment, NEW m, m = Accrue(e), NEW p \in Prices
  PROVE  Worth(market, p) \in Int /\ Worth(m, p) \in Int /\ Worth(m, p) >= Worth(market, p)
<1>1. m \in Market  BY AccrueFacts
<1>2. Worth(market, p) \in Int /\ Worth(m, p) \in Int  BY <1>1, MarketIsBooks, WorthTypes
<1>3. m.poolAmount = market.poolAmount  BY DEF Accrue, Market
<1>4. PICK k \in Nat : market.positionImpactPool = m.positionImpactPool + k
  <2> DEFINE before == market.positionImpactPool
             distributable == IF before > MinPositionImpactPool
                              THEN before - MinPositionImpactPool ELSE 0
             k == Least(e.distribution, distributable)
  <2>1. m.positionImpactPool = before - k  BY DEF Accrue, Market
  <2>2. before \in Nat /\ e.distribution \in Nat /\ MinPositionImpactPool \in Nat
    BY PositionsAssumption DEF Market, Environment
  <2> HIDE DEF before
  <2>3. distributable \in Nat  BY <2>2
  <2> HIDE DEF distributable
  <2>4. k \in Nat  BY <2>2, <2>3 DEF Least
  <2> HIDE DEF k
  <2>5. before = m.positionImpactPool + k  BY <2>1, <2>2, <2>4
  <2> QED BY <2>4, <2>5 DEF before
<1>5. m.positionImpactPool \in Nat /\ p.index.max \in Nat
  BY <1>1, PriceNumbers DEF Market
<1>6. market.positionImpactPool * p.index.max
        = m.positionImpactPool * p.index.max + k * p.index.max
      /\ k * p.index.max \in Nat /\ m.positionImpactPool * p.index.max \in Nat
  BY <1>4, <1>5
<1>7. PICK a \in Int, b \in Int :
        a = m.poolAmount[LongToken] * p.long.min /\ b = m.poolAmount[ShortToken] * p.short.min
  <2>1. m.poolAmount[LongToken] \in Int /\ m.poolAmount[ShortToken] \in Int
    BY <1>1, MarketIsBooks, WorthTypes
  <2>2. p.long.min \in Int /\ p.short.min \in Int  BY PriceNumbers
  <2>3. m.poolAmount[LongToken] * p.long.min \in Int /\ m.poolAmount[ShortToken] * p.short.min \in Int
    BY <2>1, <2>2
  <2> QED BY <2>3
<1>8. Worth(m, p) = a + b - m.positionImpactPool * p.index.max
  BY <1>7 DEF Worth
<1>9. Worth(market, p) = a + b - market.positionImpactPool * p.index.max
  BY <1>3, <1>7 DEF Worth
<1> QED BY <1>2, <1>6, <1>8, <1>9

\* Funding that is claimed later moves nothing in the pool.
LEMMA CreditFundingLeaves ==
  ASSUME NEW x \in Working, NEW account \in Accounts, NEW claim \in Amounts,
         NEW y, y = CreditFunding(x, account, claim)
  PROVE  SamePools(x.market, y.market) /\ SameLosses(x, y)
BY DEF CreditFunding, Working, Books, History, SamePools, SameLosses

\* Nor does the affiliate's reward.
LEMMA RewardAffiliateLeaves ==
  ASSUME NEW x \in Working, NEW d, Deal(d), NEW y, y = RewardAffiliate(x, d)
  PROVE  SamePools(x.market, y.market) /\ SameLosses(x, y)
BY DEF RewardAffiliate, Working, Books, History, SamePools, SameLosses

\* Nor do the totals, when they follow a position.
LEMMA FollowLeaves ==
  ASSUME NEW m \in Books, NEW key, NEW old, NEW new, NEW size, NEW tokens,
         NEW n, n = Follow(m, key, old, new, size, tokens)
  PROVE  SamePools(m, n)
BY DEF Follow, Books, SamePools

\* Nor does what goes out.
LEMMA PaidOutLeaves ==
  ASSUME NEW x \in Working, NEW d, NEW n, n = PaidOut(x, d)
  PROVE  SamePools(x.market, n)
BY DEF PaidOut, Working, Books, SamePools

\* The swap of the output takes nothing from the pool.
LEMMA SwapOutputIsWorth ==
  ASSUME NEW x \in Working, NEW d, Priced(d), NEW y, y = SwapOutput(x, d)
  PROVE  y \in Working /\ SameLosses(x, y) /\ Value(y, d.prices) >= Value(x, d.prices)
<1> DEFINE p == d.prices
           swap == SwapInMarket(x.market, d.token, x.output, d.pnlToken, p)
           swaps == d.swap = "SwapCollateralTokenToPnlToken" /\ d.swapWorks /\ swap.succeeds
<1>1. y \in Working /\ y.history = x.history  BY SwapOutputFacts DEF Priced
<1>2. /\ p \in Prices /\ x.market \in Books /\ x.output \in Nat
      /\ d.token \in Tokens /\ d.pnlToken \in Tokens
  BY PricedFacts DEF Working
<1>3. Worth(swap.market, p) >= Worth(x.market, p)
  BY <1>2, SwapIsWorth
<1>4. y.market = x.market \/ y.market = swap.market
  <2> HIDE DEF swap
  <2>1. y = IF swaps THEN [x EXCEPT !.market = swap.market, !.output = 0, !.secondary = @ + swap.out]
                     ELSE x
    BY DEF SwapOutput, swap
  <2> QED BY <2>1 DEF Working
<1> HIDE DEF swap
<1>5. /\ Worth(y.market, p) \in Int /\ Worth(x.market, p) \in Int
      /\ RoundedUsd(x.history, p) \in Int
  BY <1>1, <1>2, ValueTypes
<1>6. Worth(y.market, p) >= Worth(x.market, p)  BY <1>3, <1>4, <1>5
<1> QED BY <1>1, <1>5, <1>6 DEF Value, SameLosses

\* The books after a decrease that has been paid for.
Decreased(y, key, old, new, rest, d, paid, e) ==
  /\ key \in PositionKeys /\ old \in Position /\ new \in Position /\ e \in Environment
  /\ Deal(d) /\ paid \in Working /\ rest \in Position /\ rest.collateralAmount = paid.collateral
  /\ y = DecreasedBooks(key, old, new, rest, d, paid, e)

\* After a decrease the pool is as processCollateral has left it.
LEMMA DecreasedBooksIsWorth ==
  ASSUME NEW y, NEW key, NEW old, NEW new, NEW rest, NEW d, NEW paid, NEW e,
         Decreased(y, key, old, new, rest, d, paid, e)
  PROVE  /\ y \in Working /\ SamePools(paid.market, y.market) /\ SameLosses(paid, y)
         /\ \A s \in Sides : y.market.openInterest[s] = paid.market.openInterest[s]
              + (IF s = <<key.collateralToken, key.isLong>>
                 THEN rest.sizeInUsd - old.sizeInUsd ELSE 0)
<1> DEFINE claim == FundingClaim(old, e)
           c == CreditFunding(paid, key.account, claim)
           n == Follow(c.market, key, old, new, rest.sizeInUsd, rest.sizeInTokens)
           output == IF Closes(rest) THEN c.output + rest.collateralAmount ELSE c.output
           f == [c EXCEPT !.market = n, !.output = output]
<1> USE DEF Decreased
<1>1. key.account \in Accounts /\ claim \in Amounts  BY KeyFacts, FundingFacts
<1>2. y = RewardAffiliate(f, d)  BY DEF DecreasedBooks
<1>3. c = CreditFunding(paid, key.account, claim)  OBVIOUS
<1> HIDE DEF claim, c
<1>4. Funded(paid, c) /\ c \in Working /\ SamePools(paid.market, c.market) /\ SameLosses(paid, c)
  BY <1>1, <1>3, CreditFundingFacts, CreditFundingLeaves DEF Funded
<1>5. c.market \in Books /\ rest.sizeInUsd \in Nat /\ rest.sizeInTokens \in Nat
      /\ rest.collateralAmount \in Nat
  BY <1>4 DEF Working, Position
<1>6. /\ n \in Books /\ SamePools(c.market, n)
      /\ Followed(c.market, n, key, old, new, rest.sizeInUsd, rest.sizeInTokens)
  BY <1>5, FollowFacts, FollowLeaves
<1>7. output \in Nat  BY <1>4, <1>5 DEF Working
<1> HIDE DEF n, output
<1>8. f \in Working /\ f.market = n /\ f.history = c.history
  BY <1>4, <1>6, <1>7 DEF Working
<1> HIDE DEF f
<1>9. /\ y \in Working /\ Untouched(n, y.market)
      /\ SamePools(n, y.market) /\ SameLosses(f, y)
  BY <1>2, <1>8, RewardAffiliateFacts, RewardAffiliateLeaves
<1>10. SamePools(paid.market, y.market) /\ SameLosses(paid, y)
  BY <1>4, <1>6, <1>8, <1>9 DEF SamePools, SameLosses
<1>11. c.market.openInterest = paid.market.openInterest /\ y.market.openInterest = n.openInterest
  BY <1>4, <1>9 DEF Funded, Untouched
<1> QED BY <1>6, <1>9, <1>10, <1>11 DEF Followed

\* Positive impact is no more than the impact pool is worth.
LEMMA CappedImpactIsThere ==
  ASSUME NEW m \in Market, NEW prices \in Prices, NEW impactUsd \in Int, NEW size \in Nat,
         NEW c, c = CappedImpactUsd(m, prices, impactUsd, size)
  PROVE  c \in Int /\ (c > 0 => c <= m.positionImpactPool * prices.index.min)
<1> DEFINE pool == m.positionImpactPool * prices.index.min
           factor == Least(MaxPositionImpactFactor[TRUE], MaxPositionImpactFactor[FALSE])
           limit == ApplyFactor(size, factor)
<1>1. pool \in Nat
  <2>1. m.positionImpactPool \in Nat /\ prices.index.min \in Nat
    BY DEF Market, Prices, PriceRange
  <2> QED BY <2>1
<1>2. factor \in Nat  BY ConstantFacts DEF Least
<1>3. limit \in Nat
  <2> HIDE DEF factor
  <2> QED BY <1>2, ApplyFactorFacts
<1>4. c = IF impactUsd < 0 THEN impactUsd ELSE Least(Least(impactUsd, pool), limit)
  BY DEF CappedImpactUsd
<1> HIDE DEF pool, factor, limit
<1>5. c \in Int /\ (c > 0 => c <= pool)  BY <1>1, <1>3, <1>4 DEF Least
<1> QED BY <1>5 DEF pool

\* So it is for a decrease.
LEMMA ImpactForDecreaseIsThere ==
  ASSUME NEW m \in Market, NEW prices \in Prices, NEW impactUsd \in Int, NEW size \in Nat,
         NEW impact, impact = ImpactForDecrease(m, prices, impactUsd, size)
  PROVE  impact.usd > 0 => impact.usd <= m.positionImpactPool * prices.index.min
<1> DEFINE capped == CappedImpactUsd(m, prices, impactUsd, size)
           limit == ApplyFactor(size, MaxPositionImpactFactor[FALSE])
<1>1. capped \in Int /\ (capped > 0 => capped <= m.positionImpactPool * prices.index.min)
  BY CappedImpactIsThere
<1>2. limit \in Nat
  <2>1. MaxPositionImpactFactor[FALSE] \in Nat  BY ConstantFacts
  <2> QED BY <2>1, ApplyFactorFacts
<1>3. impact = IF size = 0 THEN [usd |-> 0, diffUsd |-> 0]
               ELSE IF capped < -limit THEN [usd |-> -limit, diffUsd |-> -limit - capped]
               ELSE [usd |-> capped, diffUsd |-> 0]
  BY DEF ImpactForDecrease
<1> HIDE DEF capped, limit
<1>4. CASE size = 0
  <2>1. impact.usd = 0  BY <1>3, <1>4
  <2> QED BY <2>1
<1>5. CASE size # 0 /\ capped < -limit
  <2>1. impact.usd = -limit  BY <1>3, <1>5
  <2>2. ~(-limit > 0)  BY <1>2
  <2> QED BY <2>1, <2>2
<1>6. CASE size # 0 /\ ~(capped < -limit)
  <2>1. impact.usd = capped  BY <1>3, <1>6
  <2> QED BY <1>1, <2>1
<1> QED BY <1>4, <1>5, <1>6

\* What a decrease takes of a position, and what it leaves.
Takes(order, m, position, e, adjusted, d, paid, rest) ==
  /\ Asks(order) /\ m \in Market /\ position \in Position /\ e \in Environment
  /\ position.sizeInUsd > 0 /\ position.sizeInTokens > 0
  /\ adjusted.sizeDeltaUsd \in Nat /\ adjusted.sizeDeltaUsd <= position.sizeInUsd
  /\ d = Terms(order, adjusted, m, position, e) /\ Deal(d)
  /\ rest = Rest(m, order.key, position, d, paid)

\* The terms of a decrease: the impact is there, and the profit is covered by what the
\* gain of the position falls by.
LEMMA TermsAreCovered ==
  ASSUME NEW order, NEW m, NEW position, NEW e, NEW adjusted, NEW d, NEW paid, NEW rest,
         Takes(order, m, position, e, adjusted, d, paid, rest),
         e.prices.index.min = e.prices.index.max
  PROVE  /\ Priced(d) /\ d.prices = e.prices /\ ImpactIsThere(m, d)
         /\ d.pnlUsd <= GainOfPosition(position, e.prices.index.max, order.key.isLong)
                          - GainOfPosition(Left(rest), e.prices.index.max, order.key.isLong)
         /\ ~order.key.isLong /\ Closes(rest) => rest.sizeInUsd = 0
<1> DEFINE isLong == order.key.isLong
           size == adjusted.sizeDeltaUsd
           tokens == SizeDeltaInTokens(position, isLong, size)
           impact == ImpactForDecrease(m, e.prices, e.impactUsd, size)
           pnlUsd == PositionPnlUsd(m, e.prices, position, isLong, size)
<1> USE DEF Takes
<1>1. isLong \in BOOLEAN /\ e.prices \in Prices /\ e.impactUsd \in Int
  BY KeyFacts DEF Asks, Environment, Prices
<1>2. /\ d.token = order.key.collateralToken /\ d.pnlToken = PnlToken(isLong)
      /\ d.prices = e.prices
      /\ d.price = TokenPrice(order.key.collateralToken, e.prices)
      /\ d.pnlPrice = TokenPrice(PnlToken(isLong), e.prices)
      /\ d.sizeDeltaUsd = size /\ d.tokens = tokens
      /\ d.impact = impact /\ d.pnlUsd = pnlUsd
  BY DEF Terms
<1> HIDE DEF impact, pnlUsd, tokens
<1>3. Priced(d)  BY <1>2 DEF Priced
<1>4. ImpactIsThere(m, d)
  <2>1. impact.usd > 0 => impact.usd <= m.positionImpactPool * e.prices.index.min
    BY <1>1, ImpactForDecreaseIsThere DEF impact
  <2> QED BY <1>2, <2>1 DEF ImpactIsThere
<1>5. rest.sizeInUsd = position.sizeInUsd - size /\ rest.sizeInTokens = position.sizeInTokens - tokens
  BY <1>2 DEF Rest
<1>6. pnlUsd <= GainOfPosition(position, e.prices.index.max, isLong)
                  - GainOfPosition(Left(rest), e.prices.index.max, isLong)
  BY <1>1, <1>5, PnlIsCovered DEF pnlUsd, tokens
<1>7. ASSUME ~isLong, Closes(rest)  PROVE rest.sizeInUsd = 0
  <2>1. /\ tokens \in Nat /\ (size = position.sizeInUsd => tokens = position.sizeInTokens)
        /\ tokens = position.sizeInTokens => size = position.sizeInUsd
    BY <1>1, <1>7, TokensAreRounded DEF tokens
  <2>2. position.sizeInUsd \in Nat /\ position.sizeInTokens \in Nat  BY DEF Position
  <2> QED BY <1>5, <1>7, <2>1, <2>2 DEF Closes
<1> QED BY <1>2, <1>3, <1>4, <1>6, <1>7

-----------------------------------------------------------------------------
(* While prices stand still.                                                *)

\* One index price, and the same prices with every order.
StandStill(p) ==
  /\ p \in Prices /\ p.index.min = p.index.max
  /\ \A e \in Environments : e.prices = p

\* What the books are worth at first.
InitialWorth(p) ==
  InitialPool[LongToken] * p.long.min + InitialPool[ShortToken] * p.short.min
    - InitialImpactPool * p.index.max

\* The totals of the shorts leave nothing behind.
ShortsExact(m, q) == \A t \in Tokens : m.openInterest[<<t, FALSE>>] = SizesOf(q, <<t, FALSE>>)

\* What the books are worth covers what the positions would gain, besides what
\* they were worth at first.
Backed(m, h, q, p) ==
  ~h.insolvent => Worth(m, p) + RoundedUsd(h, p) >= InitialWorth(p) + Gains(q, p.index.max)

\* What they are worth at first is a number.
LEMMA InitialWorthType ==
  ASSUME NEW p \in Prices PROVE InitialWorth(p) \in Int
<1>1. /\ InitialPool[LongToken] \in Nat /\ InitialPool[ShortToken] \in Nat
      /\ InitialImpactPool \in Nat
  BY PositionsAssumption DEF Tokens
<1>2. p.long.min \in Nat /\ p.short.min \in Nat /\ p.index.max \in Nat
  BY PriceNumbers
<1> QED BY <1>1, <1>2 DEF InitialWorth

\* What a decrease, a liquidation or an ADL order pays to its trader is covered by
\* what the gain of the position falls by, unless it is insolvent.
LEMMA DecreaseKeepsValue ==
  ASSUME NEW p, StandStill(p), Inv, ShortsExact(market, positions),
         Backed(market, history, positions, p),
         NEW order, Asks(order), order.ui \in BOOLEAN, NEW isLiquidationOrAdl,
         NEW e \in Environments, Decrease(order, isLiquidationOrAdl, e)
  PROVE  ShortsExact(market', positions') /\ Backed(market', history', positions', p)
<1>1. PICK accrued, old, adjusted, d :
        /\ accrued = Accrue(e) /\ old = positions[order.key]
        /\ adjusted = AdjustedTerms(order, old, e)
        /\ d = Terms(order, adjusted, accrued, old, e)
        /\ Ends(order, isLiquidationOrAdl, e, accrued, old, d)
  BY DecreaseFacts
<1>2. PICK paid, rest, new, books, swapped, next :
        /\ paid = ProcessCollateral(Start(accrued, old), d)
        /\ rest = Rest(accrued, order.key, old, d, paid)
        /\ new = Left(rest)
        /\ books = DecreasedBooks(order.key, old, new, rest, d, paid, e)
        /\ swapped = SwapOutput(books, d)
        /\ next = PaidOut(swapped, d)
        /\ NonNegative(next) /\ Commits(order, paid, rest, new, swapped, next)
  BY <1>1, EndsFacts
<1>3. old # NoPosition /\ e \in Environment
  BY <1>1, DecreaseFacts, PositionsAssumption
<1> DEFINE key == order.key
           price == p.index.max
<1>4. /\ market \in Market /\ positions \in [PositionKeys -> Position] /\ history \in History
      /\ key \in PositionKeys
  BY DEF Inv, TypeOK, Asks
<1>5. /\ old \in Position /\ accrued \in Market
      /\ old.sizeInUsd > 0 /\ old.sizeInTokens > 0
      /\ adjusted.sizeDeltaUsd \in Nat /\ adjusted.sizeDeltaUsd <= old.sizeInUsd
      /\ Deal(d)
      /\ Kept(Start(accrued, old), paid, d)
      /\ RestLeft(accrued, key, paid, rest, new)
  <2>1. Named(order, e, accrued, old, adjusted, d, paid, rest, new)
    BY <1>1, <1>2, <1>3 DEF Named
  <2> QED BY <1>3, <2>1, DealFacts
<1>6. p \in Prices /\ p.index.min = p.index.max /\ e.prices = p /\ price \in Nat
  <2>1. p \in Prices /\ p.index.min = p.index.max /\ e.prices = p  BY DEF StandStill
  <2> QED BY <2>1, PriceNumbers
<1>7. /\ Priced(d) /\ d.prices = p /\ ImpactIsThere(accrued, d)
      /\ d.pnlUsd <= GainOfPosition(old, price, key.isLong) - GainOfPosition(new, price, key.isLong)
      /\ ~key.isLong /\ Closes(rest) => rest.sizeInUsd = 0
  <2>1. e.prices.index.min = e.prices.index.max  BY <1>6
  <2>2. rest = Rest(accrued, order.key, old, d, paid)  BY <1>2
  <2>3. d = Terms(order, adjusted, accrued, old, e)  BY <1>1
  <2>5. Takes(order, accrued, old, e, adjusted, d, paid, rest)
    BY <1>3, <1>5, <2>2, <2>3 DEF Takes
  <2>4. /\ Priced(d) /\ d.prices = e.prices /\ ImpactIsThere(accrued, d)
        /\ d.pnlUsd <= GainOfPosition(old, e.prices.index.max, order.key.isLong)
                         - GainOfPosition(Left(rest), e.prices.index.max, order.key.isLong)
        /\ ~order.key.isLong /\ Closes(rest) => rest.sizeInUsd = 0
    BY <2>1, <2>5, TermsAreCovered
  <2> QED BY <1>2, <1>6, <2>4
<1>8. Moved(positions, positions', key, new) /\ new \in Position /\ rest \in Position
  BY <1>2, <1>4, <1>5, MovedFacts DEF Commits, RestLeft
<1>9. PICK x \in Working : /\ x = Start(accrued, old) /\ Solvent(x) /\ x.affiliateReward = 0
                           /\ x.market = accrued /\ x.history = history
  <2>1. Start(accrued, old) \in Working  BY <1>4, <1>5, StartFacts
  <2>2. Solvent(Start(accrued, old)) /\ Start(accrued, old).affiliateReward = 0
        /\ Start(accrued, old).market = accrued /\ Start(accrued, old).history = history
    BY <1>4, <1>5, StartFacts
  <2> QED BY <2>1, <2>2
<1>10. paid \in Working /\ Untouched(accrued, paid.market) /\ SameFlags(history, paid.history)
  BY <1>5, <1>9 DEF Kept
<1>11. Solvent(paid) => Value(paid, p) >= Value(x, p) - d.pnlUsd
  BY <1>2, <1>7, <1>9, ProcessCollateralIsWorth
<1>12. /\ books \in Working /\ SamePools(paid.market, books.market) /\ SameLosses(paid, books)
       /\ \A s \in Sides : books.market.openInterest[s] = paid.market.openInterest[s]
            + (IF s = <<key.collateralToken, key.isLong>>
               THEN rest.sizeInUsd - old.sizeInUsd ELSE 0)
  <2>1. rest.collateralAmount = paid.collateral  BY <1>5 DEF RestLeft
  <2>2. Decreased(books, key, old, new, rest, d, paid, e)
    BY <1>2, <1>3, <1>4, <1>5, <1>8, <1>10, <2>1 DEF Decreased
  <2> HIDE DEF key
  <2> QED BY <2>2, DecreasedBooksIsWorth
<1>13. /\ swapped \in Working /\ SameLosses(books, swapped)
       /\ Value(swapped, p) >= Value(books, p)
  BY <1>2, <1>7, <1>12, SwapOutputIsWorth
<1>14. swapped.history = books.history /\ Untouched(books.market, swapped.market)
  BY <1>2, <1>5, <1>12, SwapOutputFacts
<1>15. /\ SamePools(swapped.market, next) /\ next.openInterest = swapped.market.openInterest
       /\ next \in Books
  BY <1>2, <1>5, <1>13, PaidOutFacts, PaidOutLeaves
<1>16. market' = next /\ market' \in Market
  BY <1>2, <1>15, BooksAreMarket DEF Commits
<1>17. ShortsExact(market', positions')
  <2> SUFFICES ASSUME NEW t \in Tokens
               PROVE  next.openInterest[<<t, FALSE>>] = SizesOf(positions', <<t, FALSE>>)
    BY <1>16 DEF ShortsExact
  <2>1. PICK s \in Sides : s = <<t, FALSE>>  BY DEF Sides
  <2> DEFINE moved == s = <<key.collateralToken, key.isLong>>
  <2>2. next.openInterest[s] = accrued.openInterest[s]
                                 + (IF moved THEN rest.sizeInUsd - old.sizeInUsd ELSE 0)
    BY <1>10, <1>12, <1>14, <1>15 DEF Untouched
  <2>3. accrued.openInterest[s] = SizesOf(positions, s)
    <3>1. accrued.openInterest = market.openInterest  BY <1>1, <1>3, <1>4, AccrueFacts
    <3> QED BY <2>1, <3>1 DEF ShortsExact
  <2>4. SizesOf(positions', s) = SizesOf(positions, s)
                                   + (IF moved THEN new.sizeInUsd - old.sizeInUsd ELSE 0)
    BY <1>1, <1>4, <1>8, SumsMove
  <2>5. moved => new.sizeInUsd = rest.sizeInUsd
    <3> SUFFICES ASSUME moved PROVE new.sizeInUsd = rest.sizeInUsd  OBVIOUS
    <3>1. <<t, FALSE>> = <<key.collateralToken, key.isLong>>  BY <2>1
    <3>2. key.isLong = FALSE  BY <3>1
    <3> QED BY <1>2, <1>7, <3>2, NoPositionFacts DEF Left
  <2> QED BY <2>1, <2>2, <2>3, <2>4, <2>5
<1>18. Backed(market', history', positions', p)
  <2> SUFFICES ASSUME ~history'.insolvent
               PROVE  Worth(next, p) + RoundedUsd(history', p)
                        >= InitialWorth(p) + Gains(positions', price)
    BY <1>16 DEF Backed
  <2>1. /\ history' \in History /\ history'.roundedLosses = swapped.history.roundedLosses
        /\ history'.insolvent <=> swapped.history.insolvent \/ ~Solvent(paid)
    <3> DEFINE h == swapped.history
               insolvent == h.insolvent \/ ~Solvent(paid)
               restDropped == h.restDropped \/ (Closes(rest) /\ rest.sizeInUsd > 0)
               despite == h.paidDespiteDebt \/ (~Solvent(paid) /\ swapped.output + swapped.secondary > 0)
    <3>1. h \in History  BY <1>13 DEF Working
    <3>2. insolvent \in BOOLEAN /\ restDropped \in BOOLEAN /\ despite \in BOOLEAN  OBVIOUS
    <3>3. history' = [h EXCEPT !.insolvent = insolvent, !.restDropped = restDropped,
                               !.paidDespiteDebt = despite]
      BY <1>2 DEF Commits
    <3> HIDE DEF h, insolvent, restDropped, despite
    <3>4. /\ history' \in History /\ history'.roundedLosses = h.roundedLosses
          /\ history'.insolvent = insolvent
      BY <3>1, <3>2, <3>3 DEF History
    <3> QED BY <3>4 DEF h, insolvent
  <2>2. Solvent(paid) /\ ~swapped.history.insolvent  BY <2>1
  <2>3. ~history.insolvent
    <3>1. books.history.insolvent = history.insolvent
      BY <1>10, <1>12 DEF SameFlags, SameLosses
    <3> QED BY <1>14, <2>2, <3>1
  <2>4. Worth(market, p) + RoundedUsd(history, p) >= InitialWorth(p) + Gains(positions, price)
    BY <2>3 DEF Backed
  <2>5. /\ Value(paid, p) >= Value(x, p) - d.pnlUsd
        /\ Value(books, p) = Value(paid, p) /\ Value(swapped, p) >= Value(books, p)
        /\ Worth(next, p) + RoundedUsd(history', p) = Value(swapped, p)
        /\ Value(x, p) = Worth(accrued, p) + RoundedUsd(history, p)
    <3>1. Value(books, p) = Value(paid, p)
      <4>1. paid.history \in History /\ books.history \in History
        BY <1>10, <1>12 DEF Working
      <4> QED BY <1>6, <1>12, <4>1, SameWorth, DustFacts DEF Value, SameLosses
    <3>2. Worth(next, p) + RoundedUsd(history', p) = Value(swapped, p)
      <4>1. swapped.history \in History  BY <1>13 DEF Working
      <4> QED BY <1>6, <1>15, <2>1, <4>1, SameWorth, DustFacts DEF Value
    <3> QED BY <1>9, <1>11, <1>13, <2>2, <3>1, <3>2 DEF Value
  <2>6. /\ Worth(accrued, p) >= Worth(market, p)
        /\ Worth(accrued, p) \in Int /\ Worth(market, p) \in Int
    BY <1>1, <1>3, <1>4, <1>6, AccrueIsWorth
  <2>7. /\ Gains(positions, price) \in Int /\ Gains(positions', price) \in Int
        /\ Gains(positions', price) = Gains(positions, price)
             + GainOfPosition(new, price, key.isLong) - GainOfPosition(old, price, key.isLong)
        /\ GainOfPosition(new, price, key.isLong) \in Int
        /\ GainOfPosition(old, price, key.isLong) \in Int
    BY <1>1, <1>4, <1>6, <1>8, GainsMove
  <2>8. /\ Value(paid, p) \in Int /\ Value(x, p) \in Int /\ Value(books, p) \in Int
        /\ Value(swapped, p) \in Int /\ d.pnlUsd \in Int /\ RoundedUsd(history, p) \in Int
        /\ InitialWorth(p) \in Int
    <3>1. d.pnlUsd \in Int  BY <1>7, PricedFacts
    <3>2. RoundedUsd(history, p) \in Int  BY <1>4, <1>6, DustFacts
    <3>3. InitialWorth(p) \in Int  BY <1>6, InitialWorthType
    <3> QED BY <1>6, <1>9, <1>10, <1>12, <1>13, <3>1, <3>2, <3>3, ValueTypes
  <2> HIDE DEF price, key
  <2> QED BY <1>7, <2>4, <2>5, <2>6, <2>7, <2>8
<1> QED BY <1>17, <1>18

\* A quotient, rounded down or up, against its dividend.
LEMMA RoundedQuotients ==
  ASSUME NEW a \in Nat, NEW b \in Nat \ {0}
  PROVE  /\ a \div b \in Nat /\ (a \div b) * b <= a
         /\ RoundUpDivision(a, b) \in Nat /\ RoundUpDivision(a, b) * b >= a
         /\ a = 0 => RoundUpDivision(a, b) = 0
<1>1. a \div b \in Nat /\ (a \div b) * b <= a  BY FloorIsWorth
<1>2. PICK c \in Nat : c = a + b - 1  OBVIOUS
<1>3. PICK q \in Nat : q = c \div b  BY <1>2, FloorFacts
<1>4. c < (q + 1) * b /\ q * b <= c  BY <1>2, <1>3
<1>5. (q + 1) * b = q * b + b /\ q * b \in Nat  BY <1>3
<1>6. q * b >= a  BY <1>2, <1>4, <1>5
<1>7. a = 0 => q = 0
  <2> SUFFICES ASSUME a = 0, q # 0 PROVE FALSE  OBVIOUS
  <2>1. PICK k \in Nat : q = k + 1  OBVIOUS
  <2>2. q * b = k * b + b /\ k * b \in Nat  BY <2>1
  <2> QED BY <1>2, <1>4, <2>2
<1> QED BY <1>1, <1>2, <1>3, <1>6, <1>7 DEF RoundUpDivision

\* The impact of an increase in index tokens: it is in the impact pool.
LEMMA ImpactAmountIsThere ==
  ASSUME NEW m \in Market, NEW prices \in Prices, prices.index.min = prices.index.max,
         NEW usd \in Int, usd > 0 => usd <= m.positionImpactPool * prices.index.min,
         NEW amount, amount = ImpactAmountForIncrease(prices, usd)
  PROVE  amount \in Int /\ m.positionImpactPool - amount >= 0 /\ (usd = 0 => amount = 0)
<1>1. m.positionImpactPool \in Nat  BY DEF Market
<1>2. PICK index \in Nat \ {0} : index = prices.index.min /\ index = prices.index.max
  BY PriceNumbers
<1>3. CASE usd > 0
  <2>1. PICK q \in Nat : q = usd \div index  BY <1>2, <1>3, FloorFacts
  <2>2. q * index <= usd
    <3>1. usd \in Nat  BY <1>3
    <3> QED BY <2>1, <3>1, RoundedQuotients
  <2>3. q <= m.positionImpactPool
    <3>1. PICK pool \in Nat : pool = m.positionImpactPool  BY <1>1
    <3> SUFFICES ASSUME ~(q <= pool) PROVE FALSE  BY <3>1
    <3>2. q - pool - 1 \in Nat  BY <2>1, <3>1
    <3>3. PICK k \in Nat : q = pool + 1 + k  BY <2>1, <3>1, <3>2
    <3>4. q * index = pool * index + index + k * index /\ k * index \in Nat /\ pool * index \in Nat
      BY <3>1, <3>3
    <3> QED BY <1>2, <1>3, <2>2, <3>1, <3>4
  <2>4. amount = q  BY <1>2, <1>3, <2>1 DEF ImpactAmountForIncrease
  <2> QED BY <1>1, <1>3, <2>3, <2>4
<1>4. CASE usd < 0
  <2>1. PICK lost \in Nat : lost = -usd  BY <1>4
  <2>2. RoundUpDivision(lost, index) \in Nat  BY RoundedQuotients
  <2>3. amount = -RoundUpDivision(lost, index)
    BY <1>2, <1>4, <2>1 DEF ImpactAmountForIncrease, RoundUpMagnitudeDivision
  <2> QED BY <1>1, <1>4, <2>2, <2>3
<1>5. CASE usd = 0
  <2>1. RoundUpDivision(0, index) = 0  BY RoundedQuotients
  <2>2. amount = RoundUpDivision(0, index)
    BY <1>2, <1>5 DEF ImpactAmountForIncrease, RoundUpMagnitudeDivision
  <2> QED BY <1>1, <1>5, <2>1, <2>2
<1> QED BY <1>3, <1>4, <1>5

\* The terms of an increase: the impact is there, and the position gains no more than it.
LEMMA IncreaseIsCovered ==
  ASSUME NEW order, order.key \in PositionKeys, order.sizeDeltaUsd \in Nat,
         NEW m \in Market, NEW old \in Position, NEW e \in Environment,
         e.prices.index.min = e.prices.index.max,
         NEW terms, terms = IncreaseTerms(order, m, old, e),
         NEW new, new = IncreasedPosition(order, m, old, terms)
  PROVE  /\ terms.impactAmount \in Int /\ m.positionImpactPool - terms.impactAmount >= 0
         /\ new.sizeInUsd = old.sizeInUsd + order.sizeDeltaUsd
         /\ GainOfPosition(new, e.prices.index.max, order.key.isLong)
              - GainOfPosition(old, e.prices.index.max, order.key.isLong)
              <= terms.impactAmount * e.prices.index.max
<1> DEFINE size == order.sizeDeltaUsd
           isLong == order.key.isLong
           usd == IF size > 0 THEN CappedImpactUsd(m, e.prices, e.impactUsd, size) ELSE 0
           n == ImpactAmountForIncrease(e.prices, usd)
           tokens == IF size > 0 THEN TokensForIncrease(e.prices, usd, size, isLong) ELSE 0
<1>1. isLong \in BOOLEAN /\ e.prices \in Prices /\ e.impactUsd \in Int
  BY KeyFacts DEF Environment, Prices
<1>2. PICK index \in Nat \ {0} : index = e.prices.index.min /\ index = e.prices.index.max
  BY <1>1, PriceNumbers
<1>3. terms.impactAmount = n /\ terms.tokens = tokens  BY DEF IncreaseTerms
<1>4. /\ new.sizeInUsd = old.sizeInUsd + size
      /\ new.sizeInTokens = old.sizeInTokens + tokens
  BY <1>3 DEF IncreasedPosition
<1>5. usd \in Int /\ (usd > 0 => usd <= m.positionImpactPool * e.prices.index.min)
  <2>1. /\ CappedImpactUsd(m, e.prices, e.impactUsd, size) \in Int
        /\ CappedImpactUsd(m, e.prices, e.impactUsd, size) > 0
             => CappedImpactUsd(m, e.prices, e.impactUsd, size)
                  <= m.positionImpactPool * e.prices.index.min
    BY <1>1, CappedImpactIsThere
  <2> QED BY <2>1
<1>6. size = 0 => usd = 0  OBVIOUS
<1>7. PICK q \in Nat, c \in Nat :
        /\ q = size \div index /\ c = RoundUpDivision(size, index)
        /\ q * index <= size /\ c * index >= size
  BY RoundedQuotients
<1>8. size > 0 => tokens = IF isLong THEN q + n ELSE c - n
  BY <1>2, <1>7 DEF TokensForIncrease
<1>9. size = 0 => tokens = 0  OBVIOUS
<1> HIDE DEF usd
<1>10. n \in Int /\ m.positionImpactPool - n >= 0 /\ (usd = 0 => n = 0)
  BY <1>1, <1>2, <1>5, ImpactAmountIsThere
<1> HIDE DEF n, tokens
<1>11. PICK i \in Int : i = n  BY <1>10
<1>12. PICK s \in Nat, t \in Nat : s = old.sizeInUsd /\ t = old.sizeInTokens  BY DEF Position
<1>13. tokens \in Int
  <2>1. CASE size = 0  BY <1>9, <2>1
  <2>2. CASE size > 0
    <3>1. q + i \in Int /\ c - i \in Int  BY <1>7, <1>11
    <3> QED BY <1>8, <1>11, <2>2, <3>1
  <2> QED BY <2>1, <2>2
<1>14. PICK k \in Int : k = tokens  BY <1>13
<1>15. IF isLong THEN k * index - size <= i * index ELSE size - k * index <= i * index
  <2>1. CASE size = 0
    <3>1. k = 0 /\ i = 0  BY <1>6, <1>9, <1>10, <1>11, <1>14, <2>1
    <3> QED BY <2>1, <3>1
  <2>2. CASE size > 0 /\ isLong
    <3>1. k = q + i  BY <1>8, <1>11, <1>14, <2>2
    <3>2. k * index = q * index + i * index /\ q * index \in Nat /\ i * index \in Int
      BY <1>7, <1>11, <3>1
    <3> QED BY <1>7, <2>2, <3>2
  <2>3. CASE size > 0 /\ ~isLong
    <3>1. k = c - i  BY <1>8, <1>11, <1>14, <2>3
    <3>2. k * index = c * index - i * index /\ c * index \in Nat /\ i * index \in Int
      BY <1>7, <1>11, <3>1
    <3> QED BY <1>7, <2>3, <3>2
  <2> QED BY <2>1, <2>2, <2>3
<1>16. GainOfPosition(new, index, isLong)
         = IF isLong THEN (t + k) * index - (s + size) ELSE (s + size) - (t + k) * index
  BY <1>4, <1>12, <1>14 DEF GainOfPosition, GainOf
<1>17. GainOfPosition(old, index, isLong) = IF isLong THEN t * index - s ELSE s - t * index
  BY <1>12 DEF GainOfPosition, GainOf
<1>18. (t + k) * index = t * index + k * index /\ t * index \in Int /\ k * index \in Int
       /\ i * index \in Int
  BY <1>11, <1>12, <1>14
<1> HIDE DEF isLong, size
<1>19. size \in Nat  BY DEF size
<1>20. GainOfPosition(new, index, isLong) - GainOfPosition(old, index, isLong) <= i * index
  <2>1. CASE isLong  BY <1>15, <1>16, <1>17, <1>18, <1>19, <1>12, <2>1
  <2>2. CASE ~isLong  BY <1>15, <1>16, <1>17, <1>18, <1>19, <1>12, <2>2
  <2> QED BY <2>1, <2>2
<1> QED BY <1>2, <1>3, <1>4, <1>10, <1>11, <1>20 DEF isLong, size

\* What the books before and after an increase are to each other.
Raises(m, order, old, new, terms, e, next) ==
  /\ m \in Market /\ order.key \in PositionKeys /\ order.amount \in Nat
  /\ old \in Position /\ new \in Position /\ e \in Environment
  /\ terms.fees \in Fees /\ FeesAddUp(terms.fees) /\ terms.impactAmount \in Int
  /\ new.collateralAmount = old.collateralAmount + order.amount - terms.fees.total
  /\ next = IncreasedBooks(order, m, old, new, terms, e)

\* The impact pool pays for the impact of an increase, and the pool has its fees.
LEMMA IncreasedBooksIsWorth ==
  ASSUME history \in History, NEW m, NEW order, NEW old, NEW new, NEW terms, NEW e, NEW next,
         Raises(m, order, old, new, terms, e, next),
         m.positionImpactPool - terms.impactAmount >= 0,
         NEW p \in Prices
  PROVE  /\ next.market \in Books /\ next.history \in History
         /\ next.history.insolvent = history.insolvent
         /\ Worth(m, p) \in Int /\ Worth(next.market, p) \in Int
         /\ RoundedUsd(next.history, p) = RoundedUsd(history, p)
         /\ Worth(next.market, p) >= Worth(m, p) + terms.impactAmount * p.index.max
         /\ \A s \in Sides : next.market.openInterest[s] = m.openInterest[s]
              + (IF s = <<order.key.collateralToken, order.key.isLong>>
                 THEN new.sizeInUsd - old.sizeInUsd ELSE 0)
<1> USE DEF Raises
<1> DEFINE key == order.key
           token == key.collateralToken
           f == Follow(m, key, old, new, new.sizeInUsd, new.sizeInTokens)
           fees == terms.fees
           reward == fees.forAffiliate
           funding == fees.funding
           amount == order.amount
           r == [f EXCEPT !.balance[token] = @ + amount, !.affiliateReward[token] = @ + reward]
           h == [history EXCEPT !.funding[token] = @ + funding]
           claim == FundingClaim(old, e)
           impact == -terms.impactAmount
           credited == CreditFees(Carry(r, h), token, fees)
           moved == AddToImpactPool(Carry(credited.market, h), impact)
           last == CreditFunding(Carry(moved.market, h), key.account, claim)
<1>1. next = CreditFunding(AddToImpactPool(CreditFees([market |-> r, history |-> h], token, fees),
                                           impact), key.account, claim)
  BY DEF IncreasedBooks
<1>2. /\ key \in PositionKeys /\ token \in Tokens /\ key.account \in Accounts /\ claim \in Amounts
      /\ m \in Books
  BY KeyFacts, FundingFacts, MarketIsBooks
<1>3. /\ reward \in Nat /\ funding \in Nat /\ amount \in Nat /\ impact \in Int /\ fees \in Fees
  BY DEF Fees
<1>4. /\ f \in Books /\ Followed(m, f, key, old, new, new.sizeInUsd, new.sizeInTokens)
      /\ SamePools(m, f)
  <2>1. new.sizeInUsd \in Nat /\ new.sizeInTokens \in Nat  BY DEF Position
  <2> QED BY <1>2, <2>1, FollowFacts, FollowLeaves
<1>5. /\ Received(f, r, h, token, amount, reward + funding)
      /\ SamePools(m, r) /\ h.roundedLosses = history.roundedLosses
  <2>1. Receives(f, r, h, token, amount, reward, funding)  BY DEF Receives
  <2>2. SamePools(m, r)  BY <1>4 DEF SamePools, Books
  <2>3. h.roundedLosses = history.roundedLosses  BY DEF History
  <2> HIDE DEF token, amount, reward, funding, r, h
  <2> QED BY <1>2, <1>3, <1>4, <2>1, <2>2, <2>3, ReceivedFacts
<1>6. Increased(m, f, next, order)
  <2> HIDE DEF token, amount, reward, funding, r, h, credited, moved, last, claim, impact
  <2> QED BY IncreasedBooksFacts
<1> HIDE DEF f, r, h, fees, claim, impact
<1>a. r \in Books /\ h \in History  BY <1>5 DEF Received
<1>7. /\ credited \in Working /\ credited.history = h
      /\ credited.market.positionImpactPool = r.positionImpactPool
      /\ Value(credited, p) >= Value(Carry(r, h), p)
  BY <1>2, <1>3, <1>a, CarryFacts, CreditFeesIsWorth
<1> HIDE DEF credited
<1>8. /\ moved \in Working /\ moved.history = h
      /\ Value(moved, p) = Value(Carry(credited.market, h), p) - impact * p.index.max
  <2>1. credited.market \in Books  BY <1>7 DEF Working
  <2>2. credited.market.positionImpactPool + impact >= 0
    BY <1>5, <1>7 DEF SamePools, impact, Market
  <2> QED BY <1>3, <1>a, <2>1, <2>2, CarryFacts, AddToImpactPoolIsWorth
<1> HIDE DEF moved
<1>9. /\ last \in Working /\ SamePools(moved.market, last.market)
      /\ SameLosses(Carry(moved.market, h), last)
  <2>1. moved.market \in Books  BY <1>8 DEF Working
  <2> DEFINE x == Carry(moved.market, h)
  <2>2. x \in Working /\ x.market = moved.market  BY <1>a, <2>1, CarryFacts
  <2>3. last = CreditFunding(x, key.account, claim)  OBVIOUS
  <2> HIDE DEF x, last, key
  <2>4. last \in Working  BY <1>2, <2>2, <2>3, CreditFundingFacts DEF Funded
  <2>5. SamePools(moved.market, last.market) /\ SameLosses(x, last)
    BY <1>2, <2>2, <2>3, CreditFundingLeaves
  <2> QED BY <2>4, <2>5 DEF x
<1>10. next = [market |-> last.market, history |-> last.history]
  <2>1. CreditFees([market |-> r, history |-> h], token, fees)
          = [market |-> credited.market, history |-> h]
    BY <1>2, <1>a, CarriedCreditFees DEF credited
  <2>2. AddToImpactPool([market |-> credited.market, history |-> h], impact)
          = [market |-> moved.market, history |-> h]
    <3>1. credited.market \in Books  BY <1>7 DEF Working
    <3> QED BY <1>a, <3>1, CarriedAddToImpactPool DEF moved
  <2>3. CreditFunding([market |-> moved.market, history |-> h], key.account, claim)
          = [market |-> last.market, history |-> last.history]
    <3> DEFINE x == Carry(moved.market, h)
    <3>1. last = CreditFunding(x, key.account, claim) /\ x = Carry(moved.market, h)  OBVIOUS
    <3>2. moved.market \in Books  BY <1>8 DEF Working
    <3> HIDE DEF x, last, key
    <3> QED BY <1>2, <1>a, <3>1, <3>2, CarriedCreditFunding
  <2> QED BY <1>1, <2>1, <2>2, <2>3
<1> HIDE DEF last
<1>11. next.market = last.market /\ next.history = last.history  BY <1>10
<1>12. /\ Carry(r, h).market = r /\ Carry(r, h).history = h
       /\ Carry(credited.market, h).market = credited.market
       /\ Carry(credited.market, h).history = h
       /\ Carry(moved.market, h).market = moved.market /\ Carry(moved.market, h).history = h
  BY DEF Carry
<1>13. /\ next.market \in Books /\ next.history \in History
       /\ next.history.insolvent = history.insolvent
  BY <1>6 DEF Increased, SameFlags
<1>14. RoundedUsd(next.history, p) = RoundedUsd(history, p) /\ RoundedUsd(h, p) = RoundedUsd(history, p)
       /\ RoundedUsd(history, p) \in Int
  BY <1>5, <1>9, <1>11, <1>12, <1>13, <1>a, DustFacts DEF SameLosses
<1>15. Worth(m, p) \in Int /\ Worth(next.market, p) \in Int
       /\ Worth(credited.market, p) \in Int /\ Worth(moved.market, p) \in Int
  BY <1>2, <1>7, <1>8, <1>13, WorthTypes, ValueTypes
<1>16. PICK i \in Int, j \in Int : /\ i = terms.impactAmount * p.index.max
                                   /\ j = impact * p.index.max /\ j = -i
  <2>1. p.index.max \in Int  BY PriceNumbers
  <2>2. terms.impactAmount * p.index.max \in Int
        /\ impact * p.index.max = -(terms.impactAmount * p.index.max)
    BY <2>1 DEF impact
  <2> QED BY <2>2
<1>17. Worth(next.market, p) >= Worth(m, p) + i
  <2>1. Worth(r, p) = Worth(m, p)  BY <1>5, SameWorth
  <2>2. Worth(next.market, p) = Worth(moved.market, p)  BY <1>9, <1>11, SameWorth
  <2>3. Worth(credited.market, p) >= Worth(r, p)
    BY <1>7, <1>12, <1>14, <1>15, <2>1 DEF Value
  <2>4. Worth(moved.market, p) = Worth(credited.market, p) - j
    BY <1>8, <1>12, <1>14, <1>15, <1>16 DEF Value
  <2> QED BY <1>15, <1>16, <2>1, <2>2, <2>3, <2>4
<1>18. \A s \in Sides : next.market.openInterest[s] = m.openInterest[s]
         + (IF s = <<order.key.collateralToken, order.key.isLong>>
            THEN new.sizeInUsd - old.sizeInUsd ELSE 0)
  BY <1>4, <1>6 DEF Increased, Followed
<1> QED BY <1>13, <1>14, <1>15, <1>16, <1>17, <1>18

\* What an increase gains by its impact the impact pool pays for.
LEMMA IncreaseKeepsValue ==
  ASSUME NEW p, StandStill(p), Inv, Inv', ShortsExact(market, positions),
         Backed(market, history, positions, p),
         NEW order \in IncreaseOrders, NEW e \in Environments, IncreasePosition(order, e)
  PROVE  ShortsExact(market', positions') /\ Backed(market', history', positions', p)
<1>1. PICK accrued, old, terms, new, next :
        /\ accrued = Accrue(e) /\ old = positions[order.key]
        /\ terms = IncreaseTerms(order, accrued, old, e)
        /\ new = IncreasedPosition(order, accrued, old, terms)
        /\ next = IncreasedBooks(order, accrued, old, new, terms, e)
        /\ new.collateralAmount >= 0 /\ new.sizeInUsd > 0 /\ new.sizeInTokens > 0
        /\ NonNegative(next.market)
        /\ market' = next.market
        /\ positions' = [positions EXCEPT ![order.key] = new]
        /\ history' = next.history
        /\ steps < MaxSteps /\ steps' = steps + 1
        /\ UNCHANGED <<factorForTime, factorForAccount>>
  BY IncreaseFacts
<1> DEFINE key == order.key
           price == p.index.max
<1>2. /\ key \in PositionKeys /\ order.sizeDeltaUsd \in Nat /\ order.amount \in Nat
      /\ order.ui \in BOOLEAN /\ e \in Environment
  BY PositionsAssumption
<1>3. /\ market \in Market /\ positions \in [PositionKeys -> Position] /\ history \in History
      /\ positions' \in [PositionKeys -> Position]
  BY DEF Inv, TypeOK
<1>4. old \in Position /\ accrued \in Market /\ new \in Position
  <2>1. accrued \in Market  BY <1>1, <1>2, <1>3, AccrueFacts
  <2>2. positions'[key] = new  BY <1>1, <1>2, <1>3
  <2> QED BY <1>1, <1>2, <1>3, <2>1, <2>2
<1>5. p \in Prices /\ p.index.min = p.index.max /\ e.prices = p /\ price \in Nat
  <2>1. p \in Prices /\ p.index.min = p.index.max /\ e.prices = p  BY DEF StandStill
  <2> QED BY <2>1, PriceNumbers
<1>6. terms.fees \in Fees /\ FeesAddUp(terms.fees)
  <2>1. old.borrowingFactor <= accrued.cumulativeBorrowingFactor[key.isLong]
    <3>1. old.borrowingFactor <= market.cumulativeBorrowingFactor[key.isLong]
      BY <1>1, <1>2 DEF Inv, Accrued
    <3>2. /\ key.isLong \in BOOLEAN /\ old.borrowingFactor \in Nat
          /\ market.cumulativeBorrowingFactor[key.isLong] \in Nat
          /\ accrued.cumulativeBorrowingFactor[key.isLong] \in Nat
      BY <1>2, <1>3, <1>4, KeyFacts DEF Position, Market
    <3>3. accrued.cumulativeBorrowingFactor[key.isLong] >= market.cumulativeBorrowingFactor[key.isLong]
      BY <1>1, <1>2, <1>3, <3>2, AccrueFacts
    <3> QED BY <3>1, <3>2, <3>3
  <2> QED BY <1>1, <1>2, <1>4, <2>1, IncreaseTermsFacts
<1>7. /\ terms.impactAmount \in Int /\ accrued.positionImpactPool - terms.impactAmount >= 0
      /\ new.sizeInUsd = old.sizeInUsd + order.sizeDeltaUsd
      /\ GainOfPosition(new, price, key.isLong) - GainOfPosition(old, price, key.isLong)
           <= terms.impactAmount * price
  <2>1. e.prices.index.min = e.prices.index.max  BY <1>5
  <2>2. /\ terms.impactAmount \in Int /\ accrued.positionImpactPool - terms.impactAmount >= 0
        /\ new.sizeInUsd = old.sizeInUsd + order.sizeDeltaUsd
        /\ GainOfPosition(new, e.prices.index.max, order.key.isLong)
             - GainOfPosition(old, e.prices.index.max, order.key.isLong)
             <= terms.impactAmount * e.prices.index.max
    BY <1>1, <1>2, <1>4, <2>1, IncreaseIsCovered
  <2> QED BY <1>5, <2>2
<1>8. Moved(positions, positions', key, new)
  BY <1>1, <1>2, <1>3, <1>4, MovedFacts
<1>9. /\ next.market \in Books /\ next.history \in History
      /\ next.history.insolvent = history.insolvent
      /\ Worth(accrued, p) \in Int /\ Worth(next.market, p) \in Int
      /\ RoundedUsd(next.history, p) = RoundedUsd(history, p)
      /\ Worth(next.market, p) >= Worth(accrued, p) + terms.impactAmount * price
      /\ \A s \in Sides : next.market.openInterest[s] = accrued.openInterest[s]
           + (IF s = <<key.collateralToken, key.isLong>>
              THEN new.sizeInUsd - old.sizeInUsd ELSE 0)
  <2>1. new.collateralAmount = old.collateralAmount + order.amount - terms.fees.total
    BY <1>1 DEF IncreasedPosition
  <2>2. Raises(accrued, order, old, new, terms, e, next)
    BY <1>1, <1>2, <1>4, <1>6, <1>7, <2>1 DEF Raises
  <2> QED BY <1>3, <1>5, <1>7, <2>2, IncreasedBooksIsWorth
<1>10. ShortsExact(market', positions')
  <2> SUFFICES ASSUME NEW t \in Tokens
               PROVE  next.market.openInterest[<<t, FALSE>>] = SizesOf(positions', <<t, FALSE>>)
    BY <1>1 DEF ShortsExact
  <2>1. PICK s \in Sides : s = <<t, FALSE>>  BY DEF Sides
  <2>2. accrued.openInterest[s] = SizesOf(positions, s)
    <3>1. accrued.openInterest = market.openInterest  BY <1>1, <1>2, <1>3, AccrueFacts
    <3> QED BY <2>1, <3>1 DEF ShortsExact
  <2>3. SizesOf(positions', s) = SizesOf(positions, s)
          + (IF s = <<key.collateralToken, key.isLong>>
             THEN new.sizeInUsd - old.sizeInUsd ELSE 0)
    BY <1>1, <1>2, <1>3, <1>4, <1>8, SumsMove
  <2> QED BY <1>9, <2>1, <2>2, <2>3
<1>11. Backed(market', history', positions', p)
  <2> SUFFICES ASSUME ~history'.insolvent
               PROVE  Worth(next.market, p) + RoundedUsd(next.history, p)
                        >= InitialWorth(p) + Gains(positions', price)
    BY <1>1 DEF Backed
  <2>1. Worth(market, p) + RoundedUsd(history, p) >= InitialWorth(p) + Gains(positions, price)
    BY <1>1, <1>9 DEF Backed
  <2>2. /\ Worth(accrued, p) >= Worth(market, p) /\ Worth(market, p) \in Int
    BY <1>1, <1>2, <1>3, <1>5, AccrueIsWorth
  <2>3. /\ Gains(positions, price) \in Int
        /\ Gains(positions', price) = Gains(positions, price)
             + GainOfPosition(new, price, key.isLong) - GainOfPosition(old, price, key.isLong)
        /\ GainOfPosition(new, price, key.isLong) \in Int
        /\ GainOfPosition(old, price, key.isLong) \in Int
    BY <1>1, <1>2, <1>3, <1>4, <1>5, <1>8, GainsMove
  <2>4. RoundedUsd(history, p) \in Int /\ InitialWorth(p) \in Int
    BY <1>3, <1>5, DustFacts, InitialWorthType
  <2>5. PICK i \in Int : i = terms.impactAmount * price  BY <1>5, <1>7
  <2> HIDE DEF price, key
  <2> QED BY <1>7, <1>9, <2>1, <2>2, <2>3, <2>4, <2>5
<1> QED BY <1>10, <1>11

\* The invariant of a market whose prices stand still.
ValueInv(p) ==
  /\ Inv
  /\ ShortsExact(market, positions)
  /\ Backed(market, history, positions, p)

\* A claim takes nothing from the pool.
LEMMA ClaimKeepsValue ==
  ASSUME NEW p, ShortsExact(market, positions), Backed(market, history, positions, p),
         NEW n, NEW amount, SamePools(market, n), n.openInterest = market.openInterest,
         Claim(amount, n)
  PROVE  ShortsExact(market', positions') /\ Backed(market', history', positions', p)
<1>1. market' = n /\ positions' = positions /\ history' = history  BY DEF Claim
<1>2. Worth(n, p) = Worth(market, p)  BY SameWorth
<1> QED BY <1>1, <1>2 DEF ShortsExact, Backed

\* None of the claims does.
LEMMA ClaimsKeepValue ==
  ASSUME NEW p, Inv, ShortsExact(market, positions), Backed(market, history, positions, p),
         MakeClaim
  PROVE  ShortsExact(market', positions') /\ Backed(market', history', positions', p)
<1>1. market \in Market  BY DEF Inv, TypeOK
<1>2. PICK token \in Tokens :
        \/ \E account \in Accounts : ClaimFundingFees(account, token)
        \/ \E holder \in Holders : ClaimCollateral(holder, token)
        \/ ClaimFees(token) \/ ClaimUiFees(token) \/ ClaimAffiliateReward(token)
  BY DEF MakeClaim
<1>3. ASSUME NEW account \in Accounts, ClaimFundingFees(account, token)
      PROVE  \E n, amount : /\ SamePools(market, n) /\ n.openInterest = market.openInterest
                            /\ Claim(amount, n)
  <2> DEFINE amount == market.fundingOf[token][account]
             n == [PayOut(market, token, amount) EXCEPT
                      !.fundingOf[token][account] = 0,
                      !.claimableFunding[token] = @ - amount]
  <2>1. SamePools(market, n) /\ n.openInterest = market.openInterest
    BY <1>1 DEF SamePools, PayOut, Market
  <2>2. Claim(amount, n)  BY <1>3 DEF ClaimFundingFees
  <2> HIDE DEF n, amount
  <2> QED BY <2>1, <2>2
<1>4. ASSUME NEW holder \in Holders, ClaimCollateral(holder, token)
      PROVE  \E n, amount : /\ SamePools(market, n) /\ n.openInterest = market.openInterest
                            /\ Claim(amount, n)
  <2> DEFINE factor == IF factorForTime > factorForAccount[holder] THEN factorForTime
                       ELSE factorForAccount[holder]
             claimable == ApplyFactor(market.collateralOf[token][holder], factor)
             amount == claimable - market.claimedOf[token][holder]
             n == [PayOut(market, token, amount) EXCEPT
                      !.claimedOf[token][holder] = claimable,
                      !.claimableCollateral[token] = @ - amount]
  <2>1. SamePools(market, n) /\ n.openInterest = market.openInterest
    BY <1>1 DEF SamePools, PayOut, Market
  <2>2. Claim(amount, n)  BY <1>4 DEF ClaimCollateral
  <2> HIDE DEF n, amount
  <2> QED BY <2>1, <2>2
<1>5. ASSUME ClaimFees(token) \/ ClaimUiFees(token) \/ ClaimAffiliateReward(token)
      PROVE  \E n, amount : /\ SamePools(market, n) /\ n.openInterest = market.openInterest
                            /\ Claim(amount, n)
  <2> DEFINE fees == [PayOut(market, token, market.claimableFee[token]) EXCEPT !.claimableFee[token] = 0]
             ui == [PayOut(market, token, market.claimableUiFee[token]) EXCEPT !.claimableUiFee[token] = 0]
             reward == [PayOut(market, token, market.affiliateReward[token]) EXCEPT
                          !.affiliateReward[token] = 0]
  <2>1. /\ SamePools(market, fees) /\ fees.openInterest = market.openInterest
        /\ SamePools(market, ui) /\ ui.openInterest = market.openInterest
        /\ SamePools(market, reward) /\ reward.openInterest = market.openInterest
    BY <1>1 DEF SamePools, PayOut, Market
  <2>2. \/ Claim(market.claimableFee[token], fees)
        \/ Claim(market.claimableUiFee[token], ui)
        \/ Claim(market.affiliateReward[token], reward)
    BY <1>5 DEF ClaimFees, ClaimUiFees, ClaimAffiliateReward
  <2> HIDE DEF fees, ui, reward
  <2> QED BY <2>1, <2>2
<1>6. PICK n, amount : /\ SamePools(market, n) /\ n.openInterest = market.openInterest
                       /\ Claim(amount, n)
  BY <1>2, <1>3, <1>4, <1>5
<1> QED BY <1>6, ClaimKeepsValue

\* A market without positions is worth what it was given.
LEMMA InitialValue ==
  ASSUME NEW p, StandStill(p), Init
  PROVE  ValueInv(p)
<1>1. Inv  BY InitFacts
<1>2. /\ market.poolAmount = InitialPool /\ market.positionImpactPool = InitialImpactPool
      /\ market.openInterest = [side \in Sides |-> 0]
      /\ market.openInterestInTokens = [side \in Sides |-> 0]
      /\ history.roundedLosses = 0 /\ ~history.restDropped
  BY DEF Init
<1>3. AddUp(market, positions, TRUE)
  BY <1>1, <1>2, AddUpIsPositionsAddUp DEF Inv
<1>4. \A s \in Sides : SizesOf(positions, s) = 0 /\ TokensOf(positions, s) = 0
  BY <1>2, <1>3 DEF AddUp
<1>5. ShortsExact(market, positions)
  <2>1. \A t \in Tokens : <<t, FALSE>> \in Sides  BY DEF Sides
  <2> QED BY <1>2, <1>4, <2>1 DEF ShortsExact
<1>6. p \in Prices /\ p.index.max \in Nat
  BY PriceNumbers DEF StandStill
<1>7. Gains(positions, p.index.max) = 0
  <2>1. /\ <<LongToken, TRUE>> \in Sides /\ <<ShortToken, TRUE>> \in Sides
        /\ <<LongToken, FALSE>> \in Sides /\ <<ShortToken, FALSE>> \in Sides
    BY DEF Sides, Tokens
  <2>2. \A s \in Sides : SideGain(positions, s, p.index.max) = 0
    BY <1>4, <1>6 DEF SideGain, GainOf
  <2> QED BY <2>1, <2>2 DEF Gains
<1>8. Worth(market, p) = InitialWorth(p) /\ RoundedUsd(history, p) = 0
  <2>1. Worth(market, p) = InitialWorth(p)  BY <1>2 DEF Worth, InitialWorth
  <2>2. Dust(p) \in Nat  BY <1>6, DustFacts
  <2>3. 0 * Dust(p) = 0  BY <2>2
  <2> QED BY <1>2, <2>1, <2>3 DEF RoundedUsd, Dust
<1>9. InitialWorth(p) \in Int  BY <1>6, InitialWorthType
<1> QED BY <1>1, <1>5, <1>7, <1>8, <1>9 DEF ValueInv, Backed

\* Every trade keeps the value of the pool.
LEMMA TradeKeepsValue ==
  ASSUME NEW p, StandStill(p), ValueInv(p), Trade
  PROVE  ValueInv(p)'
<1> USE DEF ValueInv
<1>1. Inv'  BY TradeStep
<1>2. PICK e \in Environments :
        \/ \E order \in IncreaseOrders : IncreasePosition(order, e)
        \/ \E order \in DecreaseOrders : DecreasePosition(order, e)
        \/ \E key \in PositionKeys :
             LiquidatePosition(key, e) \/ \E size \in AdlSizes : DeleveragePosition(key, size, e)
  BY DEF Trade
<1> DEFINE keeps == ShortsExact(market', positions') /\ Backed(market', history', positions', p)
<1>3. ASSUME NEW order \in IncreaseOrders, IncreasePosition(order, e)  PROVE keeps
  BY <1>1, <1>3, IncreaseKeepsValue
<1>4. ASSUME NEW order \in DecreaseOrders, DecreasePosition(order, e)  PROVE keeps
  <2>1. Asks(order) /\ order.ui \in BOOLEAN  BY PositionsAssumption DEF Asks
  <2>2. Decrease(order, FALSE, e)  BY <1>4 DEF DecreasePosition
  <2> QED BY <2>1, <2>2, DecreaseKeepsValue
<1>5. \A key \in PositionKeys :
        /\ Asks(LiquidationOrder(key)) /\ LiquidationOrder(key).ui \in BOOLEAN
        /\ \A size \in Nat : /\ Asks([LiquidationOrder(key) EXCEPT !.sizeDeltaUsd = size])
                             /\ [LiquidationOrder(key) EXCEPT !.sizeDeltaUsd = size].ui \in BOOLEAN
  BY LiquidationOrderFacts
<1>6. ASSUME NEW key \in PositionKeys, LiquidatePosition(key, e)  PROVE keeps
  <2>1. Decrease(LiquidationOrder(key), TRUE, e)  BY <1>6 DEF LiquidatePosition
  <2> QED BY <1>5, <2>1, DecreaseKeepsValue
<1>7. ASSUME NEW key \in PositionKeys, NEW size \in AdlSizes, DeleveragePosition(key, size, e)
      PROVE  keeps
  <2> DEFINE order == [LiquidationOrder(key) EXCEPT !.sizeDeltaUsd = size]
  <2>1. Decrease(order, TRUE, e)  BY <1>7 DEF DeleveragePosition
  <2>2. size \in Nat  BY PositionsAssumption
  <2>3. Asks(order) /\ order.ui \in BOOLEAN  BY <1>5, <2>2
  <2> HIDE DEF order
  <2> QED BY <2>1, <2>3, DecreaseKeepsValue
<1>8. keeps  BY <1>2, <1>3, <1>4, <1>6, <1>7
<1>9. keeps => /\ ShortsExact(market, positions)'
                /\ Backed(market, history, positions, p)'
  BY DEF ShortsExact, Backed
<1> QED BY <1>1, <1>8, <1>9

\* A change of a factor, and a step that changes nothing, leave it.
LEMMA FactorKeepsValue ==
  ASSUME NEW p, ValueInv(p), SetFactor \/ UNCHANGED vars
  PROVE  ValueInv(p)'
<1>1. Inv'  BY SetFactorStep, StutteringStep DEF ValueInv
<1>2. market' = market /\ positions' = positions /\ history' = history
  BY DEF SetFactor, SetClaimableCollateralFactorForTime,
         SetClaimableCollateralFactorForAccount, vars
<1> QED BY <1>1, <1>2 DEF ValueInv, ShortsExact, Backed

\* What the pool backs is what the property says: the gains that the market computes
\* from its totals are no more than those of its positions.
LEMMA BackedNeverLoses ==
  ASSUME NEW p, StandStill(p), ValueInv(p)
  PROVE  PoolNeverLoses
<1> SUFFICES ASSUME ~history.insolvent, NEW prices \in {e.prices : e \in Environments}
             PROVE  PoolValue(market, prices) + RoundedUsd(history, prices) >=
                      InitialPool[LongToken] * prices.long.min
                        + InitialPool[ShortToken] * prices.short.min
                        - InitialImpactPool * prices.index.max
  BY DEF PoolNeverLoses
<1>1. prices = p /\ p \in Prices /\ p.index.min = p.index.max  BY DEF StandStill
<1>2. /\ market \in Market /\ positions \in [PositionKeys -> Position] /\ history \in History
  BY DEF ValueInv, Inv, TypeOK
<1>3. \A k \in PositionKeys : positions[k].sizeInUsd = 0 <=> positions[k].sizeInTokens = 0
  <2> SUFFICES ASSUME NEW k \in PositionKeys
               PROVE  positions[k].sizeInUsd = 0 <=> positions[k].sizeInTokens = 0
    OBVIOUS
  <2>1. CASE positions[k] = NoPosition  BY <2>1, NoPositionFacts
  <2>2. CASE positions[k] # NoPosition  BY <2>2 DEF ValueInv, Inv, Sized
  <2> QED BY <2>1, <2>2
<1>4. \A s \in Sides : /\ market.openInterest[s] >= SizesOf(positions, s)
                       /\ market.openInterestInTokens[s] = TokensOf(positions, s)
  <2>1. AddUp(market, positions, ~history.restDropped)  BY AddUpIsPositionsAddUp DEF ValueInv, Inv
  <2> QED BY <2>1 DEF AddUp
<1>5. \A t \in Tokens : market.openInterest[<<t, FALSE>>] = SizesOf(positions, <<t, FALSE>>)
  BY DEF ValueInv, ShortsExact
<1>6. PICK long \in Int, short \in Int, gains \in Int :
        /\ long = PoolPnl(market, p, TRUE) /\ short = PoolPnl(market, p, FALSE)
        /\ gains = Gains(positions, p.index.max) /\ long + short <= gains
  BY <1>1, <1>2, <1>3, <1>4, <1>5, PoolPnlIsCovered
<1>7. PICK a \in Int, b \in Int, c \in Int :
        /\ a = market.poolAmount[LongToken] * p.long.min
        /\ b = market.poolAmount[ShortToken] * p.short.min
        /\ c = market.positionImpactPool * p.index.max
  <2>1. /\ market.poolAmount[LongToken] \in Int /\ market.poolAmount[ShortToken] \in Int
        /\ market.positionImpactPool \in Int
    BY <1>1, <1>2, MarketIsBooks, WorthTypes
  <2>2. p.long.min \in Int /\ p.short.min \in Int /\ p.index.max \in Int
    BY <1>1, PriceNumbers
  <2> QED BY <2>1, <2>2
<1>8. PICK dust \in Int, first \in Int : dust = RoundedUsd(history, p) /\ first = InitialWorth(p)
  BY <1>1, <1>2, DustFacts, InitialWorthType
<1>9. Worth(market, p) = a + b - c  BY <1>7 DEF Worth
<1>10. PoolValue(market, p) = a + b - long - short - c  BY <1>6, <1>7 DEF PoolValue
<1>11. a + b - c + dust >= first + gains
  BY <1>6, <1>8, <1>9 DEF ValueInv, Backed
<1>12. PoolValue(market, p) + dust >= first
  <2>1. long + short <= gains  BY <1>6
  <2>2. a + b - long - short - c + dust >= first
    BY <1>11, <2>1
  <2> QED BY <1>10, <2>2
<1> QED BY <1>1, <1>8, <1>12 DEF InitialWorth

\* While prices stand still no sequence of increases, decreases, swaps, claims, solvent
\* liquidations and ADL orders takes value from the depositors: whatever the fees, the
\* impact, the factors, the limits and the positions are, what is rounded favours the
\* pool, but for less than a unit of the secondary token in each loss that payForCost
\* takes as paid.
THEOREM PoolIsNeverWorthLess ==
  ASSUME NEW CONSTANT p, StandStill(p)
  PROVE  Spec => []PoolNeverLoses
<1>1. Init => ValueInv(p)  BY InitialValue
<1>2. ValueInv(p) /\ [Next]_vars => ValueInv(p)'
  <2>1. ValueInv(p) /\ Trade => ValueInv(p)'  BY TradeKeepsValue
  <2>2. ValueInv(p) /\ MakeClaim => ValueInv(p)'
    <3> SUFFICES ASSUME ValueInv(p), MakeClaim PROVE ValueInv(p)'  OBVIOUS
    <3>1. Inv'  BY ClaimsStep DEF ValueInv
    <3>2. ShortsExact(market', positions') /\ Backed(market', history', positions', p)
      BY ClaimsKeepValue DEF ValueInv
    <3> QED BY <3>1, <3>2 DEF ValueInv, ShortsExact, Backed
  <2>3. ValueInv(p) /\ (SetFactor \/ UNCHANGED vars) => ValueInv(p)'  BY FactorKeepsValue
  <2> QED BY <2>1, <2>2, <2>3 DEF Next
<1>3. ValueInv(p) => PoolNeverLoses  BY BackedNeverLoses
<1> QED BY <1>1, <1>2, <1>3, PTL DEF Spec

=============================================================================
