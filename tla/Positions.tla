------------------------------ MODULE Positions ------------------------------
(***************************************************************************)
(* The positions in one market and the market's books: what IncreaseOrder, *)
(* DecreaseOrder, Liquidation and Adl handlers do to both when an order is *)
(* executed, and how fees, funding fees and capped price impact are        *)
(* claimed.  Prices, price impact, and what funding and borrowing have     *)
(* accrued since the last order are an environment, chosen with each order.*)
(***************************************************************************)
EXTENDS PositionUtils, FiniteSets, Functions

CONSTANTS
  PositionKeys,                 \* records [account, collateralToken, isLong]
  HoldingAddress,
  Referred,                     \* the accounts with a referral code
  IncreaseOrders,               \* [key, sizeDeltaUsd, amount, ui]
  DecreaseOrders,               \* [key, limit, sizeDeltaUsd, collateralDelta, swap, ui]
  AdlSizes,
  Environments,                 \* [prices, impactUsd, closingImpactUsd, distribution,
                                \*  borrowing, fundingFee, fundingClaim, swapWorks]
  ClaimableFactors,             \* what Config sets claimable collateral factors to
  MinPositionImpactPool,
  InitialPool,                  \* of each token
  InitialImpactPool,
  MaxSteps                      \* bound: the transactions of a behaviour

VARIABLES
  market,
  positions,
  factorForTime, factorForAccount,
  history,                      \* what the properties need to know of the past
  steps

vars == <<market, positions, factorForTime, factorForAccount, history, steps>>

Accounts == {key.account : key \in PositionKeys}
Holders == Accounts \union {HoldingAddress}
SwapTypes == {"NoSwap", "SwapPnlTokenToCollateralToken", "SwapCollateralTokenToPnlToken"}

NoPosition == [sizeInUsd |-> 0, sizeInTokens |-> 0, collateralAmount |-> 0, borrowingFactor |-> 0]

\* A price is between a min and a max; the Oracle refuses a price of 0, and a min
\* above its max.
PriceRange == {price \in [min : Nat \ {0}, max : Nat \ {0}] : price.min <= price.max}

Environment ==
  [prices : [index : PriceRange, long : PriceRange, short : PriceRange],
   impactUsd : Int, closingImpactUsd : Int, distribution : Nat,
   borrowing : [BOOLEAN -> Nat],
   fundingFee : Nat, fundingClaim : [Tokens -> Nat], swapWorks : BOOLEAN]

ASSUME PositionsAssumption ==
  /\ IsFiniteSet(PositionKeys)
  /\ \A key \in PositionKeys :
       DOMAIN key = {"account", "collateralToken", "isLong"}
         /\ key.collateralToken \in Tokens /\ key.isLong \in BOOLEAN
  /\ HoldingAddress \notin Accounts
  /\ IncreaseOrders \subseteq
       [key : PositionKeys, sizeDeltaUsd : Nat, amount : Nat, ui : BOOLEAN]
  /\ DecreaseOrders \subseteq
       [key : PositionKeys, limit : BOOLEAN, sizeDeltaUsd : Nat, collateralDelta : Nat,
        swap : SwapTypes, ui : BOOLEAN]
  /\ AdlSizes \subseteq Nat
  /\ Environments \subseteq Environment
  /\ ClaimableFactors \subseteq 0..Precision
  /\ {MinPositionImpactPool, InitialImpactPool, MaxSteps} \subseteq Nat
  /\ InitialPool \in [Tokens -> Nat]

Position == [sizeInUsd : Nat, sizeInTokens : Nat, collateralAmount : Nat, borrowingFactor : Nat]

\* Amounts of a token, and what holders have of it.
Amounts == [Tokens -> Nat]
AmountsOf == [Tokens -> [Holders -> Nat]]

Market ==
  [balance : Amounts, poolAmount : Amounts,
   claimableFee : Amounts, claimableUiFee : Amounts, affiliateReward : Amounts,
   claimableCollateral : Amounts, claimableFunding : Amounts,
   collateralOf : AmountsOf, claimedOf : AmountsOf, fundingOf : AmountsOf,
   positionImpactPool : Nat,
   openInterest : [Sides -> Nat], openInterestInTokens : [Sides -> Nat],
   collateralSum : [Sides -> Nat],
   cumulativeBorrowingFactor : [BOOLEAN -> Nat], totalBorrowing : [BOOLEAN -> Nat]]

History ==
  [funding : [Tokens -> Int], forgiven : [Tokens -> Int], dropped : Amounts,
   roundedLosses : Nat, insolvent : BOOLEAN, restDropped : BOOLEAN, paidDespiteDebt : BOOLEAN]

TypeOK ==
  /\ market \in Market
  /\ positions \in [PositionKeys -> Position]
  /\ factorForTime \in 0..Precision
  /\ factorForAccount \in [Holders -> 0..Precision]
  /\ history \in History
  /\ steps \in 0..MaxSteps

-----------------------------------------------------------------------------
(* The books.  x is a record with the fields market and history.            *)

AddClaimableCollateral(x, token, holder, amount) ==
  [x EXCEPT !.market.collateralOf[token][holder] = @ + amount,
            !.market.claimableCollateral[token] = @ + amount]

AddToPool(x, token, amount) == [x EXCEPT !.market.poolAmount[token] = @ + amount]

\* DataStore.applyBoundedDeltaToUint
AddToImpactPool(x, amount) ==
  [x EXCEPT !.market.positionImpactPool = IF @ + amount < 0 THEN 0 ELSE @ + amount]

CreditFees(x, token, fees) ==
  [x EXCEPT !.market.poolAmount[token] = @ + fees.forPool,
            !.market.claimableFee[token] = @ + fees.forReceiver,
            !.market.claimableUiFee[token] = @ + fees.forUi]

\* PositionUtils.incrementClaimableFundingAmount; the funding is paid out of what
\* other positions have paid or will pay.
CreditFunding(x, account, claim) ==
  [x EXCEPT !.market.fundingOf = [t \in Tokens |->
                                  [x.market.fundingOf[t] EXCEPT ![account] = @ + claim[t]]],
            !.market.claimableFunding = [t \in Tokens |-> @[t] + claim[t]],
            !.history.funding = [t \in Tokens |-> @[t] - claim[t]]]

\* distributePositionImpactPool and updateFundingAndBorrowingState.
Accrue(e) ==
  LET distributable == IF market.positionImpactPool > MinPositionImpactPool
                       THEN market.positionImpactPool - MinPositionImpactPool ELSE 0
  IN [market EXCEPT
        !.positionImpactPool = @ - Least(e.distribution, distributable),
        !.cumulativeBorrowingFactor = [isLong \in BOOLEAN |-> @[isLong] + e.borrowing[isLong]]]

FundingFee(position, e) == IF position.sizeInUsd = 0 THEN 0 ELSE e.fundingFee
FundingClaim(position, e) ==
  IF position.sizeInUsd = 0 THEN [t \in Tokens |-> 0] ELSE e.fundingClaim

\* Fault: what a position owed for borrowing before stays its share of the total.
FollowAtOldFactor(m, key, old, new, size, tokens) ==
  LET side == <<key.collateralToken, key.isLong>>
  IN [m EXCEPT
        !.totalBorrowing[key.isLong] = @ - ApplyFactor(old.sizeInUsd, old.borrowingFactor)
                                         + ApplyFactor(size, old.borrowingFactor),
        !.openInterest[side] = @ + size - old.sizeInUsd,
        !.openInterestInTokens[side] = @ + tokens - old.sizeInTokens,
        !.collateralSum[side] = @ + new.collateralAmount - old.collateralAmount]

\* MarketUtils.updateTotalBorrowing, applyDeltaToOpenInterest(InTokens) and
\* applyDeltaToCollateralSum: the market follows a position from old to new.  When
\* the rest of a position is dropped, size says what is left in the totals.
Follow(m, key, old, new, size, tokens) ==
  LET side == <<key.collateralToken, key.isLong>>
      factor == m.cumulativeBorrowingFactor[key.isLong]
  IN [m EXCEPT
        !.totalBorrowing[key.isLong] = @ - ApplyFactor(old.sizeInUsd, old.borrowingFactor)
                                         + ApplyFactor(size, factor),
        !.openInterest[side] = @ + size - old.sizeInUsd,
        !.openInterestInTokens[side] = @ + tokens - old.sizeInTokens,
        !.collateralSum[side] = @ + new.collateralAmount - old.collateralAmount]

\* DataStore refuses a negative value.
NonNegative(m) ==
  /\ \A t \in Tokens : m.balance[t] >= 0 /\ m.poolAmount[t] >= 0
  /\ \A side \in Sides :
       m.openInterest[side] >= 0 /\ m.openInterestInTokens[side] >= 0 /\ m.collateralSum[side] >= 0
  /\ \A isLong \in BOOLEAN : m.totalBorrowing[isLong] >= 0

\* MarketUtils.validateMarketTokenBalance
ValidBalance(m) ==
  \A t \in Tokens :
    /\ m.balance[t] >= m.poolAmount[t] + m.claimableCollateral[t] + m.claimableFee[t]
                         + m.claimableUiFee[t] + m.affiliateReward[t]
    /\ m.balance[t] >= m.collateralSum[<<t, TRUE>>] + m.collateralSum[<<t, FALSE>>]
    /\ m.balance[t] >= m.claimableFunding[t]

\* PositionUtils.validatePosition; what funding and borrowing cost is paid by then.
ValidPosition(m, position, key, e, isIncrease) ==
  /\ position.sizeInUsd > 0 /\ position.sizeInTokens > 0
  /\ isIncrease => position.sizeInUsd >= MinPositionSizeUsd
  /\ ~IsLiquidatable(m, e.prices, position, key.collateralToken, key.isLong,
                     e.closingImpactUsd, key.account \in Referred, 0, isIncrease)

-----------------------------------------------------------------------------
(* Increase.                                                                 *)

\* The size in tokens, the impact and the fees of an increase.
IncreaseTerms(order, m, old, e) ==
  LET key == order.key
      sized == order.sizeDeltaUsd > 0
      impactUsd == IF sized THEN CappedImpactUsd(m, e.prices, e.impactUsd, order.sizeDeltaUsd) ELSE 0
  IN [impactAmount |-> ImpactAmountForIncrease(e.prices, impactUsd),
      tokens |-> IF sized THEN TokensForIncrease(e.prices, impactUsd, order.sizeDeltaUsd, key.isLong)
                 ELSE 0,
      fees |-> PositionFees(m, old, key.isLong, TokenPrice(key.collateralToken, e.prices),
                            order.sizeDeltaUsd, impactUsd > 0, key.account \in Referred,
                            order.ui, FundingFee(old, e))]

\* The position and the books after an increase, where m are the books before.
IncreasedPosition(order, m, old, terms) ==
  [sizeInUsd |-> old.sizeInUsd + order.sizeDeltaUsd,
   sizeInTokens |-> old.sizeInTokens + terms.tokens,
   collateralAmount |-> old.collateralAmount + order.amount - terms.fees.total,
   borrowingFactor |-> m.cumulativeBorrowingFactor[order.key.isLong]]

IncreasedBooks(order, m, old, new, terms, e) ==
  LET key == order.key
      token == key.collateralToken
      received == [market |-> [Follow(m, key, old, new, new.sizeInUsd, new.sizeInTokens) EXCEPT
                                 !.balance[token] = @ + order.amount,
                                 !.affiliateReward[token] = @ + terms.fees.forAffiliate],
                   history |-> [history EXCEPT !.funding[token] = @ + terms.fees.funding]]
  IN CreditFunding(AddToImpactPool(CreditFees(received, token, terms.fees), -terms.impactAmount),
                   key.account, FundingClaim(old, e))

\* IncreasePositionUtils.increasePosition, for tokens that OrderVault has sent to
\* the market, and the check of the balance in OrderUtils.executeOrder.  (A
\* quantifier over one value is evaluated once, a LET wherever it is used.)
IncreasePosition(order, e) ==
  /\ steps < MaxSteps
  /\ \E accrued \in {Accrue(e)}, old \in {positions[order.key]} :
     \E terms \in {IncreaseTerms(order, accrued, old, e)} :
     \E new \in {IncreasedPosition(order, accrued, old, terms)} :
     \E next \in {IncreasedBooks(order, accrued, old, new, terms, e)} :
       /\ order.sizeDeltaUsd > 0 =>
            /\ terms.tokens > 0
            /\ OpenInterest(next.market, order.key.isLong) <= MaxOpenInterest
            /\ ValidReserve(next.market, e.prices, order.key.isLong)
            /\ SufficientCollateral(
                 RemainingCollateralUsd(TokenPrice(order.key.collateralToken, e.prices),
                                        new.collateralAmount, 0),
                 new.sizeInUsd)
       /\ new.collateralAmount >= 0
       /\ ValidPosition(next.market, new, order.key, e, TRUE)
       /\ NonNegative(next.market) /\ ValidBalance(next.market)
       /\ market' = next.market
       /\ positions' = [positions EXCEPT ![order.key] = new]
       /\ history' = next.history
  /\ steps' = steps + 1
  /\ UNCHANGED <<factorForTime, factorForAccount>>

-----------------------------------------------------------------------------
(* Decrease: the size and the collateral to withdraw, adjusted.             *)

\* The beginning of DecreasePositionUtils.decreasePosition.  A rest too small, or
\* with too little collateral, is closed as well; a withdrawal that leaves too
\* little collateral is dropped, or refused if it is all the order asks for.
AdjustedTerms(order, position, e) ==
  LET key == order.key
      price == TokenPrice(key.collateralToken, e.prices)
      size == Least(order.sizeDeltaUsd, position.sizeInUsd)
      withdrawn == Least(order.collateralDelta, position.collateralAmount)
      restUsd == position.sizeInUsd - size
      pnlUsd == PositionPnlUsd(market, e.prices, position, key.isLong, position.sizeInUsd)
      realizedUsd == Quotient(pnlUsd * size, position.sizeInUsd)
      Estimate(amount) == RemainingCollateralUsd(price, position.collateralAmount - amount, realizedUsd)
      sufficient == SufficientCollateral(Estimate(withdrawn), restUsd)
      kept == IF sufficient THEN withdrawn ELSE 0
      closes == \/ restUsd = 0
                \/ Estimate(kept) + pnlUsd - realizedUsd < MinCollateralUsd
                \/ restUsd < MinPositionSizeUsd
  IN [sizeDeltaUsd |-> IF closes THEN position.sizeInUsd ELSE size,
      collateralDelta |-> IF closes THEN 0 ELSE kept,
      allowed |-> /\ order.limit \/ order.sizeDeltaUsd <= position.sizeInUsd
                  /\ restUsd > 0 /\ size = 0 => sufficient]

-----------------------------------------------------------------------------
(* Decrease: processCollateral.  d holds what is fixed, x the books, the     *)
(* output, the collateral and the secondary output that are left, what the  *)
(* last cost was paid with, and what of it could not be paid.               *)

Solvent(x) == x.unpaidUsd = 0

Pay(x, d, costUsd) ==
  LET paid == PayForCost(x, costUsd, d.price.min, d.pnlPrice.min)
  IN [x EXCEPT !.output = paid.output, !.collateral = paid.collateral,
               !.secondary = paid.secondary, !.unpaidUsd = paid.remainingUsd,
               !.paid = paid.paid, !.paidSecondary = paid.paidSecondary]

\* Fault: what was paid in profit is forgotten.
PaidToPoolInCollateral(x, d) == AddToPool(x, d.token, x.paid)

PaidToPool(x, d) == AddToPool(AddToPool(x, d.token, x.paid), d.pnlToken, x.paidSecondary)

\* Profit and positive impact leave the pool for the trader.
GainAmount(d) ==
  (IF d.pnlUsd > 0 THEN d.pnlUsd \div d.pnlPrice.max ELSE 0)
    + (IF d.impact.usd > 0 THEN d.impact.usd \div d.pnlPrice.max ELSE 0)

\* Fault: the impact pool is reduced by too little.
TakeProfitRoundingDown(x, d) ==
  LET y == AddToImpactPool(AddToPool(x, d.pnlToken, -GainAmount(d)),
             IF d.impact.usd > 0 THEN -(d.impact.usd \div d.prices.index.max) ELSE 0)
  IN IF d.pnlToken = d.token THEN [y EXCEPT !.output = @ + GainAmount(d)]
                             ELSE [y EXCEPT !.secondary = @ + GainAmount(d)]

TakeProfit(x, d) ==
  LET y == AddToImpactPool(AddToPool(x, d.pnlToken, -GainAmount(d)),
             IF d.impact.usd > 0 THEN -RoundUpDivision(d.impact.usd, d.prices.index.min) ELSE 0)
  IN IF d.pnlToken = d.token THEN [y EXCEPT !.output = @ + GainAmount(d)]
                             ELSE [y EXCEPT !.secondary = @ + GainAmount(d)]

\* SwapUtils.swap in the market itself; it may fail, and then nothing is swapped.
SwapInMarket(m, tokenIn, amount, tokenOut, prices) ==
  LET out == (amount * TokenPrice(tokenIn, prices).min) \div TokenPrice(tokenOut, prices).max
      taken == [m EXCEPT !.poolAmount[tokenIn] = @ + amount]
      after == [taken EXCEPT !.poolAmount[tokenOut] = @ - out]
      side == tokenOut = LongToken
  IN [out |-> out, market |-> after,
      succeeds |-> /\ amount > 0 /\ out <= m.poolAmount[tokenOut]
                   /\ ReservedUsd(after, prices, side)
                        <= ApplyFactor(PoolUsd(after, prices, side), ReserveFactor)]

SwapProfit(x, d) ==
  LET swap == SwapInMarket(x.market, d.pnlToken, x.secondary, d.token, d.prices)
  IN IF d.swap = "SwapPnlTokenToCollateralToken" /\ d.swapWorks /\ swap.succeeds
     THEN [x EXCEPT !.market = swap.market, !.output = @ + swap.out, !.secondary = 0]
     ELSE x

\* The secondary token goes to the holding address.
PayFunding(x, d) ==
  LET y == Pay(x, d, d.fees.funding * d.price.min)
  IN AddClaimableCollateral([y EXCEPT !.history.funding[d.token] = @ + y.paid],
                            d.pnlToken, HoldingAddress, y.paidSecondary)

\* What of a loss is worth less than one unit of the secondary token is not asked
\* for; the loss is then taken as paid.
PayLoss(x, d) ==
  LET y == Pay(x, d, -d.pnlUsd)
      rounded == Solvent(y) /\ y.paid * d.price.min + y.paidSecondary * d.pnlPrice.min < -d.pnlUsd
  IN IF Solvent(x) /\ d.pnlUsd < 0
     THEN [PaidToPool(y, d) EXCEPT !.history.roundedLosses = @ + (IF rounded THEN 1 ELSE 0)]
     ELSE x

\* Fault: the fees are split whatever has been paid.
PayFeesOnCredit(x, d) ==
  IF Solvent(x)
    THEN [CreditFees(Pay(x, d, d.fees.excludingFunding * d.price.min), d.token, d.fees) EXCEPT
            !.affiliateReward = d.fees.forAffiliate]
    ELSE x

\* Fees paid in the collateral token are split as agreed; otherwise all that is
\* paid goes to the pool, and no affiliate is rewarded.
PayFees(x, d) ==
  LET y == Pay(x, d, d.fees.excludingFunding * d.price.min)
  IN IF ~Solvent(x) THEN x
     ELSE IF Solvent(y) /\ y.paidSecondary = 0
     THEN [CreditFees(y, d.token, d.fees) EXCEPT
             !.affiliateReward = d.fees.forAffiliate,
             !.history.forgiven[d.token] = @ + d.fees.excludingFunding - y.paid]
     ELSE PaidToPool(y, d)

PayImpact(x, d) ==
  LET y == Pay(x, d, -d.impact.usd)
      InIndexTokens(amount, price) == (amount * price.min) \div d.prices.index.max
  IN IF Solvent(x) /\ d.impact.usd < 0
     THEN AddToImpactPool(PaidToPool(y, d),
            InIndexTokens(y.paid, d.price) + InIndexTokens(y.paidSecondary, d.pnlPrice))
     ELSE x

\* The impact above the limit is kept for the trader to claim.
PayImpactDiff(x, d) ==
  LET y == Pay(x, d, d.impact.diffUsd)
  IN IF Solvent(x) /\ d.impact.diffUsd > 0
     THEN AddClaimableCollateral(AddClaimableCollateral(y, d.token, d.account, y.paid),
                                 d.pnlToken, d.account, y.paidSecondary)
     ELSE x

\* The withdrawal of collateral, less what the trader has to claim now.
Withdraw(x, d) ==
  LET diff == d.impact.diffUsd \div d.price.min
      wanted == IF d.collateralDelta > diff THEN d.collateralDelta - diff ELSE 0
      amount == Least(wanted, x.collateral)
  IN IF Solvent(x) THEN [x EXCEPT !.output = @ + amount, !.collateral = @ - amount] ELSE x

ProcessCollateral(x, d) ==
  Withdraw(PayImpactDiff(PayImpact(PayFees(PayLoss(PayFunding(SwapProfit(TakeProfit(x, d),
    d), d), d), d), d), d), d)

SwapOutput(x, d) ==
  LET swap == SwapInMarket(x.market, d.token, x.output, d.pnlToken, d.prices)
  IN IF d.swap = "SwapCollateralTokenToPnlToken" /\ d.swapWorks /\ swap.succeeds
     THEN [x EXCEPT !.market = swap.market, !.output = 0, !.secondary = @ + swap.out]
     ELSE x

-----------------------------------------------------------------------------
(* Decrease: the whole of it.                                                *)

\* What processCollateral starts from.
Terms(order, adjusted, m, position, e) ==
  LET key == order.key
      price == TokenPrice(key.collateralToken, e.prices)
      impact == ImpactForDecrease(m, e.prices, e.impactUsd, adjusted.sizeDeltaUsd)
  IN [token |-> key.collateralToken,
      pnlToken |-> PnlToken(key.isLong),
      account |-> key.account,
      prices |-> e.prices,
      price |-> price,
      pnlPrice |-> TokenPrice(PnlToken(key.isLong), e.prices),
      swap |-> IF key.collateralToken = PnlToken(key.isLong) THEN "NoSwap" ELSE order.swap,
      swapWorks |-> e.swapWorks,
      sizeDeltaUsd |-> adjusted.sizeDeltaUsd,
      tokens |-> SizeDeltaInTokens(position, key.isLong, adjusted.sizeDeltaUsd),
      collateralDelta |-> adjusted.collateralDelta,
      impact |-> impact,
      pnlUsd |-> PositionPnlUsd(m, e.prices, position, key.isLong, adjusted.sizeDeltaUsd),
      fees |-> PositionFees(m, position, key.isLong, price, adjusted.sizeDeltaUsd, impact.usd > 0,
                            key.account \in Referred, order.ui, FundingFee(position, e))]

\* The affiliate's reward is part of the fees, which a close that leaves a cost
\* unpaid empties, paid or not.
RewardAffiliate(x, d) ==
  IF Solvent(x) THEN [x EXCEPT !.market.affiliateReward[d.token] = @ + x.affiliateReward]
                ELSE [x EXCEPT !.history.dropped[d.token] = @ + x.affiliateReward]

\* What is left of a position; all of it is removed when nothing is left of one of
\* its sizes.
Rest(m, key, old, d, paid) ==
  [sizeInUsd |-> old.sizeInUsd - d.sizeDeltaUsd,
   sizeInTokens |-> old.sizeInTokens - d.tokens,
   collateralAmount |-> paid.collateral,
   borrowingFactor |-> m.cumulativeBorrowingFactor[key.isLong]]

Closes(rest) == rest.sizeInUsd = 0 \/ rest.sizeInTokens = 0

\* A position without a size or without tokens is removed from the store.
Left(rest) == IF Closes(rest) THEN NoPosition ELSE rest

Start(m, old) ==
  [market |-> m, history |-> history, affiliateReward |-> 0,
   output |-> 0, secondary |-> 0, collateral |-> old.collateralAmount,
   unpaidUsd |-> 0, paid |-> 0, paidSecondary |-> 0]

\* The books after a decrease, before the output is swapped and paid.
DecreasedBooks(key, old, new, rest, d, paid, e) ==
  RewardAffiliate(
    [CreditFunding(paid, key.account, FundingClaim(old, e)) EXCEPT
       !.market = Follow(@, key, old, new, rest.sizeInUsd, rest.sizeInTokens),
       !.output = IF Closes(rest) THEN @ + rest.collateralAmount ELSE @], d)

PaidOut(x, d) ==
  [x.market EXCEPT
     !.balance = [t \in Tokens |-> @[t] - (IF t = d.token THEN x.output ELSE 0)
                                        - (IF t = d.pnlToken THEN x.secondary ELSE 0)]]

\* DecreasePositionUtils.decreasePosition and DecreaseOrderUtils.processOrder.  They
\* revert, or commit new books, a new position and a new history.
decreasePosition(order, isLiquidationOrAdl, e, Commit(_, _, _)) ==
  /\ positions[order.key] # NoPosition
  /\ \E accrued \in {Accrue(e)}, old \in {positions[order.key]} :
     \E adjusted \in {AdjustedTerms(order, old, e)} :
     \E d \in {Terms(order, adjusted, accrued, old, e)} :
       /\ adjusted.allowed
       /\ ExecutionPriceExists(e.prices, old, order.key.isLong, d.impact.usd, d.sizeDeltaUsd)
       /\ GainAmount(d) <= accrued.poolAmount[d.pnlToken]
       /\ \E paid \in {ProcessCollateral(Start(accrued, old), d)} :
          \E rest \in {Rest(accrued, order.key, old, d, paid)} :
          \E new \in {Left(rest)} :
          \E books \in {DecreasedBooks(order.key, old, new, rest, d, paid, e)} :
          \E swapped \in {SwapOutput(books, d)} :
          \E next \in {PaidOut(swapped, d)} :
            /\ Solvent(paid) \/ (isLiquidationOrAdl /\ d.sizeDeltaUsd = old.sizeInUsd)
            /\ Closes(rest) \/ ValidPosition(books.market, new, order.key, e, FALSE)
            /\ NonNegative(next)
            /\ Commit(next, new, [swapped.history EXCEPT
                 !.insolvent = @ \/ ~Solvent(paid),
                 !.restDropped = @ \/ (Closes(rest) /\ rest.sizeInUsd > 0),
                 !.paidDespiteDebt = @ \/ (~Solvent(paid) /\ swapped.output + swapped.secondary > 0)])

\* OrderUtils.executeOrder, which checks the balance at the end.
Decrease(order, isLiquidationOrAdl, e) ==
  /\ steps < MaxSteps
  /\ decreasePosition(order, isLiquidationOrAdl, e, LAMBDA nextMarket, nextPosition, nextHistory :
       /\ ValidBalance(nextMarket)
       /\ market' = nextMarket
       /\ positions' = [positions EXCEPT ![order.key] = nextPosition]
       /\ history' = nextHistory)
  /\ steps' = steps + 1
  /\ UNCHANGED <<factorForTime, factorForAccount>>

DecreasePosition(order, e) == Decrease(order, FALSE, e)

\* LiquidationUtils.createLiquidationOrder
LiquidationOrder(key) ==
  [key |-> key, limit |-> FALSE, sizeDeltaUsd |-> positions[key].sizeInUsd,
   collateralDelta |-> 0, swap |-> "SwapPnlTokenToCollateralToken", ui |-> FALSE]

ShouldBeLiquidated(key, e) ==
  /\ positions[key] # NoPosition
  /\ \E accrued \in {Accrue(e)} :
       IsLiquidatable(accrued, e.prices, positions[key], key.collateralToken, key.isLong,
                      e.impactUsd, key.account \in Referred, FundingFee(positions[key], e), TRUE)

\* LiquidationHandler.executeLiquidation
LiquidatePosition(key, e) ==
  ShouldBeLiquidated(key, e) /\ Decrease(LiquidationOrder(key), TRUE, e)

\* AdlHandler.executeAdl with AdlUtils.createAdlOrder; the size is the keeper's.
DeleveragePosition(key, sizeDeltaUsd, e) ==
  Decrease([LiquidationOrder(key) EXCEPT !.sizeDeltaUsd = sizeDeltaUsd], TRUE, e)

-----------------------------------------------------------------------------
(* Claims.                                                                   *)

PayOut(m, token, amount) == [m EXCEPT !.balance[token] = @ - amount]

Claim(amount, next) ==
  /\ steps < MaxSteps
  /\ amount > 0
  /\ NonNegative(next) /\ ValidBalance(next)
  /\ market' = next
  /\ steps' = steps + 1
  /\ UNCHANGED <<positions, factorForTime, factorForAccount, history>>

\* Fault: what has been claimed can be claimed again.
ClaimFundingFeesAgain(account, token) ==
  Claim(market.fundingOf[token][account],
        [PayOut(market, token, market.fundingOf[token][account]) EXCEPT
           !.claimableFunding[token] = @ - market.fundingOf[token][account]])

ClaimFundingFees(account, token) ==
  LET amount == market.fundingOf[token][account]
  IN Claim(amount, [PayOut(market, token, amount) EXCEPT
                      !.fundingOf[token][account] = 0,
                      !.claimableFunding[token] = @ - amount])

\* Fault: what was claimed before is forgotten.
ClaimCollateralForgetting(holder, token) ==
  LET factor == IF factorForTime > factorForAccount[holder] THEN factorForTime
                ELSE factorForAccount[holder]
      claimable == ApplyFactor(market.collateralOf[token][holder], factor)
      amount == claimable - market.claimedOf[token][holder]
  IN Claim(amount, [PayOut(market, token, amount) EXCEPT
                      !.claimedOf[token][holder] = amount,
                      !.claimableCollateral[token] = @ - amount])

ClaimCollateral(holder, token) ==
  LET factor == IF factorForTime > factorForAccount[holder] THEN factorForTime
                ELSE factorForAccount[holder]
      claimable == ApplyFactor(market.collateralOf[token][holder], factor)
      amount == claimable - market.claimedOf[token][holder]
  IN Claim(amount, [PayOut(market, token, amount) EXCEPT
                      !.claimedOf[token][holder] = claimable,
                      !.claimableCollateral[token] = @ - amount])

ClaimFees(token) ==
  Claim(market.claimableFee[token],
        [PayOut(market, token, market.claimableFee[token]) EXCEPT !.claimableFee[token] = 0])

\* One interface and one affiliate: what they have to claim is the total.
ClaimUiFees(token) ==
  Claim(market.claimableUiFee[token],
        [PayOut(market, token, market.claimableUiFee[token]) EXCEPT !.claimableUiFee[token] = 0])

ClaimAffiliateReward(token) ==
  Claim(market.affiliateReward[token],
        [PayOut(market, token, market.affiliateReward[token]) EXCEPT !.affiliateReward[token] = 0])

SetClaimableCollateralFactorForTime(factor) ==
  /\ factorForTime # factor
  /\ factorForTime' = factor
  /\ UNCHANGED <<market, positions, factorForAccount, history, steps>>

SetClaimableCollateralFactorForAccount(holder, factor) ==
  /\ factorForAccount[holder] # factor
  /\ factorForAccount' = [factorForAccount EXCEPT ![holder] = factor]
  /\ UNCHANGED <<market, positions, factorForTime, history, steps>>

-----------------------------------------------------------------------------

Zero == [t \in Tokens |-> 0]
ZeroHolders == [t \in Tokens |-> [holder \in Holders |-> 0]]

\* A market with deposits and without positions.
Init ==
  /\ market = [balance |-> InitialPool, poolAmount |-> InitialPool,
               claimableFee |-> Zero, claimableUiFee |-> Zero, affiliateReward |-> Zero,
               claimableCollateral |-> Zero, claimableFunding |-> Zero,
               collateralOf |-> ZeroHolders, claimedOf |-> ZeroHolders, fundingOf |-> ZeroHolders,
               positionImpactPool |-> InitialImpactPool,
               openInterest |-> [side \in Sides |-> 0],
               openInterestInTokens |-> [side \in Sides |-> 0],
               collateralSum |-> [side \in Sides |-> 0],
               cumulativeBorrowingFactor |-> [isLong \in BOOLEAN |-> 0],
               totalBorrowing |-> [isLong \in BOOLEAN |-> 0]]
  /\ positions = [key \in PositionKeys |-> NoPosition]
  /\ factorForTime = 0
  /\ factorForAccount = [holder \in Holders |-> 0]
  /\ history = [funding |-> Zero, forgiven |-> Zero, dropped |-> Zero,
                roundedLosses |-> 0, insolvent |-> FALSE, restDropped |-> FALSE, paidDespiteDebt |-> FALSE]
  /\ steps = 0

Trade ==
  \E e \in Environments :
    \/ \E order \in IncreaseOrders : IncreasePosition(order, e)
    \/ \E order \in DecreaseOrders : DecreasePosition(order, e)
    \/ \E key \in PositionKeys :
         LiquidatePosition(key, e) \/ \E size \in AdlSizes : DeleveragePosition(key, size, e)

MakeClaim ==
  \E token \in Tokens :
    \/ \E account \in Accounts : ClaimFundingFees(account, token)
    \/ \E holder \in Holders : ClaimCollateral(holder, token)
    \/ ClaimFees(token) \/ ClaimUiFees(token) \/ ClaimAffiliateReward(token)

SetFactor ==
  \E factor \in ClaimableFactors :
    \/ SetClaimableCollateralFactorForTime(factor)
    \/ \E holder \in Holders : SetClaimableCollateralFactorForAccount(holder, factor)

Next == Trade \/ MakeClaim \/ SetFactor

Spec == Init /\ [][Next]_vars

-----------------------------------------------------------------------------

\* What the market's books say its balance of a token is for: the pool, those who
\* have fees, rewards, capped impact or funding to claim, and the positions.  The
\* ledger adds funding that one side has paid and the other not yet accrued (or the
\* reverse), less fees credited though a rounding left them unpaid, plus rewards
\* dropped by an insolvent close.
Owed(m, h, t) ==
  m.poolAmount[t] + m.claimableFee[t] + m.claimableUiFee[t] + m.affiliateReward[t]
    + m.claimableCollateral[t] + m.claimableFunding[t]
    + m.collateralSum[<<t, TRUE>>] + m.collateralSum[<<t, FALSE>>]
    + h.funding[t] - h.forgiven[t] + h.dropped[t]

\* Every token in the market's balance belongs to somebody: no trade, swap, fee,
\* claim or insolvent close leaves a token to nobody or promises it twice.
TokensAddUp == \A t \in Tokens : market.balance[t] = Owed(market, history, t)

KeysOf(side) ==
  {key \in PositionKeys : key.collateralToken = side[1] /\ key.isLong = side[2]}
KeysOn(isLong) == {key \in PositionKeys : key.isLong = isLong}

SumOfSizes(side) ==
  SumFunctionOnSet([key \in PositionKeys |-> positions[key].sizeInUsd], KeysOf(side))
SumOfTokens(side) ==
  SumFunctionOnSet([key \in PositionKeys |-> positions[key].sizeInTokens], KeysOf(side))
SumOfCollateral(side) ==
  SumFunctionOnSet([key \in PositionKeys |-> positions[key].collateralAmount], KeysOf(side))
SumOfBorrowing(isLong) ==
  SumFunctionOnSet([key \in PositionKeys |-> ApplyFactor(positions[key].sizeInUsd,
                                                         positions[key].borrowingFactor)],
                   KeysOn(isLong))

\* The totals that prices, reserves and borrowing fees are computed from are the
\* sums over the positions, whatever was rounded and whichever position closed.
\* Only a position that is removed with its last token, of a size that is not 0,
\* leaves that size in the totals.
PositionsAddUp ==
  /\ \A side \in Sides :
       /\ market.openInterest[side] >= SumOfSizes(side)
       /\ market.openInterestInTokens[side] = SumOfTokens(side)
       /\ market.collateralSum[side] = SumOfCollateral(side)
  /\ \A isLong \in BOOLEAN : market.totalBorrowing[isLong] >= SumOfBorrowing(isLong)
  /\ ~history.restDropped =>
       /\ \A side \in Sides : market.openInterest[side] = SumOfSizes(side)
       /\ \A isLong \in BOOLEAN : market.totalBorrowing[isLong] = SumOfBorrowing(isLong)

\* What the market keeps for claims is what its users have left to claim, and
\* nobody has claimed more capped impact than was set aside for him.
ClaimsAddUp ==
  \A t \in Tokens :
    /\ market.claimableFunding[t] = SumFunctionOnSet(market.fundingOf[t], Accounts)
    /\ market.claimableCollateral[t] =
         SumFunctionOnSet([h \in Holders |-> market.collateralOf[t][h] - market.claimedOf[t][h]],
                          Holders)
    /\ \A h \in Holders : market.claimedOf[t][h] <= market.collateralOf[t][h]

\* A close that leaves a cost unpaid pays the trader nothing, neither collateral
\* nor profit, at whichever of the costs the money ran out.
CostsComeFirst == ~history.paidDespiteDebt

\* The pool less what positions would gain and what the impact pool is worth.
PoolValue(m, prices) ==
  m.poolAmount[LongToken] * prices.long.min + m.poolAmount[ShortToken] * prices.short.min
    - PoolPnl(m, prices, TRUE) - PoolPnl(m, prices, FALSE)
    - m.positionImpactPool * prices.index.max

\* What the pool has lost at most to losses rounded in payForCost.
RoundedUsd(h, prices) ==
  h.roundedLosses * (Greatest(prices.long.min, prices.short.min) - 1)

\* While prices stand still, and no close leaves costs unpaid, no sequence of
\* trades takes value from those who have deposited, but for what is rounded when
\* a loss is paid in the other token: every other rounding favours the pool, and
\* positive impact is paid by the impact pool alone.
PoolNeverLoses ==
  ~history.insolvent =>
    \A prices \in {e.prices : e \in Environments} :
      PoolValue(market, prices) + RoundedUsd(history, prices) >=
        InitialPool[LongToken] * prices.long.min + InitialPool[ShortToken] * prices.short.min
          - InitialImpactPool * prices.index.max

\* The impact of closing a position leaves a price to close it at.
LeavesPrice(key, e) ==
  \E accrued \in {Accrue(e)}, position \in {positions[key]} :
    ExecutionPriceExists(e.prices, position, key.isLong,
      ImpactForDecrease(accrued, e.prices, e.impactUsd, position.sizeInUsd).usd,
      position.sizeInUsd)

\* What was credited as a fee though a rounding left it unpaid is covered by funding
\* that has been paid and is not promised to anybody yet.
Covered(h) == \A t \in Tokens : h.forgiven[t] <= h.funding[t]

\* A position that should be liquidated can be: whatever loss, funding, fees and
\* impact it owes, none of the checks on the way reverts because it cannot pay, and
\* no total of the market underflows.  There are two exceptions: an impact that
\* leaves no price to close at (NegativeExecutionPrice), and a balance that does
\* not suffice when fees were credited unpaid, or funding promised ahead: then
\* validateMarketTokenBalance reverts at the end of executeOrder, though a comment
\* says "if the position has insufficient / negative collateral a liquidation
\* transaction should still complete" (DecreasePositionUtils.sol:309).
LiquidationsComplete ==
  \A e \in Environments, key \in PositionKeys :
    ShouldBeLiquidated(key, e) /\ LeavesPrice(key, e) =>
      decreasePosition(LiquidationOrder(key), TRUE, e, LAMBDA nextMarket, nextPosition, nextHistory :
        Covered(nextHistory) => ValidBalance(nextMarket))

\* "affiliate rewards are still distributed even if the order is a liquidation
\* order" (DecreasePositionUtils.sol:296): a reward that the trader has paid for
\* reaches the affiliate.
AffiliatesAreRewarded == \A t \in Tokens : history.dropped[t] = 0
=============================================================================
