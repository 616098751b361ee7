---------------------------- MODULE PositionUtils ----------------------------
(***************************************************************************)
(* The arithmetic of positions in one market: profit and loss, fees, price *)
(* impact, liquidation, and the order in which a position that is reduced  *)
(* pays its costs.  A market is a record of what MarketUtils keeps in the  *)
(* DataStore for it, and of the token balances of its MarketToken contract.*)
(***************************************************************************)
EXTENDS Integers

CONSTANTS
  LongToken, ShortToken,
  Precision,                    \* Precision.FLOAT_PRECISION
  PositionFeeFactor,            \* by the sign of the price impact
  TotalRebateFactor, TraderDiscountFactor,
  PositionFeeReceiverFactor, BorrowingFeeReceiverFactor, UiFeeFactor,
  MaxPositionImpactFactor,      \* by the sign of the price impact
  MaxImpactFactorForLiquidations,
  MaxPnlFactorForTraders, ReserveFactor, OpenInterestReserveFactor,
  MinCollateralFactor, MinCollateralUsd, MinPositionSizeUsd, MaxOpenInterest

Tokens == {LongToken, ShortToken}
Sides == Tokens \X BOOLEAN      \* a collateral token, and whether long

ASSUME PositionUtilsAssumption ==
  /\ LongToken # ShortToken
  /\ Precision \in Nat \ {0}
  /\ PositionFeeFactor \in [BOOLEAN -> Nat]
  /\ MaxPositionImpactFactor \in [BOOLEAN -> 0..Precision]
  /\ {TotalRebateFactor, TraderDiscountFactor, PositionFeeReceiverFactor,
      BorrowingFeeReceiverFactor} \subseteq 0..Precision
  /\ {UiFeeFactor, MaxImpactFactorForLiquidations, MaxPnlFactorForTraders, ReserveFactor,
      OpenInterestReserveFactor, MinCollateralFactor, MinCollateralUsd,
      MinPositionSizeUsd, MaxOpenInterest} \subseteq Nat

-----------------------------------------------------------------------------
(* Calc and Precision. *)

Least(a, b) == IF a < b THEN a ELSE b
Greatest(a, b) == IF a < b THEN b ELSE a

RoundUpDivision(a, b) == (a + b - 1) \div b

ApplyFactor(value, factor) == (value * factor) \div Precision

\* Division of a signed by a positive number: the EVM rounds towards 0.
Quotient(a, b) == IF a < 0 THEN -((-a) \div b) ELSE a \div b

\* Rounds away from 0.
RoundUpMagnitudeDivision(a, b) ==
  IF a < 0 THEN -RoundUpDivision(-a, b) ELSE RoundUpDivision(a, b)

-----------------------------------------------------------------------------
(* Prices and pools.  A price has a min and a max. *)

TokenPrice(token, prices) == IF token = LongToken THEN prices.long ELSE prices.short
PnlToken(isLong) == IF isLong THEN LongToken ELSE ShortToken

\* The price at which a position is worth less (or, maximized, more).
PriceForPnl(price, isLong, maximize) == IF isLong = maximize THEN price.max ELSE price.min

OpenInterest(market, isLong) ==
  market.openInterest[<<LongToken, isLong>>] + market.openInterest[<<ShortToken, isLong>>]
OpenInterestInTokens(market, isLong) ==
  market.openInterestInTokens[<<LongToken, isLong>>] + market.openInterestInTokens[<<ShortToken, isLong>>]

\* What positions or the whole side of a market would gain.
GainOf(sizeInUsd, sizeInTokens, price, isLong) ==
  IF isLong THEN sizeInTokens * price - sizeInUsd ELSE sizeInUsd - sizeInTokens * price

PoolPnl(market, prices, isLong) ==
  IF OpenInterest(market, isLong) = 0 \/ OpenInterestInTokens(market, isLong) = 0 THEN 0
  ELSE GainOf(OpenInterest(market, isLong), OpenInterestInTokens(market, isLong),
              PriceForPnl(prices.index, isLong, TRUE), isLong)

PoolUsd(market, prices, isLong) ==
  market.poolAmount[PnlToken(isLong)] * TokenPrice(PnlToken(isLong), prices).min

ReservedUsd(market, prices, isLong) ==
  IF isLong THEN OpenInterestInTokens(market, TRUE) * prices.index.max
            ELSE OpenInterest(market, FALSE)

ValidReserve(market, prices, isLong) ==
  \A factor \in {ReserveFactor, OpenInterestReserveFactor} :
    ReservedUsd(market, prices, isLong) <= ApplyFactor(PoolUsd(market, prices, isLong), factor)

\* PositionUtils.getPositionPnlUsd: tokens of a part are rounded against the trader.
SizeDeltaInTokens(position, isLong, sizeDeltaUsd) ==
  IF sizeDeltaUsd = position.sizeInUsd THEN position.sizeInTokens
  ELSE IF isLong
    THEN RoundUpDivision(position.sizeInTokens * sizeDeltaUsd, position.sizeInUsd)
    ELSE (position.sizeInTokens * sizeDeltaUsd) \div position.sizeInUsd

\* The gain of a whole position, a share of what the pool can pay if it is too large.
TotalPositionPnl(market, prices, position, isLong) ==
  LET gain == GainOf(position.sizeInUsd, position.sizeInTokens,
                     PriceForPnl(prices.index, isLong, FALSE), isLong)
      poolPnl == PoolPnl(market, prices, isLong)
      capped == Least(poolPnl, ApplyFactor(PoolUsd(market, prices, isLong), MaxPnlFactorForTraders))
  IN IF gain > 0 /\ poolPnl > 0 /\ 0 < capped /\ capped < poolPnl
       THEN (gain * capped) \div poolPnl
       ELSE gain

PositionPnlUsd(market, prices, position, isLong, sizeDeltaUsd) ==
  Quotient(TotalPositionPnl(market, prices, position, isLong)
             * SizeDeltaInTokens(position, isLong, sizeDeltaUsd), position.sizeInTokens)

-----------------------------------------------------------------------------
(* Fees. *)

BorrowingFeeUsd(market, position, isLong) ==
  ApplyFactor(position.sizeInUsd, market.cumulativeBorrowingFactor[isLong] - position.borrowingFactor)

\* PositionPricingUtils.getPositionFees: the parts of the position fee, the
\* borrowing fee and the fee of the interface, in the collateral token.
PositionFees(market, position, isLong, price, sizeDeltaUsd, positiveImpact, referred, ui, fundingFee) ==
  LET positionFee == ApplyFactor(sizeDeltaUsd, PositionFeeFactor[positiveImpact]) \div price.min
      rebate == IF referred THEN ApplyFactor(positionFee, TotalRebateFactor) ELSE 0
      discount == ApplyFactor(rebate, TraderDiscountFactor)
      protocolFee == positionFee - rebate
      receiverPart == ApplyFactor(protocolFee, PositionFeeReceiverFactor)
      borrowingFee == BorrowingFeeUsd(market, position, isLong) \div price.min
      borrowingPart == ApplyFactor(borrowingFee, BorrowingFeeReceiverFactor)
      uiFee == IF ui THEN ApplyFactor(sizeDeltaUsd, UiFeeFactor) \div price.min ELSE 0
      excludingFunding == positionFee + borrowingFee + uiFee - discount
  IN [forPool |-> protocolFee - receiverPart + borrowingFee - borrowingPart,
      forReceiver |-> receiverPart + borrowingPart,
      forUi |-> uiFee,
      forAffiliate |-> rebate - discount,
      funding |-> fundingFee,
      excludingFunding |-> excludingFunding,
      total |-> excludingFunding + fundingFee]

-----------------------------------------------------------------------------
(* Price impact.  The impact itself is given; these are its limits. *)

\* MarketUtils.getCappedPositionImpactUsd.
CappedImpactUsd(market, prices, impactUsd, sizeDeltaUsd) ==
  IF impactUsd < 0 THEN impactUsd
  ELSE Least(Least(impactUsd, market.positionImpactPool * prices.index.min),
             ApplyFactor(sizeDeltaUsd, Least(MaxPositionImpactFactor[TRUE],
                                             MaxPositionImpactFactor[FALSE])))

\* PositionUtils.getExecutionPriceForIncrease: the impact in index tokens.
ImpactAmountForIncrease(prices, impactUsd) ==
  IF impactUsd > 0 THEN impactUsd \div prices.index.max
  ELSE RoundUpMagnitudeDivision(impactUsd, prices.index.min)

\* The index tokens of an increase: rounded, and moved by the impact, against
\* the trader.  It must be positive.
TokensForIncrease(prices, impactUsd, sizeDeltaUsd, isLong) ==
  IF isLong
  THEN sizeDeltaUsd \div prices.index.max + ImpactAmountForIncrease(prices, impactUsd)
  ELSE RoundUpDivision(sizeDeltaUsd, prices.index.min) - ImpactAmountForIncrease(prices, impactUsd)

\* PositionUtils.getExecutionPriceForDecrease: a negative impact is limited, and
\* the rest of it is kept for the trader to claim.
ImpactForDecrease(market, prices, impactUsd, sizeDeltaUsd) ==
  LET capped == CappedImpactUsd(market, prices, impactUsd, sizeDeltaUsd)
      least == -ApplyFactor(sizeDeltaUsd, MaxPositionImpactFactor[FALSE])
  IN IF sizeDeltaUsd = 0 THEN [usd |-> 0, diffUsd |-> 0]
     ELSE IF capped < least THEN [usd |-> least, diffUsd |-> least - capped]
     ELSE [usd |-> capped, diffUsd |-> 0]

\* BaseOrderUtils.getExecutionPriceForDecrease: the impact must leave a price.
ExecutionPriceExists(prices, position, isLong, impactUsd, sizeDeltaUsd) ==
  LET adjusted == IF isLong THEN impactUsd ELSE -impactUsd
      price == IF isLong THEN prices.index.min ELSE prices.index.max
  IN sizeDeltaUsd > 0 =>
       /\ -adjusted <= sizeDeltaUsd
       /\ price + Quotient(Quotient(position.sizeInUsd * adjusted, position.sizeInTokens),
                           sizeDeltaUsd) >= 0

-----------------------------------------------------------------------------
(* Liquidation. *)

\* PositionUtils.isPositionLiquidatable, at the impact of closing the position.
IsLiquidatable(market, prices, position, collateralToken, isLong, impactUsd, referred, fundingFee, withMin) ==
  LET price == TokenPrice(collateralToken, prices)
      maxImpact == ApplyFactor(position.sizeInUsd, MaxImpactFactorForLiquidations)
      impact == IF impactUsd >= 0 THEN 0
                ELSE IF impactUsd < -maxImpact THEN -maxImpact ELSE impactUsd
      fees == PositionFees(market, position, isLong, price, position.sizeInUsd,
                           impactUsd > 0, referred, FALSE, fundingFee)
      remaining == position.collateralAmount * price.min
                     + PositionPnlUsd(market, prices, position, isLong, position.sizeInUsd)
                     + impact - fees.total * price.min
  IN \/ withMin /\ remaining < MinCollateralUsd
     \/ remaining <= 0
     \/ remaining < ApplyFactor(position.sizeInUsd, MinCollateralFactor)

\* PositionUtils.willPositionCollateralBeSufficient, with the value it compares.
RemainingCollateralUsd(price, collateralAmount, realizedPnlUsd) ==
  collateralAmount * price.min + Least(realizedPnlUsd, 0)
SufficientCollateral(remainingUsd, sizeInUsd) ==
  remainingUsd >= 0 /\ remainingUsd >= ApplyFactor(sizeInUsd, MinCollateralFactor)

-----------------------------------------------------------------------------
(* Paying costs.                                                             *)

\* Fault: the collateral of the position is spared.
PayForCostFromOutput(values, costUsd, price, secondaryPrice) ==
  LET cost == RoundUpDivision(costUsd, price)
      fromOutput == Least(values.output, cost)
      rest == ((cost - fromOutput) * price) \div secondaryPrice
      fromSecondary == Least(values.secondary, rest)
  IN [output |-> values.output - fromOutput,
      collateral |-> values.collateral,
      secondary |-> values.secondary - fromSecondary,
      paid |-> fromOutput,
      paidSecondary |-> fromSecondary,
      remainingUsd |-> (rest - fromSecondary) * secondaryPrice]

\* DecreasePositionCollateralUtils.payForCost: from the output, then from the
\* collateral, then, converted and rounded down, from the secondary output.
PayForCost(values, costUsd, price, secondaryPrice) ==
  LET cost == RoundUpDivision(costUsd, price)
      fromOutput == Least(values.output, cost)
      fromCollateral == Least(values.collateral, cost - fromOutput)
      rest == ((cost - fromOutput - fromCollateral) * price) \div secondaryPrice
      fromSecondary == Least(values.secondary, rest)
  IN [output |-> values.output - fromOutput,
      collateral |-> values.collateral - fromCollateral,
      secondary |-> values.secondary - fromSecondary,
      paid |-> fromOutput + fromCollateral,
      paidSecondary |-> fromSecondary,
      remainingUsd |-> (rest - fromSecondary) * secondaryPrice]
=============================================================================
