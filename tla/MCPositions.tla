----------------------------- MODULE MCPositions -----------------------------
(* Small markets for Positions: keys, orders and environments.              *)
EXTENDS Positions, TLC

CONSTANTS a, b

Price(min, max) == [min |-> min, max |-> max]

\* The index token is the long token, the short token is worth one.
Env(price, impactUsd, closingImpactUsd, fundingFee, longClaim, shortClaim, borrowing, works) ==
  [prices |-> [index |-> price, long |-> price, short |-> Price(1, 1)],
   impactUsd |-> impactUsd, closingImpactUsd |-> closingImpactUsd,
   distribution |-> borrowing, borrowing |-> [isLong \in BOOLEAN |-> borrowing],
   fundingFee |-> fundingFee,
   fundingClaim |-> (LongToken :> longClaim @@ ShortToken :> shortClaim),
   swapWorks |-> works]

Key(account, token, isLong) == [account |-> account, collateralToken |-> token, isLong |-> isLong]

IncreaseOrder(key, sizeDeltaUsd, amount, ui) ==
  [key |-> key, sizeDeltaUsd |-> sizeDeltaUsd, amount |-> amount, ui |-> ui]
DecreaseOrder(key, limit, sizeDeltaUsd, collateralDelta, swap, ui) ==
  [key |-> key, limit |-> limit, sizeDeltaUsd |-> sizeDeltaUsd,
   collateralDelta |-> collateralDelta, swap |-> swap, ui |-> ui]

FeeFactors == [positive \in BOOLEAN |-> 1]
ImpactFactors == [positive \in BOOLEAN |-> 1]
Pool == LongToken :> 8 @@ ShortToken :> 16

-----------------------------------------------------------------------------
\* Two traders on one side of the market with the same collateral, and positions of
\* both sides with collateral that profits are paid in and with the other token;
\* prices move.  From a price of 8 on one token is worth two positions of the least
\* size, so that a part of a position can take its last token; the fifth environment
\* has an impact that leaves no price to close at.
LongA == Key(a, ShortToken, TRUE)
LongB == Key(b, ShortToken, TRUE)
ShortA == Key(a, LongToken, FALSE)
OwnLongB == Key(b, LongToken, TRUE)
OwnShortB == Key(b, ShortToken, FALSE)
MovingKeys == {LongA, LongB, ShortA, OwnLongB, OwnShortB}
MovingIncreases ==
  {IncreaseOrder(LongA, 8, 6, FALSE), IncreaseOrder(LongA, 0, 2, FALSE),
   IncreaseOrder(LongB, 8, 10, TRUE), IncreaseOrder(ShortA, 8, 4, FALSE),
   IncreaseOrder(OwnLongB, 8, 6, TRUE), IncreaseOrder(OwnLongB, 4, 3, TRUE),
   IncreaseOrder(OwnShortB, 8, 6, FALSE)}
MovingDecreases ==
  {DecreaseOrder(LongA, FALSE, 4, 1, "NoSwap", FALSE),
   DecreaseOrder(LongA, FALSE, 0, 2, "NoSwap", FALSE),
   DecreaseOrder(LongB, FALSE, 8, 0, "SwapPnlTokenToCollateralToken", TRUE),
   DecreaseOrder(LongB, TRUE, 5, 0, "SwapCollateralTokenToPnlToken", FALSE),
   DecreaseOrder(ShortA, TRUE, 12, 0, "NoSwap", FALSE),
   DecreaseOrder(OwnLongB, TRUE, 9, 0, "NoSwap", TRUE),
   DecreaseOrder(OwnShortB, FALSE, 4, 2, "NoSwap", FALSE)}
MovingEnvironments ==
  {Env(Price(8, 8), 0, 0, 0, 0, 0, 0, TRUE),
   Env(Price(4, 4), -4, -1, 1, 0, 1, 0, TRUE),
   Env(Price(1, 1), -1, 0, 2, 1, 0, 1, FALSE),
   Env(Price(2, 3), 2, 1, 0, 1, 0, 1, TRUE),
   Env(Price(1, 1), -4, -4, 0, 0, 0, 0, TRUE),
   Env(Price(12, 14), 4, -1, 1, 0, 0, 2, TRUE)}

-----------------------------------------------------------------------------
\* Prices stand still, while impact comes and goes and is claimed; no fees that
\* would hide a loss.  The last two environments take collateral away (funding and
\* borrowing, then funding alone), so that a loss is paid in the other token too.
NoFees == [positive \in BOOLEAN |-> 0]
StillKeys == {LongA, ShortA}
StillIncreases ==
  {IncreaseOrder(LongA, 9, 8, FALSE), IncreaseOrder(ShortA, 9, 4, FALSE)}
StillDecreases ==
  {DecreaseOrder(LongA, FALSE, 5, 1, "SwapPnlTokenToCollateralToken", FALSE),
   DecreaseOrder(LongA, TRUE, 20, 0, "NoSwap", FALSE),
   DecreaseOrder(ShortA, FALSE, 4, 0, "SwapCollateralTokenToPnlToken", FALSE),
   DecreaseOrder(ShortA, TRUE, 20, 0, "NoSwap", FALSE)}
StillEnvironments ==
  {Env(Price(3, 3), -4, 0, 0, 0, 0, 0, FALSE),
   Env(Price(3, 3), 2, 0, 0, 0, 0, 0, TRUE),
   Env(Price(3, 3), 1, 0, 1, 0, 1, 1, TRUE),
   Env(Price(3, 3), 0, 0, 3, 0, 1, 0, TRUE)}
=============================================================================
