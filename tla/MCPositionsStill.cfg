SPECIFICATION Spec
CONSTANTS
  a = a
  b = b
  HoldingAddress = holding
  LongToken = long
  ShortToken = short
  Precision = 4
  PositionFeeFactor <- NoFees
  TotalRebateFactor = 2
  TraderDiscountFactor = 2
  PositionFeeReceiverFactor = 2
  BorrowingFeeReceiverFactor = 2
  UiFeeFactor = 0
  MaxPositionImpactFactor <- ImpactFactors
  MaxImpactFactorForLiquidations = 1
  MaxPnlFactorForTraders = 2
  ReserveFactor = 4
  OpenInterestReserveFactor = 4
  MinCollateralFactor = 0
  MinCollateralUsd = 1
  MinPositionSizeUsd = 4
  MaxOpenInterest = 16
  PositionKeys <- StillKeys
  Referred = {a}
  IncreaseOrders <- StillIncreases
  DecreaseOrders <- StillDecreases
  AdlSizes = {4}
  Environments <- StillEnvironments
  ClaimableFactors = {2, 4}
  MinPositionImpactPool = 1
  InitialPool <- Pool
  InitialImpactPool = 2
  MaxSteps = 4
INVARIANTS
  PoolNeverLoses
  ClaimsAddUp
CHECK_DEADLOCK FALSE
