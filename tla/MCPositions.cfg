SPECIFICATION Spec
CONSTANTS
  a = a
  b = b
  HoldingAddress = holding
  LongToken = long
  ShortToken = short
  Precision = 4
  PositionFeeFactor <- FeeFactors
  TotalRebateFactor = 2
  TraderDiscountFactor = 2
  PositionFeeReceiverFactor = 2
  BorrowingFeeReceiverFactor = 2
  UiFeeFactor = 1
  MaxPositionImpactFactor <- ImpactFactors
  MaxImpactFactorForLiquidations = 1
  MaxPnlFactorForTraders = 2
  ReserveFactor = 4
  OpenInterestReserveFactor = 4
  MinCollateralFactor = 0
  MinCollateralUsd = 1
  MinPositionSizeUsd = 4
  MaxOpenInterest = 16
  PositionKeys <- MovingKeys
  Referred = {a}
  IncreaseOrders <- MovingIncreases
  DecreaseOrders <- MovingDecreases
  AdlSizes = {5, 8}
  Environments <- MovingEnvironments
  ClaimableFactors = {}
  MinPositionImpactPool = 1
  InitialPool <- Pool
  InitialImpactPool = 2
  MaxSteps = 4
INVARIANTS
  TypeOK
  TokensAddUp
  PositionsAddUp
  CostsComeFirst
  LiquidationsComplete
CHECK_DEADLOCK FALSE
