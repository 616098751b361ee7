SPECIFICATION FairSpec
CONSTANTS
  a1 = a1
  a2 = a2
  k1 = k1
  k2 = k2
  usdc = usdc
  Wnt = Wnt
  NoAddress = NoAddress
  Tokens = {Wnt}
  Accounts = {a1}
  OrderKeepers = {k1, k2}
  FrozenOrderKeepers = {k1}
  RequestedTypes = {"MarketIncrease", "MarketDecrease", "LimitDecrease", "LimitSwap"}
  RequestedSizes = {1}
  RequestedFees = {1}
  RequestedCollaterals = {0}
  TransferAmounts = {1}
  GasCosts = {1}
  MinExecutionFee = 1
  RequestExpirationBlockAge = 1
  MaxOraclePriceAge = 2
  SwitchableFeatures <- MCFeatures
  MaxNonce = 2
  MaxBlock = 4
  LastCreateBlock = 2
  MaxBalance = 2
  MaxPositionSize = 1
PROPERTIES
  NoExecutionAtOlderPrices
  NoClosingAtPricesBeforeIncrease
  FrozenOrdersWait
  MarketOrdersAreSettled
  OwnersCanLeave
CHECK_DEADLOCK FALSE
