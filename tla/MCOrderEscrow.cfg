SPECIFICATION Spec
CONSTANTS
  a1 = a1
  a2 = a2
  k1 = k1
  k2 = k2
  usdc = usdc
  Wnt = Wnt
  NoAddress = NoAddress
  Tokens = {Wnt, usdc}
  Accounts = {a1}
  OrderKeepers = {k1}
  FrozenOrderKeepers = {k1}
  RequestedTypes = {"MarketIncrease", "LimitSwap", "StopLossDecrease"}
  RequestedSizes = {0, 1}
  RequestedFees = {1}
  RequestedCollaterals = {0}
  TransferAmounts = {1, 2}
  GasCosts = {0, 1, 3}
  MinExecutionFee = 1
  RequestExpirationBlockAge = 1
  MaxOraclePriceAge = 2
  SwitchableFeatures = {}
  MaxNonce = 2
  MaxBlock = 3
  LastCreateBlock = 1
  MaxBalance = 3
  MaxPositionSize = 1
INVARIANTS
  TypeOK
  VaultCoversOrders
PROPERTIES
  SettlementIsExact
  ImplementsEscrow
CHECK_DEADLOCK FALSE
