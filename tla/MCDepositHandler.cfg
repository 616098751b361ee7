SPECIFICATION DepositFairSpec
CONSTANTS
  a1 = a1
  k1 = k1
  usdc = usdc
  Wnt = Wnt
  Market = Market
  NoAddress = NoAddress
  FirstDepositReceiver = FirstDepositReceiver
  Tokens = {Wnt, usdc, Market}
  Accounts = {a1}
  OrderKeepers = {k1}
  RequestedFees = {1}
  RequestedMinima = {0, 1}
  MintAmounts = {0, 1}
  TransferAmounts = {1, 2}
  GasCosts = {0, 2}
  MinExecutionFee = 1
  MinMarketTokensForFirstDeposit = 1
  RequestExpirationBlockAge = 1
  MaxOraclePriceAge = 1
  MaxNonce = 2
  MaxBlock = 3
  LastCreateBlock = 2
  MaxBalance = 2
  MaxSupply = 2
PROPERTIES
  DepositsAreSettled
  DepositorsCanLeave
  ImplementsEscrow
CHECK_DEADLOCK FALSE
