SPECIFICATION Spec
CONSTANTS
  a1 = a1
  k1 = k1
  Wnt = Wnt
  Market = Market
  NoAddress = NoAddress
  FirstDepositReceiver = FirstDepositReceiver
  Tokens = {Wnt, Market}
  Accounts = {a1}
  OrderKeepers = {k1}
  RequestedFees = {1}
  RequestedMinima = {1}
  MintAmounts = {1, 2}
  TransferAmounts = {1, 2}
  GasCosts = {2}
  MinExecutionFee = 1
  MinMarketTokensForFirstDeposit = 1
  RequestExpirationBlockAge = 0
  MaxOraclePriceAge = 2
  MaxNonce = 3
  MaxBlock = 4
  LastCreateBlock = 3
  MaxBalance = 2
  MaxSupply = 3
INVARIANTS
  TypeOK
  SupplyAddsUp
  LockedSharesStay
  VaultsCoverRequests
PROPERTIES
  WithdrawalsImplementEscrow
CHECK_DEADLOCK FALSE
