SPECIFICATION Spec
CONSTANTS
  Tokens <- MCTokens
  Wnt = "WNT"
  Vaults = {"DepositVault", "WithdrawalVault", "OrderVault"}
  Unlimited = 99
  Casts <- MCCasts
  Wallets <- MCWallets
  MaxGasPrice = 2
  ActionCounts = {1, 2}
  TopUpAmounts = {2}
  GasUses = {1}
  SubaccountFees = {1}
INVARIANTS
  UndisturbedRunsSucceed
  RequestsAsAsked
  NothingStranded
  SubaccountIsBounded
CHECK_DEADLOCK FALSE
