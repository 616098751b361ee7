SPECIFICATION Spec
CONSTANTS
  Tokens <- MCTokens
  Wnt = "WNT"
  Vaults = {"DepositVault", "WithdrawalVault", "OrderVault"}
  Unlimited = 99
  Casts <- NewWallet
  Wallets <- MCWallets
  MaxGasPrice = 2
  ActionCounts = {1, 2}
  TopUpAmounts = {2}
  GasUses = {1}
  SubaccountFees = {1}
INVARIANTS
  NewWalletsCanOrder
CHECK_DEADLOCK FALSE
