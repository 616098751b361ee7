SPECIFICATION Spec
CONSTANTS
    MarketList <- MCMarketList
    FunTokens <- MCTokens
    Networks <- MCNetworks
    Selections <- MCSelections
    FirstValue <- MCFirstValue
    FirstDefined <- MCFirstDefined
    Overrides <- MCOverrides
    Recommended <- MCRecommended
    Pow <- MCPow
    One = 1
    BasisPoints = 1
    Tolerance = 0
    SecondsPerYear = 1
    MaxFactor = 1
INVARIANTS
    DeployedAsUpdated
    TracksInventory
PROPERTIES
    UpdateSettles
    SettingsAgree
CHECK_DEADLOCK FALSE
