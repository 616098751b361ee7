------------------------------ MODULE MCSettings ------------------------------
EXTENDS Settings

Perp == [name |-> "GM", index |-> "WGAS", long |-> "WGAS", short |-> "USDT", swapOnly |-> FALSE]
Spot == [name |-> "SM", index |-> "zero", long |-> "WGAS", short |-> "USDC", swapOnly |-> TRUE]

MCMarketList == <<Perp, Spot>>
MCTokens == <<"WGAS", "USDC">>
MCNetworks == {"neoX", "neoXT4"}

\* Every field the lists name is there with the value 1, but the literal zeros
\* of baseMarketConfig and the isDisabled nobody sets; both markets belong to
\* the virtual market 1.
Zeros == {"fundingIncreaseFactorPerSecond", "fundingDecreaseFactorPerSecond",
          "minFundingFactorPerSecond", "maxFundingFactorPerSecond", "thresholdForStableFunding",
          "thresholdForDecreaseFunding", "positionImpactPoolDistributionRate",
          "minPositionImpactPoolAmount"}
MCFirstValue(scope, field) == IF field \in Zeros THEN 0 ELSE 1
MCFirstDefined(scope, field) == field # "isDisabled"

AllBases == {s.key[1] : s \in ToSet(MarketSettings(Perp) \o GeneralSettings)}
Select(bases, scripts, L, edits, c, n) ==
    [bases |-> bases, scripts |-> scripts, listed |-> L, edits |-> edits,
     changes |-> c, crashes |-> n]

\* Everything at once when only the deploy scripts run; then the settings that
\* depend on each other, or that are treated in a way of their own, a few at a
\* time, with what can happen to them: a value that changes, one that the
\* validation or Config refuses, a literal zero that becomes a value and the
\* other way round.
MCSelections ==
    { Select(AllBases, {"deploy"}, {Perp, Spot}, {}, 0, 0),
      Select({"VIRTUAL_MARKET_ID", "MAX_POOL_AMOUNT", "MAX_POOL_AMOUNT_FOR_DEPOSIT",
              "TOKEN_TRANSFER_GAS_LIMIT"}, {"deploy", "markets"}, {Perp, Spot}, {}, 0, 0),
      Select({"TOKEN_TRANSFER_GAS_LIMIT", "VIRTUAL_MARKET_ID"}, {"deploy", "markets", "tokens"},
             {Perp, Spot}, { <<"WGAS", "transferGasLimit", 2>> }, 1, 0),
      Select({"MAX_OPEN_INTEREST", "SWAP_FEE_FACTOR", "IS_MARKET_DISABLED",
              "THRESHOLD_FOR_STABLE_FUNDING"}, {"deploy", "markets"}, {Perp},
             { <<"GM", "maxOpenInterestForLongs", 2>>,
               <<"GM", "negativePositionImpactFactor", 2>>,
               <<"GM", "swapFeeFactorForPositiveImpact", 2>>,
               <<"GM", "thresholdForStableFunding", 1>> }, 1, 0),
      Select({"POSITION_IMPACT_POOL_DISTRIBUTION_RATE", "MIN_POSITION_IMPACT_POOL_AMOUNT"},
             {"deploy", "impact"}, {Perp}, { <<"GM", "positionImpactPoolDistributionRate", 1>> }, 1, 1),
      Select({"MAX_UI_FEE_FACTOR", "FEE_RECEIVER", "ESTIMATED_GAS_FEE_BASE_AMOUNT",
              "REQUEST_EXPIRATION_BLOCK_AGE"}, {"deploy", "general"}, {Perp},
             { <<"general", "estimatedGasFeeBaseAmount", 0>>,
               <<"general", "maxUiFeeFactor", 2>> }, 1, 0) }

MCOverrides == { << <<"MAX_OPEN_INTEREST", "GM", "true">>, 2>>,
                 << <<"IS_MARKET_DISABLED", "GM">>, 1>>,
                 << <<"ESTIMATED_GAS_FEE_BASE_AMOUNT">>, 2>> }

Row == [negativeImpactFactor |-> 1, expectedSwapImpactRatio |-> 1,
        expectedPositionImpactRatio |-> 1]
MCRecommended == [n \in {"neoX"} |-> [s \in {"WGAS", "stablecoins"} |-> Row]]
MCPow(x, e) == x
=============================================================================
