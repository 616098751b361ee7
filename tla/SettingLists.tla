----------------------------- MODULE SettingLists -----------------------------
(***************************************************************************)
(* The settings the scripts write into the DataStore, in the order they    *)
(* write them.  A setting is the key, the place of its value in the        *)
(* configuration (config/markets.ts, config/general.ts, config/tokens.ts)  *)
(* and what the script does about a missing or a falsy value.              *)
(* A market is a record: its name stands for its market token.             *)
(***************************************************************************)
EXTENDS Naturals, SequencesExt

CONSTANTS MarketList,  \* every market, in the order of config/markets.ts
          FunTokens    \* the tokens deployFunTokens deploys, in order

Setting(base, args, scope, field) ==
    [key |-> <<base>> \o args, scope |-> scope, field |-> field, when |-> "always"]
With(when, settings) == [i \in DOMAIN settings |-> [settings[i] EXCEPT !.when = when]]
IfTruthy(settings) == With("truthy", settings)    \* if (marketConfig[name])
IfDefined(settings) == With("defined", settings)  \* if (... !== undefined)
Always(settings) == With("always", settings)

\* Settings of one scope whose keys have no arguments beside the scope's own.
Named(scope, args, rows) ==
    [i \in DOMAIN rows |-> Setting(rows[i][1], args, scope, rows[i][2])]

\* A key with a boolean argument: long or short, positive or negative impact.
Pair(m, base, forTrue, forFalse) ==
    <<Setting(base, <<m.name, "true">>, m.name, forTrue),
      Setting(base, <<m.name, "false">>, m.name, forFalse)>>
PnlPair(m, type, forTrue, forFalse) ==
    <<Setting("MAX_PNL_FACTOR", <<type, m.name, "true">>, m.name, forTrue),
      Setting("MAX_PNL_FACTOR", <<type, m.name, "false">>, m.name, forFalse)>>

-----------------------------------------------------------------------------
(* deploy/deployAndConfigureMarkets.ts.                                    *)

VirtualIds(m) == IfTruthy(
    <<Setting("VIRTUAL_MARKET_ID", <<m.name>>, m.name, "virtualMarketId"),
      Setting("VIRTUAL_TOKEN_ID", <<m.index>>, m.name, "virtualTokenIdForIndexToken")>>)

PoolLimits(m) ==
    <<Setting("MAX_POOL_AMOUNT", <<m.name, m.long>>, m.name, "maxLongTokenPoolAmount"),
      Setting("MAX_POOL_AMOUNT", <<m.name, m.short>>, m.name, "maxShortTokenPoolAmount"),
      Setting("MAX_POOL_AMOUNT_FOR_DEPOSIT", <<m.name, m.long>>, m.name,
              "maxLongTokenPoolAmountForDeposit"),
      Setting("MAX_POOL_AMOUNT_FOR_DEPOSIT", <<m.name, m.short>>, m.name,
              "maxShortTokenPoolAmountForDeposit")>>

SwapExponent(m) ==
    <<Setting("SWAP_IMPACT_EXPONENT_FACTOR", <<m.name>>, m.name, "swapImpactExponentFactor")>>
SwapFactors(m) == IfDefined(
    Pair(m, "SWAP_FEE_FACTOR", "swapFeeFactorForPositiveImpact", "swapFeeFactorForNegativeImpact")
    \o Pair(m, "SWAP_IMPACT_FACTOR", "positiveSwapImpactFactor", "negativeSwapImpactFactor"))
SwapSettings(m) ==
    IfTruthy(SwapExponent(m))
    \o IfDefined(<<Setting("IS_MARKET_DISABLED", <<m.name>>, m.name, "isDisabled")>>)
    \o SwapFactors(m)

CollateralAndReserves(m) ==
    <<Setting("MIN_COLLATERAL_FACTOR", <<m.name>>, m.name, "minCollateralFactor")>>
    \o Pair(m, "MIN_COLLATERAL_FACTOR_FOR_OPEN_INTEREST_MULTIPLIER",
            "minCollateralFactorForOpenInterestMultiplierLong",
            "minCollateralFactorForOpenInterestMultiplierShort")
    \o Pair(m, "MAX_OPEN_INTEREST", "maxOpenInterestForLongs", "maxOpenInterestForShorts")
    \o Pair(m, "RESERVE_FACTOR", "reserveFactorLongs", "reserveFactorShorts")
    \o Pair(m, "OPEN_INTEREST_RESERVE_FACTOR", "openInterestReserveFactorLongs",
            "openInterestReserveFactorShorts")

PnlFactors(m) ==
    PnlPair(m, "TRADERS", "maxPnlFactorForTradersLongs", "maxPnlFactorForTradersShorts")
    \o PnlPair(m, "ADL", "maxPnlFactorForAdlLongs", "maxPnlFactorForAdlShorts")
    \o Pair(m, "MIN_PNL_FACTOR_AFTER_ADL", "minPnlFactorAfterAdlLongs", "minPnlFactorAfterAdlShorts")
    \o PnlPair(m, "DEPOSITS", "maxPnlFactorForDepositsLongs", "maxPnlFactorForDepositsShorts")
    \o PnlPair(m, "WITHDRAWALS", "maxPnlFactorForWithdrawalsLongs",
               "maxPnlFactorForWithdrawalsShorts")

\* The gas a transfer of the market's own token may use.
MarketTokenGas(m) ==
    <<Setting("TOKEN_TRANSFER_GAS_LIMIT", <<m.name>>, "general", "tokenTransferGasLimit")>>

\* A literal 0 of the configuration is falsy and leaves the chain as it is.
FundingSettings(m) ==
    IfTruthy(Named(m.name, <<m.name>>,
        << <<"POSITION_IMPACT_EXPONENT_FACTOR", "positionImpactExponentFactor">>,
           <<"FUNDING_FACTOR", "fundingFactor">>,
           <<"FUNDING_INCREASE_FACTOR_PER_SECOND", "fundingIncreaseFactorPerSecond">>,
           <<"FUNDING_DECREASE_FACTOR_PER_SECOND", "fundingDecreaseFactorPerSecond">>,
           <<"MIN_FUNDING_FACTOR_PER_SECOND", "minFundingFactorPerSecond">>,
           <<"MAX_FUNDING_FACTOR_PER_SECOND", "maxFundingFactorPerSecond">>,
           <<"THRESHOLD_FOR_STABLE_FUNDING", "thresholdForStableFunding">>,
           <<"THRESHOLD_FOR_DECREASE_FUNDING", "thresholdForDecreaseFunding">>,
           <<"POSITION_IMPACT_POOL_DISTRIBUTION_RATE", "positionImpactPoolDistributionRate">>,
           <<"MIN_POSITION_IMPACT_POOL_AMOUNT", "minPositionImpactPoolAmount">> >>))
    \o IfDefined(<<Setting("FUNDING_EXPONENT_FACTOR", <<m.name>>, m.name, "fundingExponentFactor")>>)

FeesAndBorrowing(m) == IfDefined(
    Pair(m, "POSITION_FEE_FACTOR", "positionFeeFactorForPositiveImpact",
         "positionFeeFactorForNegativeImpact")
    \o Pair(m, "BORROWING_FACTOR", "borrowingFactorForLongs", "borrowingFactorForShorts")
    \o Pair(m, "BORROWING_EXPONENT_FACTOR", "borrowingExponentFactorForLongs",
            "borrowingExponentFactorForShorts"))

ImpactFactors(m) == IfDefined(
    Pair(m, "POSITION_IMPACT_FACTOR", "positivePositionImpactFactor", "negativePositionImpactFactor")
    \o <<Setting("MAX_POSITION_IMPACT_FACTOR_FOR_LIQUIDATIONS", <<m.name>>, m.name,
                 "maxPositionImpactFactorForLiquidations")>>
    \o Pair(m, "MAX_POSITION_IMPACT_FACTOR", "positiveMaxPositionImpactFactor",
            "negativeMaxPositionImpactFactor"))

\* Faults: the market token's gas is forgotten; deposits open before the ids are set.
WithoutTransferGas(m) ==
    VirtualIds(m) \o PoolLimits(m) \o SwapSettings(m)
    \o IF m.swapOnly THEN <<>>
       ELSE CollateralAndReserves(m) \o PnlFactors(m) \o FundingSettings(m)
            \o FeesAndBorrowing(m) \o ImpactFactors(m)
LimitsFirst(m) == PoolLimits(m) \o VirtualIds(m) \o SwapSettings(m)

\* "the rest of the params are not used for swap-only markets"
MarketSettings(m) ==
    VirtualIds(m) \o PoolLimits(m) \o SwapSettings(m)
    \o IF m.swapOnly THEN <<>>
       ELSE CollateralAndReserves(m) \o PnlFactors(m) \o MarketTokenGas(m)
            \o FundingSettings(m) \o FeesAndBorrowing(m) \o ImpactFactors(m)

-----------------------------------------------------------------------------
(* deploy/configureGeneralSettings.ts and deploy/deployFunTokens.ts.       *)

GeneralSettings ==
    Named("general", <<>>,
        << <<"FEE_RECEIVER", "feeReceiver">>, <<"HOLDING_ADDRESS", "holdingAddress">>,
           <<"MAX_UI_FEE_FACTOR", "maxUiFeeFactor">>,
           <<"MIN_HANDLE_EXECUTION_ERROR_GAS", "minHandleExecutionErrorGas">>,
           <<"MIN_HANDLE_EXECUTION_ERROR_GAS_TO_FORWARD", "minHandleExecutionErrorGasToForward">>,
           <<"MIN_ADDITIONAL_GAS_FOR_EXECUTION", "minAdditionalGasForExecution">>,
           <<"MAX_CALLBACK_GAS_LIMIT", "maxCallbackGasLimit">>,
           <<"MAX_SWAP_PATH_LENGTH", "maxSwapPathLength">>,
           <<"MIN_COLLATERAL_USD", "minCollateralUsd">>,
           <<"MIN_POSITION_SIZE_USD", "minPositionSizeUsd">>,
           <<"SWAP_FEE_RECEIVER_FACTOR", "swapFeeReceiverFactor">>,
           <<"POSITION_FEE_RECEIVER_FACTOR", "positionFeeReceiverFactor">>,
           <<"BORROWING_FEE_RECEIVER_FACTOR", "borrowingFeeReceiverFactor">>,
           <<"CLAIMABLE_COLLATERAL_TIME_DIVISOR", "claimableCollateralTimeDivisor">> >>)
    \o <<Setting("DEPOSIT_GAS_LIMIT", <<"true">>, "general", "depositGasLimitSingle"),
         Setting("DEPOSIT_GAS_LIMIT", <<"false">>, "general", "depositGasLimitMultiple")>>
    \o Named("general", <<>>,
        << <<"WITHDRAWAL_GAS_LIMIT", "withdrawalGasLimit">>,
           <<"SINGLE_SWAP_GAS_LIMIT", "singleSwapGasLimit">>,
           <<"INCREASE_ORDER_GAS_LIMIT", "increaseOrderGasLimit">>,
           <<"DECREASE_ORDER_GAS_LIMIT", "decreaseOrderGasLimit">>,
           <<"SWAP_ORDER_GAS_LIMIT", "swapOrderGasLimit">>,
           <<"NATIVE_TOKEN_TRANSFER_GAS_LIMIT", "nativeTokenTransferGasLimit">>,
           <<"ESTIMATED_GAS_FEE_BASE_AMOUNT", "estimatedGasFeeBaseAmount">>,
           <<"ESTIMATED_GAS_FEE_MULTIPLIER_FACTOR", "estimatedGasFeeMultiplierFactor">>,
           <<"EXECUTION_GAS_FEE_BASE_AMOUNT", "executionGasFeeBaseAmount">>,
           <<"EXECUTION_GAS_FEE_MULTIPLIER_FACTOR", "executionGasFeeMultiplierFactor">>,
           <<"SKIP_BORROWING_FEE_FOR_SMALLER_SIDE", "skipBorrowingFeeForSmallerSide">> >>)
    \o IfDefined(<<Setting("REQUEST_EXPIRATION_BLOCK_AGE", <<>>, "general",
                           "requestExpirationBlockAge")>>)

TokenGas(t) == <<Setting("TOKEN_TRANSFER_GAS_LIMIT", <<t>>, t, "transferGasLimit")>>
FunTokenSettings == FlattenSeq([i \in DOMAIN FunTokens |-> TokenGas(FunTokens[i])])

-----------------------------------------------------------------------------
(* scripts/updateMarketConfig.ts: every value is written, a falsy one too, *)
(* and a missing one stops the script; the virtual ids are not among them. *)

UpdateSwapSettings(m) ==
    PoolLimits(m) \o SwapExponent(m) \o Always(SwapFactors(m)) \o MarketTokenGas(m)
UpdateRiskSettings(m) == CollateralAndReserves(m) \o PnlFactors(m)
UpdateFundingSettings(m) ==
    Named(m.name, <<m.name>>,
        << <<"POSITION_IMPACT_EXPONENT_FACTOR", "positionImpactExponentFactor">>,
           <<"FUNDING_FACTOR", "fundingFactor">>,
           <<"FUNDING_EXPONENT_FACTOR", "fundingExponentFactor">>,
           <<"FUNDING_INCREASE_FACTOR_PER_SECOND", "fundingIncreaseFactorPerSecond">>,
           <<"FUNDING_DECREASE_FACTOR_PER_SECOND", "fundingDecreaseFactorPerSecond">>,
           <<"MIN_FUNDING_FACTOR_PER_SECOND", "minFundingFactorPerSecond">>,
           <<"MAX_FUNDING_FACTOR_PER_SECOND", "maxFundingFactorPerSecond">>,
           <<"THRESHOLD_FOR_STABLE_FUNDING", "thresholdForStableFunding">>,
           <<"THRESHOLD_FOR_DECREASE_FUNDING", "thresholdForDecreaseFunding">> >>)
UpdateFeeSettings(m) == Always(FeesAndBorrowing(m) \o ImpactFactors(m))

UpdateMarketSettings(m) ==
    UpdateSwapSettings(m)
    \o IF m.swapOnly THEN <<>>
       ELSE UpdateRiskSettings(m) \o UpdateFundingSettings(m) \o UpdateFeeSettings(m)

\* scripts/updateGeneralConfig.ts: five general settings are not among them,
\* and a falsy base amount is passed over.
UpdateGeneralSettings ==
    LET Left == {"feeReceiver", "holdingAddress", "borrowingFeeReceiverFactor",
                 "claimableCollateralTimeDivisor", "skipBorrowingFeeForSmallerSide"}
        Amounts == {"estimatedGasFeeBaseAmount", "executionGasFeeBaseAmount"}
        kept == SelectSeq(GeneralSettings, LAMBDA s : s.field \notin Left)
    IN [i \in DOMAIN kept |->
           [kept[i] EXCEPT !.when = IF kept[i].field \in Amounts THEN "truthy" ELSE "always"]]

\* scripts/updateMarketPositionImpactDistributionConfig.ts writes the two together.
ImpactDistribution(m) ==
    Named(m.name, <<m.name>>,
        << <<"POSITION_IMPACT_POOL_DISTRIBUTION_RATE", "positionImpactPoolDistributionRate">>,
           <<"MIN_POSITION_IMPACT_POOL_AMOUNT", "minPositionImpactPoolAmount">> >>)
=============================================================================
