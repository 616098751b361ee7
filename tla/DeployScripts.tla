---------------------------- MODULE DeployScripts ----------------------------
(***************************************************************************)
(* The deploy scripts of src/deploy, one row per file: the contracts whose *)
(* addresses the constructor takes, the libraries it is linked with, what  *)
(* afterDeploy still has to do, and whether the script has an "id" (a      *)
(* pinned script runs once per id and is skipped afterwards).  The network *)
(* is neoX: the deployer has the CONTROLLER role and the OrderHandler is   *)
(* not made a handler of the ReferralStorage.  The scripts that every      *)
(* network skips, that only test networks run, and the tags FundAccounts,  *)
(* Tokens and MockRealtimeFeedVerifier, which do nothing there, have no    *)
(* row.                                                                    *)
(***************************************************************************)
EXTENDS Naturals, SequencesExt

\* What afterDeploy does to the new instance: a role it needs, a setting it
\* writes into the DataStore, a tier of the ReferralStorage.
Grant(role)         == [kind |-> "role", name |-> role, to |-> "itself"]
GrantTo(who, role)  == [kind |-> "role", name |-> role, to |-> who]
Set(key)            == [kind |-> "setting", name |-> key, to |-> "itself"]
Tier(name)          == [kind |-> "tier", name |-> name, to |-> "itself"]

Script(contracts, libraries, duties) ==
    [needs |-> contracts \o libraries, takes |-> ToSet(contracts \o libraries),
     duties |-> duties, pinned |-> FALSE, contract |-> TRUE]
Pinned(script) == [script EXCEPT !.pinned = TRUE]
\* Dependencies that only come first: nothing of them is passed or linked.
After(script, tags) == [script EXCEPT !.needs = @ \o tags]

\* Fault: the deployer is not in the list of config/roles.ts.
RolesWithoutDeployer ==
    [needs |-> <<"RoleStore">>, takes |-> {"RoleStore"}, duties |-> <<>>, pinned |-> FALSE,
     contract |-> FALSE]

\* configureRoles: no contract, the roles of config/roles.ts.  The deployer is
\* the account of that list the scripts themselves depend on.
RolesScript ==
    [needs |-> <<"RoleStore">>, takes |-> {"RoleStore"},
     duties |-> <<GrantTo("deployer", "CONTROLLER")>>, pinned |-> FALSE, contract |-> FALSE]

\* The contracts with state, and their roles.
AdlHandlerScript ==
    Script(<<"RoleStore", "DataStore", "EventEmitter", "OrderVault", "Oracle", "SwapHandler",
             "ReferralStorage">>,
           <<"GasUtils", "OrderUtils", "AdlUtils", "MarketStoreUtils", "PositionStoreUtils",
             "OrderStoreUtils">>,
           <<Grant("CONTROLLER")>>)
\* DataStore.sol links none of the libraries its script lists.
DataStoreScript ==
    After(Pinned(Script(<<"RoleStore">>, <<>>, <<>>)),
          <<"GasUtils", "OrderUtils", "AdlUtils", "PositionStoreUtils", "OrderStoreUtils", "Roles">>)
ConfigScript ==
    Script(<<"RoleStore", "DataStore", "EventEmitter">>,
           <<"MarketUtils">>,
           <<Grant("CONTROLLER")>>)
DepositHandlerScript ==
    Script(<<"RoleStore", "DataStore", "EventEmitter", "DepositVault", "Oracle">>,
           <<"DepositUtils", "ExecuteDepositUtils", "DepositStoreUtils", "GasUtils">>,
           <<Grant("CONTROLLER")>>)
DepositVaultScript == Pinned(Script(<<"RoleStore", "DataStore">>, <<>>, <<>>))
EventEmitterScript == Pinned(Script(<<"RoleStore">>, <<>>, <<>>))
ExchangeRouterScript ==
    Script(<<"Router", "RoleStore", "DataStore", "EventEmitter", "DepositHandler",
             "WithdrawalHandler", "OrderHandler">>,
           <<"CallbackUtils", "DepositStoreUtils", "FeeUtils", "MarketEventUtils",
             "MarketStoreUtils", "OrderStoreUtils", "ReferralUtils", "WithdrawalStoreUtils">>,
           <<Grant("CONTROLLER"), Grant("ROUTER_PLUGIN")>>)
FeeHandlerScript ==
    Script(<<"RoleStore", "DataStore", "EventEmitter">>,
           <<"MarketUtils">>,
           <<Grant("CONTROLLER")>>)
LiquidationHandlerScript ==
    Script(<<"RoleStore", "DataStore", "EventEmitter", "OrderVault", "Oracle", "SwapHandler",
             "ReferralStorage">>,
           <<"OrderUtils", "LiquidationUtils", "MarketStoreUtils", "PositionStoreUtils",
             "OrderStoreUtils">>,
           <<Grant("CONTROLLER")>>)
MarketFactoryScript ==
    Pinned(Script(<<"RoleStore", "DataStore", "EventEmitter">>,
                  <<"MarketStoreUtils">>,
                  <<Grant("CONTROLLER")>>))
\* The DataStore comes first through the tag Tokens.
OracleScript ==
    After(Pinned(Script(<<"RoleStore", "OracleStore">>, <<>>,
                        <<Set("MIN_ORACLE_BLOCK_CONFIRMATIONS"), Set("MAX_ORACLE_PRICE_AGE"),
                          Set("MAX_ORACLE_REF_PRICE_DEVIATION_FACTOR"), Grant("CONTROLLER")>>)),
          <<"DataStore">>)
OracleStoreScript ==
    Pinned(Script(<<"RoleStore", "EventEmitter">>, <<>>, <<Grant("CONTROLLER")>>))
OrderHandlerScript ==
    Pinned(Script(<<"RoleStore", "DataStore", "EventEmitter", "OrderVault", "Oracle",
                    "SwapHandler", "ReferralStorage">>,
                  <<"MarketStoreUtils", "OrderUtils", "OrderStoreUtils", "OrderEventUtils">>,
                  <<Grant("CONTROLLER")>>))
OrderVaultScript == Pinned(Script(<<"RoleStore", "DataStore">>, <<>>, <<>>))
ReferralStorageScript ==
    Pinned(Script(<<>>, <<>>, <<Tier("first"), Tier("second"), Tier("third")>>))
RoleStoreScript == Pinned(Script(<<>>, <<>>, <<GrantTo("safe", "ROLE_ADMIN")>>))
RouterScript == Pinned(Script(<<"RoleStore">>, <<>>, <<>>))
SubaccountRouterScript ==
    Pinned(Script(<<"Router", "RoleStore", "DataStore", "EventEmitter", "OrderHandler",
                    "OrderVault">>,
                  <<"OrderStoreUtils">>,
                  <<Grant("CONTROLLER"), Grant("ROUTER_PLUGIN")>>))
SwapHandlerScript == Script(<<"RoleStore">>, <<"SwapUtils">>, <<Grant("CONTROLLER")>>)
TimelockScript ==
    Script(<<"RoleStore", "DataStore", "EventEmitter", "OracleStore">>,
           <<>>,
           <<Grant("CONTROLLER"), Grant("ROLE_ADMIN")>>)
WithdrawalHandlerScript ==
    Script(<<"RoleStore", "DataStore", "EventEmitter", "WithdrawalVault", "Oracle">>,
           <<"WithdrawalUtils", "ExecuteWithdrawalUtils", "WithdrawalStoreUtils", "GasUtils">>,
           <<Grant("CONTROLLER")>>)
WithdrawalVaultScript == Pinned(Script(<<"RoleStore", "DataStore">>, <<>>, <<>>))

\* The libraries and the readers.
AdlUtilsScript ==
    Script(<<>>,
           <<"MarketStoreUtils", "PositionStoreUtils", "OrderStoreUtils", "OrderEventUtils">>,
           <<>>)
BaseOrderUtilsScript == Script(<<>>, <<>>, <<>>)
CallbackUtilsScript == Script(<<>>, <<>>, <<>>)
ChainReaderScript == Script(<<>>, <<>>, <<>>)
DecreaseOrderUtilsScript ==
    Script(<<>>,
           <<"SwapUtils", "PositionStoreUtils", "DecreasePositionUtils", "OrderStoreUtils">>,
           <<>>)
DecreasePositionCollateralUtilsScript ==
    Script(<<>>,
           <<"BaseOrderUtils", "FeeUtils", "MarketEventUtils", "PositionUtils",
             "PositionPricingUtils", "PositionEventUtils", "OrderEventUtils",
             "DecreasePositionSwapUtils">>,
           <<>>)
DecreasePositionSwapUtilsScript == Script(<<>>, <<>>, <<>>)
DecreasePositionUtilsScript ==
    Script(<<>>,
           <<"MarketUtils", "MarketEventUtils", "PositionUtils", "PositionStoreUtils",
             "PositionEventUtils", "OrderEventUtils", "PositionPricingUtils",
             "ReferralEventUtils", "DecreasePositionCollateralUtils",
             "DecreasePositionSwapUtils">>,
           <<>>)
DepositEventUtilsScript == Script(<<>>, <<>>, <<>>)
DepositStoreUtilsScript == Script(<<>>, <<>>, <<>>)
DepositUtilsScript ==
    Script(<<>>,
           <<"GasUtils", "FeeUtils", "MarketStoreUtils", "MarketEventUtils",
             "DepositStoreUtils", "DepositEventUtils">>,
           <<>>)
ExecuteDepositUtilsScript ==
    Script(<<>>,
           <<"GasUtils", "FeeUtils", "MarketUtils", "MarketStoreUtils", "MarketEventUtils",
             "DepositStoreUtils", "DepositEventUtils", "SwapUtils", "SwapPricingUtils">>,
           <<>>)
ExecuteWithdrawalUtilsScript ==
    Script(<<>>,
           <<"GasUtils", "FeeUtils", "MarketUtils", "MarketStoreUtils", "MarketEventUtils",
             "WithdrawalStoreUtils", "WithdrawalEventUtils", "SwapUtils", "SwapPricingUtils">>,
           <<>>)
FeeUtilsScript == Script(<<>>, <<"MarketUtils">>, <<>>)
GasUtilsScript == Script(<<>>, <<>>, <<>>)
IncreaseOrderUtilsScript ==
    Script(<<>>,
           <<"SwapUtils", "PositionStoreUtils", "IncreasePositionUtils", "OrderStoreUtils",
             "MarketEventUtils">>,
           <<>>)
IncreasePositionUtilsScript ==
    Script(<<>>,
           <<"FeeUtils", "MarketUtils", "MarketEventUtils", "PositionUtils",
             "PositionStoreUtils", "PositionEventUtils", "ReferralEventUtils">>,
           <<>>)
KeeperReaderScript ==
    Script(<<>>,
           <<"MarketStoreUtils", "PositionStoreUtils", "PositionUtils", "OrderStoreUtils">>,
           <<>>)
LiquidationUtilsScript ==
    Script(<<>>, <<"PositionStoreUtils", "OrderStoreUtils", "OrderEventUtils">>, <<>>)
MarketEventUtilsScript == Script(<<>>, <<>>, <<>>)
MarketStoreUtilsScript == Script(<<>>, <<>>, <<>>)
MarketUtilsScript == Script(<<>>, <<"MarketEventUtils", "MarketStoreUtils">>, <<>>)
OrderEventUtilsScript == Script(<<>>, <<>>, <<>>)
OrderStoreUtilsScript == Script(<<>>, <<>>, <<>>)
OrderUtilsScript ==
    Script(<<>>,
           <<"BaseOrderUtils", "MarketStoreUtils", "MarketUtils", "OrderStoreUtils",
             "OrderEventUtils", "IncreaseOrderUtils", "DecreaseOrderUtils", "SwapOrderUtils",
             "GasUtils">>,
           <<>>)
PositionEventUtilsScript == Script(<<>>, <<>>, <<>>)
PositionPricingUtilsScript == Script(<<>>, <<>>, <<>>)
PositionStoreUtilsScript == Script(<<>>, <<>>, <<>>)
PositionUtilsScript ==
    Script(<<>>, <<"MarketStoreUtils", "MarketUtils", "PositionPricingUtils">>, <<>>)
ReaderScript ==
    Script(<<>>,
           <<"MarketUtils", "MarketStoreUtils", "DepositStoreUtils", "WithdrawalStoreUtils",
             "PositionStoreUtils", "PositionUtils", "OrderStoreUtils", "ReaderUtils",
             "ReaderDepositUtils", "ReaderWithdrawalUtils", "ReaderPricingUtils">>,
           <<>>)
ReaderDepositUtilsScript ==
    Script(<<>>,
           <<"MarketUtils", "MarketStoreUtils", "PositionStoreUtils", "PositionUtils">>,
           <<>>)
ReaderPricingUtilsScript ==
    Script(<<>>, <<"MarketStoreUtils", "PositionStoreUtils", "PositionUtils">>, <<>>)
ReaderUtilsScript ==
    Script(<<>>,
           <<"ReaderPricingUtils", "MarketStoreUtils", "PositionStoreUtils", "PositionUtils">>,
           <<>>)
ReaderWithdrawalUtilsScript ==
    Script(<<>>,
           <<"MarketUtils", "MarketStoreUtils", "PositionStoreUtils", "PositionUtils">>,
           <<>>)
ReferralEventUtilsScript == Script(<<>>, <<>>, <<>>)
ReferralUtilsScript == Script(<<>>, <<"MarketUtils", "ReferralEventUtils">>, <<>>)
SwapOrderUtilsScript == Script(<<>>, <<"OrderStoreUtils", "SwapUtils">>, <<>>)
SwapPricingUtilsScript == Script(<<>>, <<>>, <<>>)
SwapUtilsScript == Script(<<>>, <<"FeeUtils", "MarketEventUtils", "SwapPricingUtils">>, <<>>)
WithdrawalEventUtilsScript == Script(<<>>, <<>>, <<>>)
WithdrawalStoreUtilsScript == Script(<<>>, <<>>, <<>>)
WithdrawalUtilsScript ==
    Script(<<>>,
           <<"GasUtils", "FeeUtils", "MarketUtils", "MarketStoreUtils", "MarketEventUtils",
             "WithdrawalStoreUtils", "WithdrawalEventUtils", "SwapUtils">>,
           <<>>)

Registry ==
    [Roles |-> RolesScript,
     AdlHandler |-> AdlHandlerScript,
     AdlUtils |-> AdlUtilsScript,
     DataStore |-> DataStoreScript,
     BaseOrderUtils |-> BaseOrderUtilsScript,
     CallbackUtils |-> CallbackUtilsScript,
     ChainReader |-> ChainReaderScript,
     Config |-> ConfigScript,
     DecreaseOrderUtils |-> DecreaseOrderUtilsScript,
     DecreasePositionCollateralUtils |-> DecreasePositionCollateralUtilsScript,
     DecreasePositionSwapUtils |-> DecreasePositionSwapUtilsScript,
     DecreasePositionUtils |-> DecreasePositionUtilsScript,
     DepositEventUtils |-> DepositEventUtilsScript,
     DepositHandler |-> DepositHandlerScript,
     DepositStoreUtils |-> DepositStoreUtilsScript,
     DepositUtils |-> DepositUtilsScript,
     DepositVault |-> DepositVaultScript,
     EventEmitter |-> EventEmitterScript,
     ExchangeRouter |-> ExchangeRouterScript,
     ExecuteDepositUtils |-> ExecuteDepositUtilsScript,
     ExecuteWithdrawalUtils |-> ExecuteWithdrawalUtilsScript,
     FeeHandler |-> FeeHandlerScript,
     FeeUtils |-> FeeUtilsScript,
     GasUtils |-> GasUtilsScript,
     IncreaseOrderUtils |-> IncreaseOrderUtilsScript,
     IncreasePositionUtils |-> IncreasePositionUtilsScript,
     KeeperReader |-> KeeperReaderScript,
     LiquidationHandler |-> LiquidationHandlerScript,
     LiquidationUtils |-> LiquidationUtilsScript,
     MarketEventUtils |-> MarketEventUtilsScript,
     MarketFactory |-> MarketFactoryScript,
     MarketStoreUtils |-> MarketStoreUtilsScript,
     MarketUtils |-> MarketUtilsScript,
     Oracle |-> OracleScript,
     OracleStore |-> OracleStoreScript,
     OrderEventUtils |-> OrderEventUtilsScript,
     OrderHandler |-> OrderHandlerScript,
     OrderStoreUtils |-> OrderStoreUtilsScript,
     OrderUtils |-> OrderUtilsScript,
     OrderVault |-> OrderVaultScript,
     PositionEventUtils |-> PositionEventUtilsScript,
     PositionPricingUtils |-> PositionPricingUtilsScript,
     PositionStoreUtils |-> PositionStoreUtilsScript,
     PositionUtils |-> PositionUtilsScript,
     Reader |-> ReaderScript,
     ReaderDepositUtils |-> ReaderDepositUtilsScript,
     ReaderPricingUtils |-> ReaderPricingUtilsScript,
     ReaderUtils |-> ReaderUtilsScript,
     ReaderWithdrawalUtils |-> ReaderWithdrawalUtilsScript,
     ReferralEventUtils |-> ReferralEventUtilsScript,
     ReferralStorage |-> ReferralStorageScript,
     ReferralUtils |-> ReferralUtilsScript,
     RoleStore |-> RoleStoreScript,
     Router |-> RouterScript,
     SubaccountRouter |-> SubaccountRouterScript,
     SwapHandler |-> SwapHandlerScript,
     SwapOrderUtils |-> SwapOrderUtilsScript,
     SwapPricingUtils |-> SwapPricingUtilsScript,
     SwapUtils |-> SwapUtilsScript,
     Timelock |-> TimelockScript,
     WithdrawalEventUtils |-> WithdrawalEventUtilsScript,
     WithdrawalHandler |-> WithdrawalHandlerScript,
     WithdrawalStoreUtils |-> WithdrawalStoreUtilsScript,
     WithdrawalUtils |-> WithdrawalUtilsScript,
     WithdrawalVault |-> WithdrawalVaultScript]

\* The tags in the order of the file names, which is the order the scripts are read in.
Tags == DOMAIN Registry
Files ==
    <<"Roles", "AdlHandler", "AdlUtils", "DataStore", "BaseOrderUtils", "CallbackUtils",
      "ChainReader", "Config", "DecreaseOrderUtils", "DecreasePositionCollateralUtils",
      "DecreasePositionSwapUtils", "DecreasePositionUtils", "DepositEventUtils",
      "DepositHandler", "DepositStoreUtils", "DepositUtils", "DepositVault", "EventEmitter",
      "ExchangeRouter", "ExecuteDepositUtils", "ExecuteWithdrawalUtils", "FeeHandler",
      "FeeUtils", "GasUtils", "IncreaseOrderUtils", "IncreasePositionUtils", "KeeperReader",
      "LiquidationHandler", "LiquidationUtils", "MarketEventUtils", "MarketFactory",
      "MarketStoreUtils", "MarketUtils", "Oracle", "OracleStore", "OrderEventUtils",
      "OrderHandler", "OrderStoreUtils", "OrderUtils", "OrderVault", "PositionEventUtils",
      "PositionPricingUtils", "PositionStoreUtils", "PositionUtils", "Reader",
      "ReaderDepositUtils", "ReaderPricingUtils", "ReaderUtils", "ReaderWithdrawalUtils",
      "ReferralEventUtils", "ReferralStorage", "ReferralUtils", "RoleStore", "Router",
      "SubaccountRouter", "SwapHandler", "SwapOrderUtils", "SwapPricingUtils", "SwapUtils",
      "Timelock", "WithdrawalEventUtils", "WithdrawalHandler", "WithdrawalStoreUtils",
      "WithdrawalUtils", "WithdrawalVault">>

\* A script runs after the scripts of its dependencies, which are visited in
\* the order of its list: p is the scripts still to visit and the ones visited.
Visited[p \in Seq(Tags) \X Seq(Tags)] ==
    IF p[1] = <<>> THEN p[2]
    ELSE LET t    == Head(p[1])
             open == SelectSeq(Registry[t].needs, LAMBDA d : d \notin ToSet(p[2]))
         IN  IF t \in ToSet(p[2]) THEN Visited[<<Tail(p[1]), p[2]>>]
             ELSE IF open = <<>> THEN Visited[<<Tail(p[1]), Append(p[2], t)>>]
             ELSE Visited[<<open \o p[1], p[2]>>]
Order == Visited[<<Files, <<>>>>]
=============================================================================
