------------------------------- MODULE Settings -------------------------------
(***************************************************************************)
(* How the configuration files reach the DataStore.  On some networks the  *)
(* deploy scripts create the markets and write the settings one            *)
(* transaction at a time; on every network a keeper can create a market    *)
(* and run the update scripts, which read the chain once, compare, and     *)
(* send what differs as one multicall of Config.  Other keepers write keys *)
(* of their own, the files change while scripts run, and deposits and      *)
(* withdrawals start as soon as the settings let them.                     *)
(* Values are small numbers; 0 is an unset key and, in the files, the      *)
(* literal 0 (the BigNumber decimalToFloat(0) is not falsy and not meant). *)
(* Settings do not depend on each other but for a few: a behaviour looks   *)
(* at the keys of a few bases and at what can happen to them, a selection  *)
(* made at the start, and leaves the others out.                           *)
(***************************************************************************)
EXTENDS SettingLists, FiniteSets, TLC

CONSTANTS Networks,      \* the networks considered
          Selections,    \* what a behaviour looks at: base keys, scripts, the markets
                         \* listed at first, edits of the files <<scope, field, value>>,
                         \* how many changes by others and how many crashes
          FirstValue(_, _), FirstDefined(_, _),   \* the files at the start: of a scope, a field
          Overrides,     \* the keys another keeper writes, with the value: <<key, value>>
          Recommended,   \* recommendedMarketConfig: network -> symbol -> record
          One, BasisPoints, Tolerance, SecondsPerYear, Pow(_, _),   \* fixed-point scale
          MaxFactor      \* what Config accepts for a fee or a share

ASSUME SettingsAssumption ==
    /\ MaxFactor \in Nat
    /\ \A sel \in Selections : 
          /\ sel.listed \subseteq ToSet(MarketList)
          /\ sel.changes \in Nat /\ sel.crashes \in Nat
          /\ \A e \in sel.edits : FirstDefined(e[1], e[2])

VARIABLES network, considered,
          config, listed,     \* the files in the repository: what differs from the start
          dataStore,          \* key -> value
          created,            \* the markets on chain
          opened,             \* which script first let deposits into each market
          pool, inventory,    \* long tokens of each market, and of each virtual market
          deploy,             \* the run of the deploy scripts, or the last one
          update,             \* the run of an update script
          changes, crashes

setting == <<network, considered>>
repository == <<config, listed>>
tokens == <<pool, inventory>>
vars == <<setting, repository, dataStore, created, opened, tokens, deploy, update,
          changes, crashes>>

Markets == ToSet(MarketList)
NoMarket == [name |-> "none", index |-> "none", long |-> "none", short |-> "none",
             swapOnly |-> TRUE]
Listed(L) == SelectSeq(MarketList, LAMBDA m : m \in L)

At(cfg, scope, field) == IF <<scope, field>> \in DOMAIN cfg THEN cfg[<<scope, field>>]
                         ELSE FirstValue(scope, field)
Value(cfg, s) == At(cfg, s.scope, s.field)
Defined(s) == FirstDefined(s.scope, s.field)
PassedOver(cfg, s) == \/ s.when # "always" /\ ~Defined(s)
                      \/ s.when = "truthy" /\ Defined(s) /\ Value(cfg, s) = 0

PoolLimit(m) == <<"MAX_POOL_AMOUNT", m.name, m.long>>
DepositLimit(m) == <<"MAX_POOL_AMOUNT_FOR_DEPOSIT", m.name, m.long>>
TransferGas(token) == <<"TOKEN_TRANSFER_GAS_LIMIT", token>>
Get(store, k) == IF k \in DOMAIN store THEN store[k] ELSE 0
VirtualId(m) == Get(dataStore, <<"VIRTUAL_MARKET_ID", m.name>>)
Enabled(m) == Get(dataStore, <<"IS_MARKET_DISABLED", m.name>>) = 0

\* Who let deposits in first, when dataStore becomes store.
OpenedBy(script, store) ==
    [m \in Markets |-> IF opened[m] = "none" /\ Get(store, PoolLimit(m)) > 0 THEN script ELSE opened[m]]

-----------------------------------------------------------------------------
(* The deploy scripts.                                                     *)

DeployNetworks == {"localhost", "hardhat", "neoX"}

Sets(m, settings) ==
    [i \in DOMAIN settings |-> [op |-> "set", market |-> m, setting |-> settings[i]]]
ForMarkets(op, L) == [i \in DOMAIN Listed(L) |-> [op |-> op, market |-> Listed(L)[i]]]

\* Everything a run does, in order, for the markets L of its configuration.
AllSteps(n, L) ==
    Sets(NoMarket, FunTokenSettings \o GeneralSettings)
    \o IF n \notin DeployNetworks THEN <<>>
       ELSE ForMarkets("create", L)
            \o <<[op |-> "read", market |-> NoMarket]>>
            \o FlattenSeq([i \in DOMAIN Listed(L) |->
                              Sets(Listed(L)[i], MarketSettings(Listed(L)[i]))])
Table(f) == f @@ <<>>   \* the function f, which TLC builds once and for all
SomeBases == {sel.bases : sel \in Selections}
DeploySteps == Table([n \in Networks, L \in SUBSET Markets, bases \in SomeBases |->
    SelectSeq(AllSteps(n, L),
              LAMBDA step : step.op = "set" => step.setting.key[1] \in bases)])

Steps == DeploySteps[network, deploy.listed, considered.bases]
Deploying == {Steps[i] : i \in {deploy.at} \ {0}}

\* The run takes the step it is at; it has finished after the last one.
Advanced == [deploy EXCEPT !.at = IF @ < Len(Steps) THEN @ + 1 ELSE 0,
                           !.finished = (deploy.at = Len(Steps))]

NoRun == [at |-> 0, config |-> <<>>, listed |-> {}, onchain |-> {},
          skipNew |-> FALSE, alone |-> FALSE, finished |-> FALSE]

\* The files are loaded when the run starts.
StartDeploy ==
    /\ deploy.at = 0 /\ "deploy" \in considered.scripts
    /\ DeploySteps[network, listed, considered.bases] # <<>>   \* it has something to do here
    /\ \E skipNew \in BOOLEAN :   \* SKIP_NEW_MARKETS
          deploy' = [at |-> 1, config |-> config, listed |-> listed, onchain |-> {},
                     skipNew |-> skipNew, alone |-> TRUE, finished |-> FALSE]
    /\ UNCHANGED <<setting, repository, dataStore, created, opened, tokens, update,
                   changes, crashes>>

CreateListed(step) ==
    /\ step.op = "create"
    /\ created' = IF deploy.skipNew THEN created ELSE created \cup {step.market}
    /\ deploy' = Advanced
    /\ UNCHANGED <<setting, repository, dataStore, opened, tokens, update, changes, crashes>>

ReadMarkets(step) ==
    /\ step.op = "read"
    /\ deploy' = [Advanced EXCEPT !.onchain = created]
    /\ UNCHANGED <<setting, repository, dataStore, created, opened, tokens, update,
                   changes, crashes>>

\* Reading, comparing and writing one value: a write in between by someone
\* else is overwritten or is left, as if it had come just before or just after.
SetIfDifferent(step) ==
    /\ step.op = "set"
    /\ step.market \in {NoMarket} \cup deploy.onchain
    /\ PassedOver(deploy.config, step.setting) \/ Defined(step.setting)
    /\ dataStore' = IF PassedOver(deploy.config, step.setting) THEN dataStore
                    ELSE [dataStore EXCEPT ![step.setting.key] =
                              Value(deploy.config, step.setting)]
    /\ opened' = OpenedBy("deploy", dataStore')
    /\ deploy' = Advanced
    /\ UNCHANGED <<setting, repository, created, tokens, update, changes, crashes>>

\* A market that is not on chain (onchainMarket is undefined) or a missing
\* value that nothing guards: the script throws and the run ends.
Throws(step) ==
    /\ step.op = "set"
    /\ \/ step.market \notin {NoMarket} \cup deploy.onchain
       \/ ~PassedOver(deploy.config, step.setting) /\ ~Defined(step.setting)
    /\ deploy' = NoRun
    /\ UNCHANGED <<setting, repository, dataStore, created, opened, tokens, update,
                   changes, crashes>>

DeployStep == \E step \in Deploying :
    CreateListed(step) \/ ReadMarkets(step) \/ SetIfDifferent(step) \/ Throws(step)

CrashDeploy ==
    /\ deploy.at > 0 /\ crashes < considered.crashes
    /\ crashes' = crashes + 1
    /\ deploy' = NoRun
    /\ UNCHANGED <<setting, repository, dataStore, created, opened, tokens, update, changes>>

-----------------------------------------------------------------------------
(* What updateMarketConfig and updateTokenConfig validate first.           *)

Stablecoins == {"USDC", "USDT"}
UnvalidatedNetworks(script) ==
    IF script = "markets" THEN {"neoXT4"} ELSE {"arbitrumGoerli", "avalancheFuji"}

Near(negative, positive, expected) ==
    /\ positive > 0   \* BigNumber throws on a division by zero
    /\ (negative * BasisPoints) \div positive \in (expected - Tolerance) .. (expected + Tolerance)

\* The borrowing fee of a year when the open interest of a side is at its maximum.
YearlyBorrowing(openInterest, reserve, factor, exponent) ==
    ((Pow(openInterest, exponent) * factor) \div ((openInterest * One) \div reserve))
        * SecondsPerYear

SideIsSound(openInterest, reserve, factor, exponent) ==
    /\ exponent \in One .. ((3 * One) \div 2)
    /\ openInterest > 0 /\ reserve > 0
    /\ 2 * YearlyBorrowing(openInterest, reserve, factor, exponent) <= 3 * One

PerpIsSound(m, table) ==
    LET c(field) == At(config, m.name, field)
    IN m.swapOnly \/
       /\ m.index \in DOMAIN table
       /\ Near(c("negativePositionImpactFactor"), c("positivePositionImpactFactor"),
               table[m.index].expectedPositionImpactRatio)
       /\ c("negativePositionImpactFactor") >= table[m.index].negativeImpactFactor
       /\ SideIsSound(c("maxOpenInterestForLongs"), c("openInterestReserveFactorLongs"),
                      c("borrowingFactorForLongs"), c("borrowingExponentFactorForLongs"))
       /\ SideIsSound(c("maxOpenInterestForShorts"), c("openInterestReserveFactorShorts"),
                      c("borrowingFactorForShorts"), c("borrowingExponentFactorForShorts"))
       /\ c("fundingExponentFactor") = One
       /\ c("fundingFactor") * SecondsPerYear <= One

SwapIsSound(m, table) ==
    LET stable == {m.long, m.short} \subseteq Stablecoins
        row == table[IF stable THEN "stablecoins" ELSE m.long]
        c(field) == At(config, m.name, field)
    IN /\ stable \/ m.long \in DOMAIN table
       /\ m.short \in Stablecoins
       /\ Near(c("negativeSwapImpactFactor"), c("positiveSwapImpactFactor"),
               row.expectedSwapImpactRatio)
       /\ c("negativeSwapImpactFactor") >= row.negativeImpactFactor

\* It throws for a network without recommendations and for a market on chain
\* that the files no longer list.
ValidMarketConfigs ==
    /\ network \in DOMAIN Recommended
    /\ created \subseteq listed
    /\ \A m \in listed : PerpIsSound(m, Recommended[network]) /\ SwapIsSound(m, Recommended[network])

Gate(script) == script \in {"markets", "tokens"} =>
                    network \in UnvalidatedNetworks(script) \/ ValidMarketConfigs

-----------------------------------------------------------------------------
(* The update scripts.                                                     *)

UpdateScripts == {"markets", "general", "tokens", "impact"}

\* What a script writes for the markets L of its configuration that are in C.
ListOf(script, L) ==
    CASE script = "markets" -> UNION {ToSet(UpdateMarketSettings(m)) : m \in L}
      [] script = "general" -> ToSet(UpdateGeneralSettings)
      [] script = "tokens"  -> ToSet(FunTokenSettings)
      [] OTHER              -> UNION {ToSet(ImpactDistribution(m)) : m \in L}
UpdateLists == Table([script \in UpdateScripts, L \in SUBSET Markets, bases \in SomeBases |->
    {s \in ListOf(script, L) : s.key[1] \in bases}])
\* The impact script passes over a market unless both its values are there.
Wanted(script, cfg, L, C) ==
    LET list == UpdateLists[script, L \cap C, considered.bases]
    IN {s \in list : /\ ~PassedOver(cfg, s)
                     /\ script = "impact" => \A o \in list : o.scope = s.scope => Defined(o)}
Covered == Wanted(update.script, update.config, update.listed, update.onchain)

Fees == {"FUNDING_FACTOR", "BORROWING_FACTOR", "SWAP_FEE_FACTOR", "POSITION_FEE_FACTOR",
         "MAX_UI_FEE_FACTOR", "POSITION_FEE_RECEIVER_FACTOR", "SWAP_FEE_RECEIVER_FACTOR",
         "BORROWING_FEE_RECEIVER_FACTOR", "MIN_COLLATERAL_FACTOR", "MAX_PNL_FACTOR",
         "MIN_PNL_FACTOR_AFTER_ADL"}
InRange(cfg, s) == s.key[1] \in Fees => Value(cfg, s) <= MaxFactor

Idle == [stage |-> "idle"]

\* The files, the validation and the markets on chain come first.  A run that
\* ends before it sends, as a dry run does, changes nothing and is left out.
StartUpdate(script) ==
    /\ update.stage = "idle" /\ script \in considered.scripts
    /\ Gate(script)
    /\ UpdateLists[script, Markets, considered.bases] # {}   \* it has something to do here
    /\ update' = [stage |-> "read", script |-> script, config |-> config, listed |-> listed,
                  onchain |-> created]
    /\ UNCHANGED <<setting, repository, dataStore, created, opened, tokens, deploy,
                   changes, crashes>>

\* One aggregate3 call reads every value.
ReadValues ==
    /\ update.stage = "read"
    /\ update' = [stage |-> "write", cache |-> dataStore] @@ update
    /\ UNCHANGED <<setting, repository, dataStore, created, opened, tokens, deploy,
                   changes, crashes>>

\* Fault: the arguments of the key are mixed up.
MixedUp(s) == update.cache[CHOOSE k \in DOMAIN update.cache : k[1] = s.key[1]]

\* The value a setting is compared with.  The impact script collects two values
\* per market on chain and looks them up by the market's place among all the
\* markets of the files.
Place(m, L) == CHOOSE i \in DOMAIN Listed(L) : Listed(L)[i] = m
Read == Listed(update.listed \cap update.onchain)
MarketOf(s) == CHOOSE m \in Markets : m.name = s.scope
Cached(s) ==
    IF update.script # "impact" THEN update.cache[s.key]
    ELSE update.cache[<<s.key[1], Read[Place(MarketOf(s), update.listed)].name>>]

\* The script throws before it sends anything.
Stops == \E s \in Covered :
    \/ ~Defined(s)
    \/ update.script = "impact" /\ Place(MarketOf(s), update.listed) > Len(Read)

\* Fault: values are only ever raised.
IsRaised(s) == Cached(s) < Value(update.config, s)

Differs(s) == Cached(s) # Value(update.config, s)
\* Both values of a market go together.
Sent == IF update.script # "impact" THEN {s \in Covered : Differs(s)}
        ELSE {s \in Covered : \E other \in Covered : other.scope = s.scope /\ Differs(other)}

\* One transaction: every value or, if Config refuses one, none.
SendUpdate ==
    /\ update.stage = "write"
    /\ dataStore' =
          IF Stops \/ \E s \in Sent : update.script # "impact" /\ ~InRange(update.config, s)
          THEN dataStore
          ELSE [k \in DOMAIN dataStore |->
                   IF \E s \in Sent : s.key = k
                   THEN Value(update.config, CHOOSE s \in Sent : s.key = k)
                   ELSE dataStore[k]]
    /\ opened' = OpenedBy("update", dataStore')
    /\ update' = Idle
    /\ deploy' = [deploy EXCEPT !.alone = @ /\ dataStore' = dataStore]
    /\ UNCHANGED <<setting, repository, created, tokens, changes, crashes>>

-----------------------------------------------------------------------------
(* Around the scripts.                                                     *)

\* scripts/createMarket.ts: MARKET_KEY must be among the files' markets.
CreateMarket(m) ==
    /\ m \in listed \ created
    /\ created' = created \cup {m}
    /\ UNCHANGED <<setting, repository, dataStore, opened, tokens, deploy, update,
                   changes, crashes>>

\* Another config keeper writes one key.
Override(k, v) ==
    /\ changes < considered.changes /\ k \in DOMAIN dataStore /\ dataStore[k] # v
    /\ changes' = changes + 1
    /\ dataStore' = [dataStore EXCEPT ![k] = v]
    /\ deploy' = [deploy EXCEPT !.alone = FALSE]
    /\ UNCHANGED <<setting, repository, created, opened, tokens, update, crashes>>

EditFiles ==
    /\ changes < considered.changes
    /\ changes' = changes + 1
    /\ \/ \E e \in considered.edits :
             /\ At(config, e[1], e[2]) # e[3]
             /\ config' = (<<e[1], e[2]>> :> e[3]) @@ config
             /\ UNCHANGED listed
       \/ \E m \in Markets \ listed :
             /\ listed' = listed \cup {m}
             /\ UNCHANGED config
    /\ UNCHANGED <<setting, dataStore, created, opened, tokens, deploy, update, crashes>>

\* The pool grows by a token and, if the market has a virtual id by then, so
\* does the virtual inventory.
Deposit(m) ==
    /\ m \in created /\ Enabled(m)
    /\ Get(dataStore, TransferGas(m.long)) > 0
    /\ pool[m] + 1 <= Get(dataStore, PoolLimit(m))
    /\ pool[m] + 1 <= Get(dataStore, DepositLimit(m))
    /\ pool' = [pool EXCEPT ![m] = @ + 1]
    /\ inventory' = [id \in DOMAIN inventory |->
                        IF id = VirtualId(m) THEN inventory[id] + 1 ELSE inventory[id]]
    /\ UNCHANGED <<setting, repository, dataStore, created, opened, deploy, update,
                   changes, crashes>>

\* The delta is bounded: an inventory never goes below zero.
Withdraw(m) ==
    /\ pool[m] > 0 /\ Enabled(m)
    /\ Get(dataStore, TransferGas(m.long)) > 0
    /\ pool' = [pool EXCEPT ![m] = @ - 1]
    /\ inventory' = [id \in DOMAIN inventory |->
                        IF id = VirtualId(m) /\ inventory[id] > 0
                        THEN inventory[id] - 1 ELSE inventory[id]]
    /\ UNCHANGED <<setting, repository, dataStore, created, opened, deploy, update,
                   changes, crashes>>

Keys == {s.key : s \in UNION {ToSet(MarketSettings(m)) \cup ToSet(MarketTokenGas(m))
                                \cup ToSet(UpdateMarketSettings(m) \o ImpactDistribution(m))
                            : m \in Markets}}
        \cup {<<"IS_MARKET_DISABLED", m.name>> : m \in Markets}
        \cup {s.key : s \in ToSet(GeneralSettings \o FunTokenSettings)}

Init ==
    /\ network \in Networks /\ considered \in Selections
    /\ config = <<>> /\ listed = considered.listed
    /\ dataStore = [k \in {key \in Keys : key[1] \in considered.bases} |-> 0]
    /\ created = {} /\ opened = [m \in Markets |-> "none"]
    /\ pool = [m \in Markets |-> 0] /\ inventory = [id \in {1, 2} |-> 0]
    /\ deploy = NoRun
    /\ update = Idle
    /\ changes = 0 /\ crashes = 0

Next ==
    \/ StartDeploy \/ DeployStep \/ CrashDeploy
    \/ \E script \in UpdateScripts : StartUpdate(script)
    \/ ReadValues \/ SendUpdate
    \/ EditFiles
    \/ \E o \in Overrides : Override(o[1], o[2])
    \/ \E m \in Markets : CreateMarket(m) \/ Deposit(m) \/ Withdraw(m)

\* The team runs each update script again and again.
Spec == /\ Init /\ [][Next]_vars
        /\ \A script \in UpdateScripts : SF_vars(StartUpdate(script))
        /\ WF_vars(ReadValues) /\ WF_vars(SendUpdate)

-----------------------------------------------------------------------------
\* A multicall of an update script leaves every key it covers at the value of
\* the files it loaded, or changes nothing, whatever else was written since its
\* snapshot: a key it does not send has either been right then or was changed
\* by someone else (scripts/updateMarketConfig.ts; the impact script keeps to
\* it only while every listed market is on chain).
UpdateSettles == [][
    /\ update.stage = "write" /\ update'.stage = "idle" /\ dataStore' # dataStore
    /\ update.script = "impact" => update.listed \subseteq update.onchain
    => \A s \in Covered : \/ dataStore'[s.key] = Value(update.config, s)
                          \/ dataStore[s.key] # update.cache[s.key] ]_vars

\* After a deployment that nothing disturbed the update scripts, run on the
\* same files, find nothing to change, but for the literal zeros the deploy
\* script passes over and for the transfer gas of a swap-only market's token:
\* the two lists of settings agree (deployAndConfigureMarkets.ts and
\* configureGeneralSettings.ts against updateMarketConfig.ts and
\* updateGeneralConfig.ts).
DeployedAsUpdated ==
    deploy.finished /\ deploy.alone => \A script \in {"markets", "general", "impact"} :
        \A s \in Wanted(script, deploy.config, deploy.listed, deploy.onchain) :
            \/ Defined(s) /\ dataStore[s.key] = Value(deploy.config, s)
            \/ Defined(s) /\ Value(deploy.config, s) = 0
            \/ \E m \in deploy.onchain : m.swapOnly /\ s.key = TransferGas(m.name)

\* The virtual inventory of a virtual market is what is in the pools of its
\* markets, as long as none of them was opened by the update script
\* (deployAndConfigureMarkets.ts: "virtual IDs should be set before other
\* market configurations").
CarryId(id) == {m \in created : At(config, m.name, "virtualMarketId") = id}
TracksInventory == \A id \in DOMAIN inventory :
    (\A m \in CarryId(id) : opened[m] # "update")
        => inventory[id] = MapThenSumSet(LAMBDA m : pool[m], CarryId(id))

\* Once the files stay as they are and other keepers leave the settings alone,
\* the chain comes to agree with the files for good, whatever the deploy script
\* does beside the update scripts, unless the validation or Config refuses them.
InForce(script) ==
    \A s \in Wanted(script, config, listed, created) : dataStore[s.key] = Value(config, s)
Acceptable(script) ==
    /\ Gate(script)
    /\ \A s \in Wanted(script, config, listed, created) :
          Defined(s) /\ InRange(config, s)
SettingsAgree == \A script \in {"markets", "general"} :
    <>[](script \in considered.scripts /\ Acceptable(script) => InForce(script))
=============================================================================
