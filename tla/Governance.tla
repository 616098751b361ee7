----------------------------- MODULE Governance -----------------------------
(***************************************************************************)
(* Who may change the exchange, and how fast: Timelock, RoleStore and      *)
(* OracleStore.  An admin of the Timelock announces an action (signal...), *)
(* and may act on it when the delay has passed (...AfterSignal); the       *)
(* multisig revokes roles at once.  The Timelock acts with its own roles,  *)
(* ROLE_ADMIN and CONTROLLER; an account that is given one of these can do *)
(* the same without the Timelock.                                          *)
(***************************************************************************)
EXTENDS Integers, FiniteSets

CONSTANTS
  Accounts,          \* addresses, the Timelock contract among them
  Timelock,
  NoAddress,         \* address(0)
  RoleKeys,          \* the roles that exist
  Tokens, Feeds,     \* tokens, and the settings a feed of theirs may have
  Announcements,     \* bound: the actions that are announced
  InitialDelay,      \* the delay the Timelock is deployed with
  MAX_TIMELOCK_DELAY,
  InitialRoles,      \* the members of the roles after deployment
  MaxTime,           \* bound on the time
  MaxPending         \* bound on the actions that are pending together

VARIABLES
  roles,             \* RoleStore: the pairs <<account, role>>
  signers,           \* OracleStore
  feeReceiver,       \* FEE_RECEIVER in the DataStore
  priceFeeds,        \* the price feed settings of every token, in the DataStore
  realtimeFeeds,     \* the same for realtime feeds
  strictMode,        \* IN_STRICT_PRICE_FEED_MODE in the DataStore
  timelockDelay,
  pendingActions,    \* when an announced action is due, 0 if it is not pending
  now,
  signalledAt        \* history: when a pending action was announced, or 0

protected == <<roles, signers, feeReceiver, priceFeeds, realtimeFeeds, strictMode>>
vars == <<protected, timelockDelay, pendingActions, now, signalledAt>>

\* An action key of the Timelock: what is to be done, to what, with which value.
\* The encoded keys of two kinds differ in length, so keys never collide.
Actions ==
  [kind : {"addOracleSigner", "removeOracleSigner", "setFeeReceiver"},
   target : Accounts, value : {"none"}]
  \cup [kind : {"grantRole", "revokeRole"}, target : Accounts, value : RoleKeys]
  \cup [kind : {"setPriceFeed", "setRealtimeFeed"}, target : Tokens, value : Feeds]

ASSUME GovernanceAssumption ==
  /\ Timelock \in Accounts /\ NoAddress \in Accounts
  /\ {"ROLE_ADMIN", "TIMELOCK_ADMIN", "TIMELOCK_MULTISIG", "CONTROLLER"} \subseteq RoleKeys
  /\ InitialRoles \subseteq Accounts \X RoleKeys
  /\ <<Timelock, "ROLE_ADMIN">> \in InitialRoles
  /\ InitialDelay \in Nat /\ MAX_TIMELOCK_DELAY \in Nat
  /\ InitialDelay <= MAX_TIMELOCK_DELAY
  /\ MaxTime \in Nat /\ MaxPending \in Nat

ASSUME AnnouncementsAssumption == Announcements \subseteq Actions

Members(roleKey) == {a \in Accounts : <<a, roleKey>> \in roles}

TypeOK ==
  /\ roles \subseteq Accounts \X RoleKeys
  /\ signers \subseteq Accounts
  /\ feeReceiver \in Accounts
  /\ priceFeeds \in [Tokens -> Feeds \cup {"none"}]
  /\ realtimeFeeds \in [Tokens -> Feeds \cup {"none"}]
  /\ strictMode \in BOOLEAN
  /\ timelockDelay \in InitialDelay..MAX_TIMELOCK_DELAY
  /\ pendingActions \in [Announcements -> Nat]
  /\ now \in Nat \ {0}
  /\ signalledAt \in [Announcements -> Nat]

Init ==
  /\ roles = InitialRoles
  /\ signers = {}
  /\ feeReceiver = NoAddress
  /\ priceFeeds = [t \in Tokens |-> "none"]
  /\ realtimeFeeds = [t \in Tokens |-> "none"]
  /\ strictMode = FALSE
  /\ timelockDelay = InitialDelay
  /\ pendingActions = [a \in Announcements |-> 0]
  /\ now = 1
  /\ signalledAt = [a \in Announcements |-> 0]

-----------------------------------------------------------------------------
(* RoleStore and OracleStore, and the keys of the DataStore, as a caller     *)
(* with the role they ask for changes them.                                  *)

GrantRole(caller, account, roleKey) ==
  /\ <<caller, "ROLE_ADMIN">> \in roles
  /\ roles' = roles \cup {<<account, roleKey>>}
  /\ UNCHANGED <<signers, feeReceiver, priceFeeds, realtimeFeeds, strictMode>>

\* Fault: the last member of a role can be revoked.
RevokeAnyRole(caller, account, roleKey) ==
  /\ <<caller, "ROLE_ADMIN">> \in roles
  /\ roles' = roles \ {<<account, roleKey>>}
  /\ UNCHANGED <<signers, feeReceiver, priceFeeds, realtimeFeeds, strictMode>>

RevokeRole(caller, account, roleKey) ==
  /\ <<caller, "ROLE_ADMIN">> \in roles
  /\ roleKey \in {"ROLE_ADMIN", "TIMELOCK_MULTISIG"} => Members(roleKey) \ {account} # {}
  /\ roles' = roles \ {<<account, roleKey>>}
  /\ UNCHANGED <<signers, feeReceiver, priceFeeds, realtimeFeeds, strictMode>>

\* What a CONTROLLER may do to the stores, of what the Timelock protects.
ControllerEffect(caller, kind, target, value) ==
  /\ <<caller, "CONTROLLER">> \in roles
  /\ \/ /\ kind = "addOracleSigner"
        /\ signers' = signers \cup {target}
        /\ UNCHANGED <<feeReceiver, priceFeeds, realtimeFeeds>>
     \/ /\ kind = "removeOracleSigner"
        /\ signers' = signers \ {target}
        /\ UNCHANGED <<feeReceiver, priceFeeds, realtimeFeeds>>
     \/ /\ kind = "setFeeReceiver"
        /\ feeReceiver' = target
        /\ UNCHANGED <<signers, priceFeeds, realtimeFeeds>>
     \/ /\ kind = "setPriceFeed"
        /\ priceFeeds' = [priceFeeds EXCEPT ![target] = value]
        /\ UNCHANGED <<signers, feeReceiver, realtimeFeeds>>
     \/ /\ kind = "setRealtimeFeed"
        /\ realtimeFeeds' = [realtimeFeeds EXCEPT ![target] = value]
        /\ UNCHANGED <<signers, feeReceiver, priceFeeds>>
  /\ UNCHANGED <<roles, strictMode>>

Effect(caller, action) ==
  \/ action.kind = "grantRole" /\ GrantRole(caller, action.target, action.value)
  \/ action.kind = "revokeRole" /\ RevokeRole(caller, action.target, action.value)
  \/ ControllerEffect(caller, action.kind, action.target, action.value)

-----------------------------------------------------------------------------
(* The Timelock. *)

\* Fault: a function without the modifier.
AnyCaller(caller) == TRUE

OnlyTimelockAdmin(caller) == <<caller, "TIMELOCK_ADMIN">> \in roles
OnlyTimelockMultisig(caller) == <<caller, "TIMELOCK_MULTISIG">> \in roles

\* The signal... functions.
Signal(caller, action) ==
  /\ OnlyTimelockAdmin(caller)
  /\ action.kind \in {"addOracleSigner", "removeOracleSigner", "setFeeReceiver"} =>
       action.target # NoAddress
  /\ pendingActions[action] = 0
  /\ Cardinality({a \in Announcements : pendingActions[a] # 0}) < MaxPending
  /\ pendingActions' = [pendingActions EXCEPT ![action] = now + timelockDelay]
  /\ signalledAt' = [signalledAt EXCEPT ![action] = now]
  /\ UNCHANGED <<protected, timelockDelay, now>>

\* Fault: the time that has to pass is not checked.
ValidateSignalled(action) == pendingActions[action] # 0

\* Timelock._validateAction.
ValidateAction(action) ==
  /\ pendingActions[action] # 0
  /\ pendingActions[action] <= now

\* Timelock._clearAction.
ClearAction(action) ==
  /\ pendingActions' = [pendingActions EXCEPT ![action] = 0]
  /\ signalledAt' = [signalledAt EXCEPT ![action] = 0]

\* The ...AfterSignal functions.
ActAfterSignal(caller, action) ==
  /\ OnlyTimelockAdmin(caller)
  /\ ValidateAction(action)
  /\ ClearAction(action)
  /\ Effect(Timelock, action)
  /\ UNCHANGED <<timelockDelay, now>>

CancelAction(caller, action) ==
  /\ OnlyTimelockAdmin(caller)
  /\ pendingActions[action] # 0
  /\ ClearAction(action)
  /\ UNCHANGED <<protected, timelockDelay, now>>

RevokeRoleAtOnce(caller, account, roleKey) ==
  /\ OnlyTimelockMultisig(caller)
  /\ RevokeRole(Timelock, account, roleKey)
  /\ UNCHANGED <<timelockDelay, pendingActions, now, signalledAt>>

SetInStrictPriceFeedMode(caller, value) ==
  /\ OnlyTimelockMultisig(caller)
  /\ <<Timelock, "CONTROLLER">> \in roles
  /\ strictMode' = value
  /\ UNCHANGED <<roles, signers, feeReceiver, priceFeeds, realtimeFeeds>>
  /\ UNCHANGED <<timelockDelay, pendingActions, now, signalledAt>>

\* Fault: the delay may also shrink.
ValidDelayBelowMaximum(delay) == delay <= MAX_TIMELOCK_DELAY

ValidDelay(delay) == delay > timelockDelay /\ delay <= MAX_TIMELOCK_DELAY

IncreaseTimelockDelay(caller, delay) ==
  /\ OnlyTimelockAdmin(caller)
  /\ ValidDelay(delay)
  /\ timelockDelay' = delay
  /\ UNCHANGED <<protected, pendingActions, now, signalledAt>>

-----------------------------------------------------------------------------
\* An account that is a ROLE_ADMIN or a CONTROLLER itself needs no Timelock.
ActDirectly(caller, action) ==
  /\ caller # Timelock
  /\ Effect(caller, action)
  /\ UNCHANGED <<timelockDelay, pendingActions, now, signalledAt>>

Tick ==
  /\ now < MaxTime
  /\ now' = now + 1
  /\ UNCHANGED <<protected, timelockDelay, pendingActions, signalledAt>>

CallBy(caller) ==
  \/ \E action \in Announcements :
       \/ Signal(caller, action)
       \/ ActAfterSignal(caller, action)
       \/ CancelAction(caller, action)
       \/ ActDirectly(caller, action)
  \/ \E account \in Accounts, roleKey \in RoleKeys :
       RevokeRoleAtOnce(caller, account, roleKey)
  \/ \E value \in BOOLEAN : SetInStrictPriceFeedMode(caller, value)
  \/ \E delay \in 0..MAX_TIMELOCK_DELAY : IncreaseTimelockDelay(caller, delay)

Next == Tick \/ \E caller \in Accounts : CallBy(caller)

Spec == Init /\ [][Next]_vars

-----------------------------------------------------------------------------
(* Safety. *)

OnlyTimelockIn(roleKey) == Members(roleKey) \subseteq {Timelock}

\* An action was announced, not cancelled since, the delay has passed, and its
\* announcement is used up in this step.
Announced(action) ==
  /\ action \in Announcements
  /\ signalledAt[action] # 0
  /\ signalledAt[action] + InitialDelay <= now
  /\ signalledAt'[action] = 0

AnnouncedFor(kind, target, value) ==
  Announced([kind |-> kind, target |-> target, value |-> value])

\* While the Timelock is the only one with the power to do so, nobody gets a
\* role, no signer, fee receiver or feed is changed, but after an announcement
\* of just that, that nobody cancelled, that everybody could see for the delay,
\* and that counts once.
NoSurprises ==
  [][/\ OnlyTimelockIn("ROLE_ADMIN") =>
          \A m \in roles' \ roles : AnnouncedFor("grantRole", m[1], m[2])
     /\ OnlyTimelockIn("CONTROLLER") =>
          /\ \A s \in signers' \ signers : AnnouncedFor("addOracleSigner", s, "none")
          /\ \A s \in signers \ signers' : AnnouncedFor("removeOracleSigner", s, "none")
          /\ feeReceiver' # feeReceiver =>
               AnnouncedFor("setFeeReceiver", feeReceiver', "none")
          /\ \A t \in Tokens :
               /\ priceFeeds'[t] # priceFeeds[t] =>
                    AnnouncedFor("setPriceFeed", t, priceFeeds'[t])
               /\ realtimeFeeds'[t] # realtimeFeeds[t] =>
                    AnnouncedFor("setRealtimeFeed", t, realtimeFeeds'[t])]_vars

\* The multisig can stop the admins of the Timelock for good: once the last of
\* them is revoked and nobody else administers roles, what they had announced is
\* never done, and no role is given again.
StoppedStaysStopped ==
  [][Members("TIMELOCK_ADMIN") = {} /\ OnlyTimelockIn("ROLE_ADMIN") =>
       /\ roles' \subseteq roles
       /\ OnlyTimelockIn("CONTROLLER") =>
            UNCHANGED <<signers, feeReceiver, priceFeeds, realtimeFeeds>>]_vars

\* Whatever is announced, revoked at once or done without the Timelock, the last
\* account that can administer roles stays, and so does the last multisig: a
\* removal that would leave nobody is undone.
GuardedRoles == {"ROLE_ADMIN", "TIMELOCK_MULTISIG"}

MembersRemain ==
  [][\A r \in GuardedRoles :
       Members(r) # {} => \E a \in Accounts : <<a, r>> \in roles']_vars
=============================================================================
