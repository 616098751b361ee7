-------------------------- MODULE GovernanceProofs --------------------------
(***************************************************************************)
(* Theorems about Governance.                                              *)
(***************************************************************************)
EXTENDS Governance, TLAPS

USE GovernanceAssumption, AnnouncementsAssumption

\* What is pending was announced, and is not due before the delay has passed.
DueAfterDelay ==
  \A a \in Announcements :
    pendingActions[a] # 0 => /\ signalledAt[a] # 0
                             /\ signalledAt[a] + InitialDelay <= pendingActions[a]

IInv == TypeOK /\ DueAfterDelay

LEMMA ActionsTyped ==
  ASSUME NEW action \in Announcements
  PROVE  /\ action.kind \in {"addOracleSigner", "removeOracleSigner", "setFeeReceiver"} =>
              action.target \in Accounts /\ action.value = "none"
         /\ action.kind \in {"grantRole", "revokeRole"} =>
              action.target \in Accounts /\ action.value \in RoleKeys
         /\ action.kind \in {"setPriceFeed", "setRealtimeFeed"} =>
              action.target \in Tokens /\ action.value \in Feeds
         /\ action = [kind |-> action.kind, target |-> action.target, value |-> action.value]
BY DEF Actions

\* What an effect changes is of the right type, whoever causes it.
LEMMA EffectTypes ==
  ASSUME TypeOK, NEW caller \in Accounts, NEW action \in Announcements,
         Effect(caller, action)
  PROVE  /\ roles' \subseteq Accounts \X RoleKeys
         /\ signers' \subseteq Accounts
         /\ feeReceiver' \in Accounts
         /\ priceFeeds' \in [Tokens -> Feeds \cup {"none"}]
         /\ realtimeFeeds' \in [Tokens -> Feeds \cup {"none"}]
         /\ strictMode' \in BOOLEAN
<1>1. CASE action.kind = "grantRole" /\ GrantRole(caller, action.target, action.value)
  BY <1>1, ActionsTyped DEF GrantRole, TypeOK
<1>2. CASE action.kind = "revokeRole" /\ RevokeRole(caller, action.target, action.value)
  BY <1>2, ActionsTyped DEF RevokeRole, TypeOK
<1>3. CASE ControllerEffect(caller, action.kind, action.target, action.value)
  BY <1>3, ActionsTyped DEF ControllerEffect, TypeOK
<1> QED BY <1>1, <1>2, <1>3 DEF Effect

-----------------------------------------------------------------------------
LEMMA InitIInv == Init => IInv
<1> SUFFICES ASSUME Init PROVE IInv
  OBVIOUS
<1>1. timelockDelay \in InitialDelay..MAX_TIMELOCK_DELAY /\ now \in Nat \ {0}
  BY DEF Init
<1>2. /\ roles \subseteq Accounts \X RoleKeys
      /\ signers \subseteq Accounts
      /\ feeReceiver \in Accounts
      /\ strictMode \in BOOLEAN
  BY DEF Init
<1>3. /\ priceFeeds \in [Tokens -> Feeds \cup {"none"}]
      /\ realtimeFeeds \in [Tokens -> Feeds \cup {"none"}]
  BY DEF Init
<1>4. /\ pendingActions \in [Announcements -> Nat]
      /\ signalledAt \in [Announcements -> Nat]
      /\ DueAfterDelay
  BY DEF Init, DueAfterDelay
<1> QED BY <1>1, <1>2, <1>3, <1>4 DEF IInv, TypeOK

LEMMA SignalIInv ==
  ASSUME IInv, NEW caller \in Accounts, NEW action \in Announcements,
         Signal(caller, action)
  PROVE  IInv'
<1>1. now + timelockDelay \in Nat /\ now + InitialDelay <= now + timelockDelay
  BY DEF IInv, TypeOK
<1>2. TypeOK'
  BY <1>1 DEF IInv, TypeOK, Signal, protected
<1>3. DueAfterDelay'
  BY <1>1 DEF IInv, TypeOK, DueAfterDelay, Signal, protected
<1> QED BY <1>2, <1>3 DEF IInv

LEMMA ClearDue ==
  ASSUME IInv, NEW action \in Announcements, ClearAction(action)
  PROVE  /\ pendingActions' \in [Announcements -> Nat]
         /\ signalledAt' \in [Announcements -> Nat]
         /\ DueAfterDelay'
BY DEF IInv, TypeOK, DueAfterDelay, ClearAction

LEMMA NextIInv == IInv /\ [Next]_vars => IInv'
<1> SUFFICES ASSUME IInv, [Next]_vars PROVE IInv'
  OBVIOUS
<1> USE DEF IInv
<1>1. CASE Tick
  BY <1>1 DEF Tick, protected, TypeOK, DueAfterDelay
<1>2. ASSUME NEW caller \in Accounts, CallBy(caller) PROVE IInv'
  <2>1. ASSUME NEW action \in Announcements, Signal(caller, action) PROVE IInv'
    BY <2>1, SignalIInv
  <2>2. ASSUME NEW action \in Announcements, ActAfterSignal(caller, action) PROVE IInv'
    <3>1. Effect(Timelock, action) /\ ClearAction(action)
      BY <2>2 DEF ActAfterSignal
    <3>2. UNCHANGED <<timelockDelay, now>>
      BY <2>2 DEF ActAfterSignal
    <3> QED BY <3>1, <3>2, EffectTypes, ClearDue DEF TypeOK
  <2>3. ASSUME NEW action \in Announcements, CancelAction(caller, action) PROVE IInv'
    BY <2>3, ClearDue DEF CancelAction, protected, TypeOK
  <2>4. ASSUME NEW action \in Announcements, ActDirectly(caller, action) PROVE IInv'
    <3>1. Effect(caller, action)  BY <2>4 DEF ActDirectly
    <3>2. UNCHANGED <<timelockDelay, pendingActions, now, signalledAt>>
      BY <2>4 DEF ActDirectly
    <3>3. DueAfterDelay'  BY <3>2 DEF DueAfterDelay
    <3> QED BY <3>1, <3>2, <3>3, EffectTypes DEF TypeOK
  <2>5. ASSUME NEW account \in Accounts, NEW roleKey \in RoleKeys,
               RevokeRoleAtOnce(caller, account, roleKey)
        PROVE  IInv'
    BY <2>5 DEF RevokeRoleAtOnce, RevokeRole, TypeOK, DueAfterDelay
  <2>6. ASSUME NEW value \in BOOLEAN, SetInStrictPriceFeedMode(caller, value) PROVE IInv'
    BY <2>6 DEF SetInStrictPriceFeedMode, TypeOK, DueAfterDelay
  <2>7. ASSUME NEW delay \in 0..MAX_TIMELOCK_DELAY, IncreaseTimelockDelay(caller, delay)
        PROVE  IInv'
    BY <2>7 DEF IncreaseTimelockDelay, ValidDelay, protected, TypeOK, DueAfterDelay
  <2> QED BY <1>2, <2>1, <2>2, <2>3, <2>4, <2>5, <2>6, <2>7 DEF CallBy
<1>3. CASE UNCHANGED vars
  BY <1>3 DEF vars, protected, TypeOK, DueAfterDelay
<1> QED BY <1>1, <1>2, <1>3 DEF Next

LEMMA IInvHolds == Spec => []IInv
BY InitIInv, NextIInv, PTL DEF Spec

\* Every variable keeps its type; in particular the delay of the Timelock never
\* falls below the one it was deployed with.
THEOREM TypeCorrect == Spec => []TypeOK
<1>1. IInv => TypeOK  BY DEF IInv
<1> QED BY <1>1, IInvHolds, PTL

-----------------------------------------------------------------------------
(* What changes, and by whom. *)

\* Only an effect changes what NoSurprises is about, or a role that is taken.
LEMMA WhoChanges ==
  ASSUME [Next]_vars
  PROVE  \/ \E caller \in Accounts, action \in Announcements :
              ActAfterSignal(caller, action) \/ ActDirectly(caller, action)
         \/ /\ roles' \subseteq roles
            /\ UNCHANGED <<signers, feeReceiver, priceFeeds, realtimeFeeds>>
<1>1. CASE Tick  BY <1>1 DEF Tick, protected
<1>2. ASSUME NEW caller \in Accounts, CallBy(caller)
      PROVE  \/ \E action \in Announcements :
                  ActAfterSignal(caller, action) \/ ActDirectly(caller, action)
             \/ /\ roles' \subseteq roles
                /\ UNCHANGED <<signers, feeReceiver, priceFeeds, realtimeFeeds>>
  BY <1>2 DEF CallBy, Signal, CancelAction, RevokeRoleAtOnce, RevokeRole,
              SetInStrictPriceFeedMode, IncreaseTimelockDelay, protected
<1>3. CASE UNCHANGED vars  BY <1>3 DEF vars, protected
<1> QED BY <1>1, <1>2, <1>3 DEF Next

\* What an effect does to roles, and to everything else.
LEMMA EffectOnRoles ==
  ASSUME NEW caller \in Accounts, NEW action \in Announcements, Effect(caller, action)
  PROVE  \/ /\ action.kind = "grantRole"
            /\ roles' = roles \cup {<<action.target, action.value>>}
            /\ <<caller, "ROLE_ADMIN">> \in roles
            /\ UNCHANGED <<signers, feeReceiver, priceFeeds, realtimeFeeds>>
         \/ /\ roles' \subseteq roles
            /\ UNCHANGED <<signers, feeReceiver, priceFeeds, realtimeFeeds>>
         \/ /\ roles' = roles
            /\ ControllerEffect(caller, action.kind, action.target, action.value)
BY DEF Effect, GrantRole, RevokeRole, ControllerEffect

\* Acting on what was announced uses up an announcement that is old enough.
LEMMA ActedIsAnnounced ==
  ASSUME IInv, NEW caller \in Accounts, NEW action \in Announcements,
         ActAfterSignal(caller, action)
  PROVE  Announced(action)
<1>1. pendingActions[action] # 0 /\ pendingActions[action] <= now
  BY DEF ActAfterSignal, ValidateAction
<1>2. signalledAt'[action] = 0
  BY DEF ActAfterSignal, ClearAction, IInv, TypeOK
<1>3. signalledAt[action] \in Nat /\ pendingActions[action] \in Nat /\ now \in Nat
  BY DEF IInv, TypeOK
<1> QED BY <1>1, <1>2, <1>3 DEF IInv, DueAfterDelay, Announced

\* NoSurprises, of one step.
RolesAnnounced ==
  OnlyTimelockIn("ROLE_ADMIN") =>
    \A m \in roles' \ roles : AnnouncedFor("grantRole", m[1], m[2])

SettingsAnnounced ==
  OnlyTimelockIn("CONTROLLER") =>
    /\ \A s \in signers' \ signers : AnnouncedFor("addOracleSigner", s, "none")
    /\ \A s \in signers \ signers' : AnnouncedFor("removeOracleSigner", s, "none")
    /\ feeReceiver' # feeReceiver =>
         AnnouncedFor("setFeeReceiver", feeReceiver', "none")
    /\ \A t \in Tokens :
         /\ priceFeeds'[t] # priceFeeds[t] =>
              AnnouncedFor("setPriceFeed", t, priceFeeds'[t])
         /\ realtimeFeeds'[t] # realtimeFeeds[t] =>
              AnnouncedFor("setRealtimeFeed", t, realtimeFeeds'[t])

LEMMA DirectNeedsPower ==
  ASSUME NEW caller \in Accounts, NEW action \in Announcements,
         ActDirectly(caller, action)
  PROVE  /\ OnlyTimelockIn("ROLE_ADMIN") => roles' \subseteq roles
         /\ OnlyTimelockIn("CONTROLLER") =>
              UNCHANGED <<signers, feeReceiver, priceFeeds, realtimeFeeds>>
<1>1. caller # Timelock /\ Effect(caller, action)  BY DEF ActDirectly
<1>2. OnlyTimelockIn("ROLE_ADMIN") => <<caller, "ROLE_ADMIN">> \notin roles
  BY <1>1 DEF OnlyTimelockIn, Members
<1>3. OnlyTimelockIn("CONTROLLER") => <<caller, "CONTROLLER">> \notin roles
  BY <1>1 DEF OnlyTimelockIn, Members
<1>4. ControllerEffect(caller, action.kind, action.target, action.value) =>
        <<caller, "CONTROLLER">> \in roles
  BY DEF ControllerEffect
<1> QED BY <1>1, <1>2, <1>3, <1>4, EffectOnRoles

LEMMA ActIsAnnounced ==
  ASSUME IInv, NEW caller \in Accounts, NEW action \in Announcements,
         ActAfterSignal(caller, action)
  PROVE  RolesAnnounced /\ SettingsAnnounced
<1>1. Announced(action)  BY ActedIsAnnounced
<1>2. action = [kind |-> action.kind, target |-> action.target, value |-> action.value]
  BY ActionsTyped
<1>3. AnnouncedFor(action.kind, action.target, action.value)
  BY <1>1, <1>2 DEF AnnouncedFor
<1>4. Effect(Timelock, action)  BY DEF ActAfterSignal
<1>5. CASE /\ action.kind = "grantRole"
           /\ roles' = roles \cup {<<action.target, action.value>>}
           /\ UNCHANGED <<signers, feeReceiver, priceFeeds, realtimeFeeds>>
  BY <1>3, <1>5 DEF RolesAnnounced, SettingsAnnounced
<1>6. CASE /\ roles' \subseteq roles
           /\ UNCHANGED <<signers, feeReceiver, priceFeeds, realtimeFeeds>>
  BY <1>6 DEF RolesAnnounced, SettingsAnnounced
<1>7. CASE /\ roles' = roles
           /\ ControllerEffect(Timelock, action.kind, action.target, action.value)
  <2>1. RolesAnnounced  BY <1>7 DEF RolesAnnounced
  <2>2. SettingsAnnounced
    <3>1. CASE /\ action.kind \in {"addOracleSigner", "removeOracleSigner"}
      <4>1. action.value = "none"  BY <3>1, ActionsTyped
      <4> QED BY <1>3, <1>7, <3>1, <4>1 DEF ControllerEffect, SettingsAnnounced
    <3>2. CASE action.kind = "setFeeReceiver"
      <4>1. action.value = "none"  BY <3>2, ActionsTyped
      <4> QED BY <1>3, <1>7, <3>2, <4>1 DEF ControllerEffect, SettingsAnnounced
    <3>3. CASE action.kind = "setPriceFeed"
      BY <1>3, <1>7, <3>3 DEF ControllerEffect, SettingsAnnounced, IInv, TypeOK
    <3>4. CASE action.kind = "setRealtimeFeed"
      BY <1>3, <1>7, <3>4 DEF ControllerEffect, SettingsAnnounced, IInv, TypeOK
    <3> QED BY <1>7, <3>1, <3>2, <3>3, <3>4 DEF ControllerEffect
  <2> QED BY <2>1, <2>2
<1> QED BY <1>4, <1>5, <1>6, <1>7, EffectOnRoles

\* While the Timelock alone has the power, whatever is given or set was announced
\* for at least the delay, for any number of accounts, roles, tokens and admins.
THEOREM ChangesAreAnnounced == Spec => NoSurprises
<1>1. IInv /\ [Next]_vars => [RolesAnnounced /\ SettingsAnnounced]_vars
  <2> SUFFICES ASSUME IInv, [Next]_vars PROVE RolesAnnounced /\ SettingsAnnounced
    OBVIOUS
  <2>1. CASE \E caller \in Accounts, action \in Announcements :
               ActAfterSignal(caller, action)
    BY <2>1, ActIsAnnounced
  <2>2. CASE \E caller \in Accounts, action \in Announcements :
               ActDirectly(caller, action)
    BY <2>2, DirectNeedsPower DEF RolesAnnounced, SettingsAnnounced
  <2>3. CASE /\ roles' \subseteq roles
             /\ UNCHANGED <<signers, feeReceiver, priceFeeds, realtimeFeeds>>
    BY <2>3 DEF RolesAnnounced, SettingsAnnounced
  <2> QED BY <2>1, <2>2, <2>3, WhoChanges
<1> QED BY <1>1, IInvHolds, PTL DEF Spec, NoSurprises, RolesAnnounced, SettingsAnnounced

\* A Timelock without admins does nothing more, whatever was pending.
THEOREM TheBrakeHolds == Spec => StoppedStaysStopped
<1> DEFINE Stopped ==
      Members("TIMELOCK_ADMIN") = {} /\ OnlyTimelockIn("ROLE_ADMIN") =>
        /\ roles' \subseteq roles
        /\ OnlyTimelockIn("CONTROLLER") =>
             UNCHANGED <<signers, feeReceiver, priceFeeds, realtimeFeeds>>
<1>1. [Next]_vars => [Stopped]_vars
  <2> SUFFICES ASSUME [Next]_vars PROVE Stopped
    OBVIOUS
  <2>1. CASE \E caller \in Accounts, action \in Announcements :
               ActAfterSignal(caller, action)
    BY <2>1 DEF ActAfterSignal, OnlyTimelockAdmin, Members
  <2>2. CASE \E caller \in Accounts, action \in Announcements :
               ActDirectly(caller, action)
    BY <2>2, DirectNeedsPower
  <2>3. CASE /\ roles' \subseteq roles
             /\ UNCHANGED <<signers, feeReceiver, priceFeeds, realtimeFeeds>>
    BY <2>3
  <2> QED BY <2>1, <2>2, <2>3, WhoChanges
<1> QED BY <1>1, PTL DEF Spec, StoppedStaysStopped

-----------------------------------------------------------------------------
\* Nobody takes the last member out of a role that must have one.
LEMMA LastMemberStays ==
  ASSUME TypeOK, [Next]_vars, NEW roleKey \in GuardedRoles,
         Members(roleKey) # {}
  PROVE  \E a \in Accounts : <<a, roleKey>> \in roles'
<1> DEFINE Revoking == \E caller, account \in Accounts, r \in RoleKeys :
                         RevokeRole(caller, account, r)
<1>1. Revoking \/ roles \subseteq roles'
  <2>1. CASE Tick  BY <2>1 DEF Tick, protected
  <2>2. ASSUME NEW caller \in Accounts, CallBy(caller)
        PROVE  Revoking \/ roles \subseteq roles'
    <3>1. ASSUME NEW action \in Announcements, NEW by \in Accounts, Effect(by, action)
          PROVE  Revoking \/ roles \subseteq roles'
      <4>1. CASE action.kind = "revokeRole"
        BY <3>1, <4>1, ActionsTyped DEF Effect, ControllerEffect
      <4>2. CASE action.kind # "revokeRole"
        BY <3>1, <4>2 DEF Effect, GrantRole, ControllerEffect
      <4> QED BY <4>1, <4>2
    <3>2. CASE \E action \in Announcements :
                 ActAfterSignal(caller, action) \/ ActDirectly(caller, action)
      BY <3>1, <3>2 DEF ActAfterSignal, ActDirectly
    <3>3. CASE \E account \in Accounts, r \in RoleKeys :
                 RevokeRoleAtOnce(caller, account, r)
      BY <3>3 DEF RevokeRoleAtOnce
    <3> QED BY <2>2, <3>2, <3>3
            DEF CallBy, Signal, CancelAction, SetInStrictPriceFeedMode,
                IncreaseTimelockDelay, protected
  <2>3. CASE UNCHANGED vars  BY <2>3 DEF vars, protected
  <2> QED BY <2>1, <2>2, <2>3 DEF Next
<1>2. CASE roles \subseteq roles'
  BY <1>2 DEF Members
<1>3. CASE Revoking
  <2>1. PICK caller \in Accounts, account \in Accounts, r \in RoleKeys :
               RevokeRole(caller, account, r)
    BY <1>3
  <2>2. CASE r = roleKey
    <3>1. PICK a \in Members(roleKey) : a # account
      BY <2>1, <2>2 DEF RevokeRole, GuardedRoles
    <3> QED BY <2>1, <3>1 DEF RevokeRole, Members
  <2>3. CASE r # roleKey
    BY <2>1, <2>3 DEF RevokeRole, Members
  <2> QED BY <2>2, <2>3
<1> QED BY <1>1, <1>2, <1>3

\* A role that must have a member keeps one: somebody can always administer
\* roles, and a multisig that exists is never left empty.
THEOREM GuardedRolesKeepMembers == Spec => MembersRemain
<1> DEFINE Stays == \A r \in GuardedRoles :
                      Members(r) # {} => \E a \in Accounts : <<a, r>> \in roles'
<1>1. IInv /\ [Next]_vars => [Stays]_vars
  BY LastMemberStays DEF IInv
<1> QED BY <1>1, IInvHolds, PTL DEF Spec, MembersRemain
=============================================================================
