------------------------------ MODULE Deployment ------------------------------
(***************************************************************************)
(* Deploying and upgrading the contracts: a run of the deploy scripts in   *)
(* their order, one script at a time (createDeployFunction), which may be  *)
(* cut off between any two of its transactions and is then started again   *)
(* from the first script; releases that change a contract's code and       *)
(* perhaps the ids of pinned scripts; and the hand-over of ROLE_ADMIN from *)
(* the deployer to the Timelock, after which the roles of new instances    *)
(* have to be granted by governance.                                       *)
(* An instance is a contract's name and the number of its deployment; 0 is *)
(* no instance.                                                            *)
(***************************************************************************)
EXTENDS DeployScripts

CONSTANTS Released,     \* the scripts whose contract a release may change
          MaxReleases,  \* bound: releases
          MaxCrashes    \* bound: runs that are cut off

ASSUME DeploymentAssumption ==
    /\ Released \subseteq Tags
    /\ MaxReleases \in Nat /\ MaxCrashes \in Nat

VARIABLES source,     \* the version of each contract's code in the repository
          ids,        \* the version of each pinned script's id in the repository
          instance,   \* the current deployment of each contract
          built,      \* what that deployment was built from
          migrated,   \* the ids hardhat-deploy has recorded
          done,       \* the duties carried out, each with the instance it was for
          at,         \* the place of the run in Order, 0 between runs
          doing,      \* what the script at that place does next
          completed,  \* the last run reached the end and nothing was released since
          careful,    \* every release so far bumped every pinned script it reaches
          releases, crashes

repository == <<source, ids, careful, releases>>
chain == <<instance, built, migrated, done>>
vars == <<repository, chain, at, doing, completed, crashes>>

Contracts == {t \in Tags : Registry[t].contract}
PinnedTags == {t \in Tags : Registry[t].pinned}
Takes(t) == Registry[t].takes

-----------------------------------------------------------------------------
(* What the chain holds.                                                   *)

\* What `deploy` compares: the code, and the addresses that are linked and passed.
Wanted(t) == [source |-> source[t], with |-> [d \in Takes(t) |-> instance[d]]]

\* The contract that keeps the result of a duty, and for whom it is kept.
Keeper(duty) == CASE duty.kind = "role" -> "RoleStore"
                  [] duty.kind = "setting" -> "DataStore"
                  [] OTHER -> "ReferralStorage"
Entry(t, duty) ==
    [keeper |-> <<Keeper(duty), instance[Keeper(duty)]>>, name |-> duty.name,
     for |-> IF duty.kind = "setting" \/ t = "ReferralStorage" THEN <<"all", 0>>
             ELSE IF duty.to = "itself" THEN <<t, instance[t]>> ELSE <<duty.to, 0>>]
Duties(t) == Registry[t].duties
Undone(t) == {i \in DOMAIN Duties(t) : Entry(t, Duties(t)[i]) \notin done}
NextDuty(t) == Duties(t)[Min(Undone(t))]

RoleEntry(roleStore, who, role) ==
    [keeper |-> <<"RoleStore", roleStore>>, name |-> role, for |-> who]
Deployer == <<"deployer", 0>>
HasRole(roleStore, who, role) == RoleEntry(roleStore, who, role) \in done

\* Roles are granted by a ROLE_ADMIN of the current RoleStore; a setting is
\* written by a CONTROLLER of the RoleStore the DataStore was built with; the
\* ReferralStorage is the deployer's own.
Allowed(duty) ==
    CASE duty.kind = "role" -> HasRole(instance["RoleStore"], Deployer, "ROLE_ADMIN")
      [] duty.kind = "setting" ->
            HasRole(built["DataStore"].with["RoleStore"], Deployer, "CONTROLLER")
      [] OTHER -> TRUE

-----------------------------------------------------------------------------
(* One run; t is the script at its place.                                  *)

Running == {Order[i] : i \in {at} \ {0}}

NextScript ==
    /\ doing' = "deploy"
    /\ at' = IF at < Len(Order) THEN at + 1 ELSE 0
    /\ completed' = (at = Len(Order))

StartRun ==
    /\ at = 0 /\ ~completed
    /\ at' = 1 /\ doing' = "deploy"
    /\ UNCHANGED <<repository, chain, completed, crashes>>

\* hardhat-deploy passes over a script whose id it has recorded.
SkipMigrated(t) ==
    /\ doing = "deploy"
    /\ t \in PinnedTags /\ <<t, ids[t]>> \in migrated
    /\ NextScript
    /\ UNCHANGED <<repository, chain, crashes>>

\* A new deployment of t; the constructor of the RoleStore makes its sender an admin.
Deploy(t) ==
    /\ instance' = [instance EXCEPT ![t] = @ + 1]
    /\ built' = [built EXCEPT ![t] = Wanted(t)]
    /\ done' = IF t = "RoleStore"
               THEN done \cup {RoleEntry(instance'[t], Deployer, "ROLE_ADMIN")}
               ELSE done

\* Faults: the contract is deployed on every run; only the code is compared; the
\* id is recorded with the deployment.
DeployAlways(t) ==
    /\ doing = "deploy"
    /\ <<t, ids[t]>> \notin migrated
    /\ \A d \in Takes(t) : instance[d] > 0
    /\ doing' = "afterDeploy"
    /\ IF t \notin Contracts THEN UNCHANGED <<instance, built, done>> ELSE Deploy(t)
    /\ UNCHANGED <<repository, migrated, at, completed, crashes>>
DeployNewCodeOnly(t) ==
    /\ doing = "deploy"
    /\ <<t, ids[t]>> \notin migrated
    /\ \A d \in Takes(t) : instance[d] > 0
    /\ doing' = "afterDeploy"
    /\ IF t \notin Contracts \/ (instance[t] > 0 /\ built[t].source = source[t])
       THEN UNCHANGED <<instance, built, done>> ELSE Deploy(t)
    /\ UNCHANGED <<repository, migrated, at, completed, crashes>>
DeployAndRecord(t) ==
    /\ doing = "deploy"
    /\ <<t, ids[t]>> \notin migrated
    /\ \A d \in Takes(t) : instance[d] > 0
    /\ doing' = "afterDeploy"
    /\ IF t \notin Contracts \/ (instance[t] > 0 /\ built[t] = Wanted(t))
       THEN UNCHANGED <<instance, built, done>> ELSE Deploy(t)
    /\ migrated' = IF t \in PinnedTags THEN migrated \cup {<<t, ids[t]>>} ELSE migrated
    /\ UNCHANGED <<repository, at, completed, crashes>>

\* `get` throws for a dependency that has no deployment; `deploy` keeps the
\* deployment it has recorded when nothing it was built from has changed.
DeployContract(t) ==
    /\ doing = "deploy"
    /\ <<t, ids[t]>> \notin migrated
    /\ \A d \in Takes(t) : instance[d] > 0
    /\ doing' = "afterDeploy"
    /\ IF t \notin Contracts \/ (instance[t] > 0 /\ built[t] = Wanted(t))
       THEN UNCHANGED <<instance, built, done>> ELSE Deploy(t)
    /\ UNCHANGED <<repository, migrated, at, completed, crashes>>

\* One transaction of afterDeploy; what is in place already is left alone.
AfterDeploy(t) ==
    /\ doing = "afterDeploy"
    /\ Undone(t) # {}
    /\ Allowed(NextDuty(t))
    /\ done' = done \cup {Entry(t, NextDuty(t))}
    /\ UNCHANGED <<repository, instance, built, migrated, at, doing, completed, crashes>>

\* The transaction reverts, the script throws, the run ends.
Refused(t) ==
    /\ doing = "afterDeploy"
    /\ Undone(t) # {}
    /\ ~Allowed(NextDuty(t))
    /\ at' = 0 /\ doing' = "deploy"
    /\ UNCHANGED <<repository, chain, completed, crashes>>

\* `return true` records the id, and only now.
Conclude(t) ==
    /\ doing = "afterDeploy"
    /\ Undone(t) = {}
    /\ migrated' = IF t \in PinnedTags THEN migrated \cup {<<t, ids[t]>>} ELSE migrated
    /\ NextScript
    /\ UNCHANGED <<repository, instance, built, done, crashes>>

RunScript(t) ==
    SkipMigrated(t) \/ DeployContract(t) \/ AfterDeploy(t) \/ Refused(t) \/ Conclude(t)

Crash ==
    /\ at > 0 /\ crashes < MaxCrashes
    /\ crashes' = crashes + 1
    /\ at' = 0 /\ doing' = "deploy"
    /\ UNCHANGED <<repository, chain, completed>>

-----------------------------------------------------------------------------
(* Around the runs.                                                        *)

\* The pinned scripts that a change of t reaches: a new instance of t is taken
\* by the constructor, linked, or keeps what afterDeploy writes.  Order lists
\* a script after what it depends on.
Uses(t) == Takes(t) \cup {Keeper(duty) : duty \in ToSet(Duties(t))}
Users(t) == FoldLeft(LAMBDA R, u : IF Uses(u) \cap R # {} THEN R \cup {u} ELSE R, {t}, Order)
Reached(t) == PinnedTags \cap Users(t)

\* A release changes the code of t, and either the ids of all the pinned
\* scripts it reaches or no more than its own.
Release(t) ==
    /\ at = 0 /\ completed /\ releases < MaxReleases
    /\ releases' = releases + 1
    /\ source' = [source EXCEPT ![t] = @ + 1]
    /\ completed' = FALSE
    /\ \E bumped \in {Reached(t), {t} \cap PinnedTags} :
          /\ ids' = [u \in Tags |-> IF u \in bumped THEN ids[u] + 1 ELSE ids[u]]
          /\ careful' = (careful /\ bumped = Reached(t))
    /\ UNCHANGED <<chain, at, doing, crashes>>

\* The instances that may grant roles on the current RoleStore, beside the deployer.
Governors == {e.for : e \in {f \in done : /\ f.keeper = <<"RoleStore", instance["RoleStore"]>>
                                          /\ f.name = "ROLE_ADMIN"}} \ {Deployer}

\* "No EOA should have" ROLE_ADMIN: once a Timelock has it the deployer's is revoked.
HandOver ==
    /\ at = 0
    /\ <<"Timelock", instance["Timelock"]>> \in Governors
    /\ HasRole(instance["RoleStore"], Deployer, "ROLE_ADMIN")
    /\ done' = done \ {RoleEntry(instance["RoleStore"], Deployer, "ROLE_ADMIN")}
    /\ UNCHANGED <<repository, instance, built, migrated, at, doing, completed, crashes>>

\* updateRoles: signalGrantRole and, after the delay, grantRoleAfterSignal, for
\* a role that a deployed instance is missing and the deployer cannot give.
GovernanceGrants(t) ==
    /\ at = 0 /\ instance[t] > 0
    /\ ~HasRole(instance["RoleStore"], Deployer, "ROLE_ADMIN") /\ Governors # {}
    /\ \E i \in Undone(t) :
          /\ Duties(t)[i].kind = "role"
          /\ done' = done \cup {Entry(t, Duties(t)[i])}
    /\ UNCHANGED <<repository, instance, built, migrated, at, doing, completed, crashes>>

-----------------------------------------------------------------------------
\* The scripts as they are: a run reaches each of them once, after the scripts
\* it takes addresses of and those it writes to (itself among these); and
\* whatever uses a user of t is a user of t.
ASSUME OrderAssumption ==
    /\ Order \in Seq(Tags)
    /\ \A t \in Tags : \E i \in 1..Len(Order) : Order[i] = t
    /\ \A i, j \in 1..Len(Order) : Order[i] = Order[j] => i = j
    /\ \A i \in 1..Len(Order) :
          /\ Takes(Order[i]) \subseteq {Order[j] : j \in 1..(i - 1)}
          /\ Uses(Order[i]) \subseteq {Order[j] : j \in 1..i}
    /\ \A t \in Tags : /\ t \in Users(t) /\ Users(t) \subseteq Tags
                      /\ \A u \in Tags : Uses(u) \cap Users(t) # {} => u \in Users(t)

\* The deployer's ROLE_ADMIN comes from the constructor of the RoleStore and
\* from no script.
ASSUME DeployerAssumption ==
    /\ "deployer" \notin Tags
    /\ \A t \in Tags : \A i \in DOMAIN Duties(t) :
          Duties(t)[i].to = "deployer" => Duties(t)[i].name # "ROLE_ADMIN"

Init ==
    /\ source = [t \in Tags |-> 1] /\ ids = [t \in Tags |-> 1]
    /\ instance = [t \in Tags |-> 0]
    /\ built = [t \in Tags |-> [source |-> 0, with |-> [d \in Takes(t) |-> 0]]]
    /\ migrated = {} /\ done = {}
    /\ at = 0 /\ doing = "deploy" /\ completed = FALSE
    /\ careful = TRUE /\ releases = 0 /\ crashes = 0

Next == \/ StartRun \/ Crash \/ HandOver
        \/ \E t \in Running : RunScript(t)
        \/ \E t \in Contracts : GovernanceGrants(t)
        \/ \E t \in Released : Release(t)

\* The team runs the scripts until a run completes, and governance grants the
\* roles the runs are missing.
Spec == /\ Init /\ [][Next]_vars
        /\ WF_vars(StartRun)
        /\ WF_vars(\E t \in Running : RunScript(t))
        /\ SF_vars(\E t \in Contracts : GovernanceGrants(t))

-----------------------------------------------------------------------------
\* When a run has reached the end, every instance in use has the roles, the
\* settings and the tiers its script gives it, in the stores in use:
\* whatever was cut off before, by a crash or by a refused grant (the id of a
\* pinned script is recorded after afterDeploy, utils/deploy.ts).
Equipped == completed /\ careful => \A t \in Tags : Undone(t) = {}

\* When a run has reached the end, a contract is wired to something other than
\* the code and the instances in use only if it is pinned and a release did
\* not bump its id (utils/deploy.ts: "with `id` it's possible to control
\* whether a contract should be redeployed").
StaleOnlyBehindPins ==
    completed => \A t \in Contracts :
        built[t] # Wanted(t) => t \in PinnedTags /\ ~careful

\* Runs that are cut off and started again never deploy a contract twice from
\* the same code: there is one instance per release at the most.
NoDuplicates == \A t \in Contracts : instance[t] <= 1 + releases

\* Every run that is needed completes in the end.
RunsComplete == []<>completed
=============================================================================
