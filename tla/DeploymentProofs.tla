--------------------------- MODULE DeploymentProofs ---------------------------
(***************************************************************************)
(* However many runs of the deploy scripts are cut off and started again,  *)
(* and however many releases there are of whatever contracts: no contract  *)
(* is deployed twice from the same code, and a run that reaches the end    *)
(* leaves nothing stale and nothing unequipped but behind a pin that a     *)
(* release forgot.  Of the scripts the proofs use what OrderAssumption and *)
(* DeployerAssumption say, and nothing else.                               *)
(***************************************************************************)
EXTENDS Deployment, TLAPS

Places == 1..Len(Order)

\* The contract in use was built from the code and the instances in use.
Clean(t) == instance[t] > 0 /\ built[t] = Wanted(t)

\* The runs pass over the script.
Recorded(t) == t \in PinnedTags /\ <<t, ids[t]>> \in migrated

\* No run deploys the contract again before the next release.
Settled(t) == t \in Contracts => Clean(t) \/ (~careful /\ Recorded(t))

Shape ==
    /\ source \in [Tags -> Nat] /\ ids \in [Tags -> Nat] /\ instance \in [Tags -> Nat]
    /\ built = [t \in Tags |-> built[t]]
    /\ releases \in Nat /\ careful \in BOOLEAN /\ completed \in BOOLEAN
    /\ at \in 0..Len(Order) /\ doing \in {"deploy", "afterDeploy"}
    /\ \A t \in Tags : \A n \in Nat : n > ids[t] => <<t, n>> \notin migrated

\* Since the last release the runs have come as far as the place k: what is
\* before it is settled, what is not has not been deployed in this time.
Frontier(k) ==
    /\ at <= k
    /\ doing = "afterDeploy" => 0 < at /\ at < k
    /\ completed => k > Len(Order)
    /\ \A i \in Places : i < k => Settled(Order[i])
    /\ \A i \in Places : instance[Order[i]] <= IF i < k THEN 1 + releases ELSE releases

\* If every release bumped the ids it had to, what can have to be deployed again
\* is in a set R with all its users, and a run that has not come by does not
\* pass over it.
Closed(R) == \A u \in Tags : Uses(u) \cap R # {} => u \in R
Dirty(k, R) ==
    careful =>
       /\ Closed(R)
       /\ \A t \in Contracts \ R : Clean(t)
       /\ \A i \in Places : i >= k /\ Order[i] \in R => ~Recorded(Order[i])

\* And what a run has passed by is equipped.
Dutiful ==
    careful =>
       /\ at > 0 => \A i \in Places : i < at => Undone(Order[i]) = {}
       /\ \A t \in Tags : Recorded(t) => Undone(t) = {}
       /\ completed => \A t \in Tags : Undone(t) = {}

DInv ==
    /\ Shape /\ Dutiful
    /\ \E k \in 1..(Len(Order) + 1), R \in SUBSET Tags : Frontier(k) /\ Dirty(k, R)

-----------------------------------------------------------------------------
(* The scripts.                                                            *)

LEMMA PlaceFacts ==
  /\ Len(Order) \in Nat
  /\ \A i \in Places : Order[i] \in Tags
  /\ \A i \in Places, j \in Places : Order[i] = Order[j] => i = j
  /\ \A t \in Tags : \E i \in Places : Order[i] = t
  /\ \A i \in Places : /\ \A d \in Takes(Order[i]) : \E j \in Places : j < i /\ Order[j] = d
                       /\ \A d \in Uses(Order[i]) : \E j \in Places : j <= i /\ Order[j] = d
<1>1. /\ Order \in Seq(Tags)
      /\ \A t \in Tags : \E i \in 1..Len(Order) : Order[i] = t
      /\ \A i, j \in 1..Len(Order) : Order[i] = Order[j] => i = j
      /\ \A i \in 1..Len(Order) :
            /\ Takes(Order[i]) \subseteq {Order[j] : j \in 1..(i - 1)}
            /\ Uses(Order[i]) \subseteq {Order[j] : j \in 1..i}
  BY OrderAssumption
<1>2. Len(Order) \in Nat /\ \A i \in 1..Len(Order) : Order[i] \in Tags
  BY <1>1
<1>3. ASSUME NEW i \in 1..Len(Order)
      PROVE  /\ \A d \in Takes(Order[i]) : \E j \in 1..Len(Order) : j < i /\ Order[j] = d
             /\ \A d \in Uses(Order[i]) : \E j \in 1..Len(Order) : j <= i /\ Order[j] = d
  <2>1. /\ Takes(Order[i]) \subseteq {Order[j] : j \in 1..(i - 1)}
        /\ Uses(Order[i]) \subseteq {Order[j] : j \in 1..i}
    BY <1>1
  <2>2. ASSUME NEW d \in Takes(Order[i])
        PROVE  \E j \in 1..Len(Order) : j < i /\ Order[j] = d
    <3>1. PICK j \in 1..(i - 1) : Order[j] = d  BY <2>1
    <3>2. j \in 1..Len(Order) /\ j < i  BY <1>2
    <3> QED BY <3>1, <3>2
  <2>3. ASSUME NEW d \in Uses(Order[i])
        PROVE  \E j \in 1..Len(Order) : j <= i /\ Order[j] = d
    <3>1. PICK j \in 1..i : Order[j] = d  BY <2>1
    <3>2. j \in 1..Len(Order) /\ j <= i  BY <1>2
    <3> QED BY <3>1, <3>2
  <2> QED BY <2>2, <2>3
<1> QED BY <1>1, <1>2, <1>3 DEF Places

\* The users of a contract are closed under use.
LEMMA UsersAreClosed ==
  ASSUME NEW t \in Tags
  PROVE  t \in Users(t) /\ Users(t) \subseteq Tags /\ Closed(Users(t))
BY OrderAssumption DEF Closed

LEMMA TakesAreUses ==
  \A t : Takes(t) \subseteq Uses(t)
BY DEF Uses

LEMMA UsesAreScripts ==
  ASSUME NEW t \in Tags  PROVE  Uses(t) \subseteq Tags
<1>1. PICK i \in Places : Order[i] = t  BY PlaceFacts
<1>2. ASSUME NEW d \in Uses(t)  PROVE  d \in Tags
  <2>1. PICK j \in Places : Order[j] = d  BY <1>1, PlaceFacts
  <2> QED BY <2>1, PlaceFacts
<1> QED BY <1>2

\* The keepers of what a script does in afterDeploy are used by it.
LEMMA KeepersAreUsed ==
  ASSUME NEW t, NEW i \in DOMAIN Duties(t)
  PROVE  Keeper(Duties(t)[i]) \in Uses(t)
<1>1. Duties(t)[i] \in ToSet(Duties(t))  BY DEF ToSet
<1> QED BY <1>1 DEF Uses

-----------------------------------------------------------------------------
(* What the steps leave as it is.                                          *)

\* What a contract is built from changes with an instance it takes.
LEMMA WantedFrame ==
  ASSUME NEW t \in Tags, source'[t] = source[t],
         \A d \in Takes(t) : instance'[d] = instance[d]
  PROVE  Wanted(t)' = Wanted(t)
<1>1. [d \in Takes(t) |-> instance'[d]] = [d \in Takes(t) |-> instance[d]]  OBVIOUS
<1> QED BY <1>1 DEF Wanted

\* What is to be done for an instance stays done while neither it nor the store
\* it is kept in is replaced.
LEMMA UndoneFrame ==
  ASSUME NEW t \in Tags, Undone(t) = {}, instance'[t] = instance[t],
         \A d \in Uses(t) : instance'[d] = instance[d],
         \A i \in DOMAIN Duties(t) : Entry(t, Duties(t)[i]) \in done
                                       => Entry(t, Duties(t)[i]) \in done'
  PROVE  (Undone(t) = {})'
<1>1. ASSUME NEW i \in DOMAIN Duties(t)  PROVE  Entry(t, Duties(t)[i])' \in done'
  <2>1. instance'[Keeper(Duties(t)[i])] = instance[Keeper(Duties(t)[i])]
    BY KeepersAreUsed
  <2>2. Entry(t, Duties(t)[i])' = Entry(t, Duties(t)[i])
    BY <2>1 DEF Entry
  <2>3. Entry(t, Duties(t)[i]) \in done  BY DEF Undone
  <2> QED BY <2>2, <2>3
<1> QED BY <1>1 DEF Undone

\* When neither code nor instances change, a contract stays as clean as it was.
LEMMA CleanFrame ==
  ASSUME source' = source, instance' = instance, built' = built
  PROVE  \A t : Clean(t)' = Clean(t)
BY DEF Clean, Wanted

\* And when nothing that scripts did is undone, they stay done with their work.
LEMMA EquippedFrame ==
  ASSUME instance' = instance, done \subseteq done', NEW t \in Tags, Undone(t) = {}
  PROVE  (Undone(t) = {})'
BY UndoneFrame

\* A step that deploys nothing moves the frontier at most past a settled script.
LEMMA QuietStep ==
  ASSUME Shape, NEW k \in 1..(Len(Order) + 1), NEW R \in SUBSET Tags,
         Frontier(k), Dirty(k, R), UNCHANGED <<repository, instance, built>>,
         NEW m \in 1..(Len(Order) + 1), m = k \/ (m = k + 1 /\ Settled(Order[k])),
         at' <= m, doing' = "afterDeploy" => 0 < at' /\ at' < m, completed' => m > Len(Order),
         migrated \subseteq migrated',
         \A i \in Places : i >= m /\ Recorded(Order[i])' => Recorded(Order[i])
  PROVE  Frontier(m)' /\ Dirty(m, R)'
<1>1. /\ source' = source /\ ids' = ids /\ careful' = careful /\ releases' = releases
      /\ instance' = instance /\ built' = built
  BY DEF repository
<1>2. \A t : Clean(t)' = Clean(t)  BY <1>1, CleanFrame
<1>3. \A t : Recorded(t) => Recorded(t)'  BY <1>1 DEF Recorded
<1>4. \A t : Settled(t) => Settled(t)'  BY <1>1, <1>2, <1>3 DEF Settled
<1>5. Frontier(m)'
  <2>1. \A i \in Places : i < m => Settled(Order[i])
    BY PlaceFacts DEF Frontier, Places
  <2>2. \A i \in Places : instance[Order[i]] <= IF i < m THEN 1 + releases ELSE releases
    <3>1. ASSUME NEW i \in Places
          PROVE  instance[Order[i]] <= IF i < m THEN 1 + releases ELSE releases
      <4>1. instance[Order[i]] \in Nat /\ releases \in Nat  BY PlaceFacts DEF Shape
      <4>2. instance[Order[i]] <= IF i < k THEN 1 + releases ELSE releases  BY DEF Frontier
      <4>3. i \in Nat /\ k \in Nat /\ m \in Nat /\ (m = k \/ m = k + 1)  BY PlaceFacts DEF Places
      <4> QED BY <4>1, <4>2, <4>3
    <3> QED BY <3>1
  <2> QED BY <1>1, <1>4, <2>1, <2>2 DEF Frontier
<1>6. Dirty(m, R)'
  <2>1. \A i \in Places : i >= m => i >= k  BY PlaceFacts DEF Places
  <2> QED BY <1>1, <1>2, <2>1 DEF Dirty
<1> QED BY <1>5, <1>6

LEMMA OrderIsNotEmpty == Len(Order) > 0
<1>1. "RoleStore" \in Tags  BY DEF Tags, Registry
<1> QED BY <1>1, PlaceFacts DEF Places

-----------------------------------------------------------------------------
(* The steps of a run.                                                     *)

LEMMA StartRunStep ==
  ASSUME DInv, StartRun  PROVE  DInv'
<1>1. PICK k \in 1..(Len(Order) + 1), R \in SUBSET Tags : Frontier(k) /\ Dirty(k, R)
  BY DEF DInv
<1> USE DEF StartRun, chain
<1>2. Shape'  BY OrderIsNotEmpty, PlaceFacts DEF DInv, Shape, repository
<1>3. Dutiful'
  <2>1. \A i \in Places : ~ i < 1  BY DEF Places
  <2>2. \A t \in Tags : Undone(t) = {} => (Undone(t) = {})'  BY EquippedFrame
  <2>3. \A t \in Tags : Recorded(t)' = Recorded(t)  BY DEF Recorded, repository
  <2> QED BY <2>1, <2>2, <2>3 DEF DInv, Dutiful, repository
<1>4. Frontier(k)' /\ Dirty(k, R)'
  <2>1. Shape  BY DEF DInv
  <2>2. \A i \in Places : Recorded(Order[i])' => Recorded(Order[i])
    BY DEF Recorded, repository
  <2>3. at' <= k /\ (doing' = "afterDeploy" => 0 < at' /\ at' < k)  BY PlaceFacts
  <2>4. completed' => k > Len(Order)  OBVIOUS
  <2>5. migrated \subseteq migrated' /\ UNCHANGED <<repository, instance, built>>  OBVIOUS
  <2> QED BY <1>1, <2>1, <2>2, <2>3, <2>4, <2>5, QuietStep
<1> QED BY <1>2, <1>3, <1>4 DEF DInv

LEMMA CrashStep ==
  ASSUME DInv, Crash  PROVE  DInv'
<1>1. PICK k \in 1..(Len(Order) + 1), R \in SUBSET Tags : Frontier(k) /\ Dirty(k, R)
  BY DEF DInv
<1> USE DEF Crash, chain
<1>2. Shape'  BY PlaceFacts DEF DInv, Shape, repository
<1>3. Dutiful'
  <2>1. \A t \in Tags : Undone(t) = {} => (Undone(t) = {})'  BY EquippedFrame
  <2>2. \A t \in Tags : Recorded(t)' = Recorded(t)  BY DEF Recorded, repository
  <2> QED BY <2>1, <2>2 DEF DInv, Dutiful, repository
<1>4. Frontier(k)' /\ Dirty(k, R)'
  <2>1. Shape  BY DEF DInv
  <2>2. \A i \in Places : Recorded(Order[i])' => Recorded(Order[i])
    BY DEF Recorded, repository
  <2>3. at' <= k /\ (doing' = "afterDeploy" => 0 < at' /\ at' < k)  BY PlaceFacts
  <2>4. completed' => k > Len(Order)  BY <1>1 DEF Frontier
  <2>5. migrated \subseteq migrated' /\ UNCHANGED <<repository, instance, built>>  OBVIOUS
  <2> QED BY <1>1, <2>1, <2>2, <2>3, <2>4, <2>5, QuietStep
<1> QED BY <1>2, <1>3, <1>4 DEF DInv

\* A step that only adds to what is done, perhaps ending the run, keeps the invariant.
LEMMA DutyStep ==
  ASSUME DInv, UNCHANGED <<repository, instance, built, migrated, completed>>,
         done \subseteq done', at' = at \/ at' = 0, doing' \in {"deploy", "afterDeploy"},
         doing' = "afterDeploy" => at' = at /\ doing = "afterDeploy"
  PROVE  DInv'
<1>1. PICK k \in 1..(Len(Order) + 1), R \in SUBSET Tags : Frontier(k) /\ Dirty(k, R)
  BY DEF DInv
<1>2. Shape'  BY PlaceFacts DEF DInv, Shape, repository
<1>3. Dutiful'
  <2>1. \A t \in Tags : Undone(t) = {} => (Undone(t) = {})'  BY EquippedFrame
  <2>2. \A t \in Tags : Recorded(t)' = Recorded(t)  BY DEF Recorded, repository
  <2>3. \A i \in Places : i < at' => i < at
    BY PlaceFacts DEF Places, DInv, Shape
  <2>4. at' > 0 => at > 0  BY PlaceFacts DEF DInv, Shape
  <2> QED BY <2>1, <2>2, <2>3, <2>4, PlaceFacts DEF DInv, Dutiful, repository
<1>4. Frontier(k)' /\ Dirty(k, R)'
  <2>1. Shape  BY DEF DInv
  <2>2. \A i \in Places : Recorded(Order[i])' => Recorded(Order[i])
    BY DEF Recorded, repository
  <2>3. at' <= k /\ (doing' = "afterDeploy" => 0 < at' /\ at' < k)
    BY <1>1, PlaceFacts DEF Frontier
  <2>4. completed' => k > Len(Order)  BY <1>1 DEF Frontier
  <2> QED BY <1>1, <2>1, <2>2, <2>3, <2>4, QuietStep
<1> QED BY <1>2, <1>3, <1>4 DEF DInv

LEMMA AfterDeployStep ==
  ASSUME DInv, NEW t, AfterDeploy(t)  PROVE  DInv'
<1>1. /\ UNCHANGED <<repository, instance, built, migrated, completed>>
      /\ done \subseteq done' /\ at' = at /\ doing' = doing
  BY DEF AfterDeploy
<1>2. doing \in {"deploy", "afterDeploy"}  BY DEF DInv, Shape
<1> QED BY <1>1, <1>2, DutyStep

LEMMA RefusedStep ==
  ASSUME DInv, NEW t, Refused(t)  PROVE  DInv'
<1>1. /\ UNCHANGED <<repository, instance, built, migrated, completed>>
      /\ done \subseteq done' /\ at' = 0 /\ doing' = "deploy"
  BY DEF Refused, chain
<1> QED BY <1>1, DutyStep

LEMMA GovernanceGrantsStep ==
  ASSUME DInv, NEW t, GovernanceGrants(t)  PROVE  DInv'
<1>1. /\ UNCHANGED <<repository, instance, built, migrated, completed>>
      /\ done \subseteq done' /\ at' = at /\ doing' = doing
  BY DEF GovernanceGrants
<1>2. doing \in {"deploy", "afterDeploy"}  BY DEF DInv, Shape
<1> QED BY <1>1, <1>2, DutyStep

\* A run leaves a script behind that is settled and has nothing left to do.
LEMMA NextScriptStep ==
  ASSUME DInv, NEW t \in Running, NextScript, UNCHANGED <<repository, instance, built, done>>,
         NEW k \in 1..(Len(Order) + 1), NEW R \in SUBSET Tags, Frontier(k), Dirty(k, R),
         NEW m \in 1..(Len(Order) + 1), at < m, m = k \/ (m = k + 1 /\ Settled(Order[k])),
         migrated \subseteq migrated', careful => Undone(t) = {},
         \A u : Recorded(u)' => Recorded(u) \/ u = t,
         \A u \in Tags : \A n \in Nat : n > ids[u] => <<u, n>> \notin migrated'
  PROVE  DInv'
<1>1. at \in Places /\ t = Order[at]
  BY PlaceFacts DEF Running, Places, DInv, Shape
<1>2. Shape'
  BY <1>1, PlaceFacts DEF NextScript, DInv, Shape, repository, Places
<1>3. Dutiful'
  <2>1. \A u \in Tags : Undone(u) = {} => (Undone(u) = {})'  BY EquippedFrame
  <2>2. ASSUME careful'
        PROVE  /\ \A i \in Places : i <= at => Undone(Order[i]) = {}
               /\ \A u \in Tags : Recorded(u)' => Undone(u) = {}
    <3>1. careful  BY <2>2 DEF repository
    <3>2. \A i \in Places : i <= at => i < at \/ i = at  BY <1>1, PlaceFacts DEF Places
    <3>3. at > 0  BY <1>1, PlaceFacts DEF Places
    <3> QED BY <1>1, <3>1, <3>2, <3>3 DEF DInv, Dutiful
  <2>3. \A i \in Places : i < at' => i <= at
    BY <1>1, PlaceFacts DEF NextScript, Places
  <2>4. completed' => \A u \in Tags : \E i \in Places : i <= at /\ Order[i] = u
    <3>1. completed' => at = Len(Order)  BY DEF NextScript
    <3>2. at = Len(Order) => \A i \in Places : i <= at  BY PlaceFacts DEF Places
    <3> QED BY <3>1, <3>2, PlaceFacts
  <2> QED BY <2>1, <2>2, <2>3, <2>4, PlaceFacts DEF Dutiful
<1>4. Frontier(m)' /\ Dirty(m, R)'
  <2>1. Shape  BY DEF DInv
  <2>2. \A i \in Places : i >= m /\ Recorded(Order[i])' => Recorded(Order[i])
    <3>1. ASSUME NEW i \in Places, i >= m  PROVE  Order[i] # t
      <4>1. i # at  BY <3>1, <1>1, PlaceFacts DEF Places
      <4> QED BY <4>1, <1>1, PlaceFacts
    <3> QED BY <3>1
  <2>3. at' <= m  BY <1>1, PlaceFacts DEF NextScript, Places
  <2>4. doing' = "deploy"  BY DEF NextScript
  <2>5. completed' => m > Len(Order)  BY <1>1, PlaceFacts DEF NextScript, Places
  <2> QED BY <2>1, <2>2, <2>3, <2>4, <2>5, QuietStep
<1> QED BY <1>2, <1>3, <1>4 DEF DInv

LEMMA SkipMigratedStep ==
  ASSUME DInv, NEW t \in Running, SkipMigrated(t)  PROVE  DInv'
<1>1. PICK k \in 1..(Len(Order) + 1), R \in SUBSET Tags : Frontier(k) /\ Dirty(k, R)
  BY DEF DInv
<1>2. at \in Places /\ t = Order[at] /\ t \in Tags
  BY PlaceFacts DEF Running, Places, DInv, Shape
<1>3. Recorded(t) /\ NextScript /\ UNCHANGED <<repository, instance, built, done, migrated>>
  BY DEF SkipMigrated, Recorded, chain
<1>4. \A u : Recorded(u)' => Recorded(u)  BY <1>3 DEF Recorded, repository
<1>5. careful => Undone(t) = {}  BY <1>2, <1>3 DEF DInv, Dutiful
<1>6. \A u \in Tags : \A n \in Nat : n > ids[u] => <<u, n>> \notin migrated'
  BY <1>3 DEF DInv, Shape
<1>7. CASE at < k
  BY ONLY <1>1, <1>3, <1>4, <1>5, <1>6, <1>7, DInv, t \in Running, NextScriptStep
<1>8. CASE at = k
  <2>1. Settled(Order[k])
    <3>1. k \in Places  BY <1>2, <1>8
    <3>2. ~ careful => Settled(t)  BY <1>3 DEF Settled
    <3>3. ASSUME careful  PROVE  Settled(t)
      <4>1. t \notin R
        <5>1. k >= k  BY PlaceFacts
        <5> QED BY <5>1, <3>1, <3>3, <1>1, <1>2, <1>3, <1>8 DEF Dirty
      <4> QED BY <4>1, <3>3, <1>1 DEF Dirty, Settled
    <3> QED BY <3>2, <3>3, <1>2, <1>8
  <2>2. k + 1 \in 1..(Len(Order) + 1) /\ at < k + 1  BY <1>2, <1>8, PlaceFacts DEF Places
  <2> QED BY ONLY <2>1, <2>2, <1>1, <1>3, <1>4, <1>5, <1>6, DInv, t \in Running,
             NextScriptStep
<1> QED BY <1>1, <1>2, <1>7, <1>8, PlaceFacts DEF Frontier, Places

LEMMA ConcludeStep ==
  ASSUME DInv, NEW t \in Running, Conclude(t)  PROVE  DInv'
<1>1. PICK k \in 1..(Len(Order) + 1), R \in SUBSET Tags : Frontier(k) /\ Dirty(k, R)
  BY DEF DInv
<1>2. /\ NextScript /\ UNCHANGED <<repository, instance, built, done>> /\ Undone(t) = {}
      /\ migrated' \in {migrated, migrated \cup {<<t, ids[t]>>}}
  BY DEF Conclude
<1>3. \A u : Recorded(u)' => Recorded(u) \/ u = t
  BY <1>2 DEF Recorded, repository
<1>4. \A u \in Tags : \A n \in Nat : n > ids[u] => <<u, n>> \notin migrated'
  <2>1. ASSUME NEW u \in Tags, NEW n \in Nat, n > ids[u]  PROVE  <<u, n>> \notin migrated'
    <3>1. <<u, n>> \notin migrated  BY <2>1 DEF DInv, Shape
    <3>2. ids[u] \in Nat  BY DEF DInv, Shape
    <3>3. <<u, n>> # <<t, ids[t]>>  BY <2>1, <3>2
    <3> QED BY <3>1, <3>3, <1>2
  <2> QED BY <2>1
<1>5. at < k /\ migrated \subseteq migrated'  BY <1>1, <1>2 DEF Conclude, Frontier
<1> QED BY ONLY <1>1, <1>2, <1>3, <1>4, <1>5, DInv, t \in Running, NextScriptStep

\* A new instance: only what takes or uses the contract can become stale by it,
\* and that is neither behind the frontier nor outside the set R.
LEMMA NewInstanceStep ==
  ASSUME DInv, at \in Places, NEW t, t = Order[at], t \in Contracts, ~ Clean(t), ~ Recorded(t),
         Deploy(t), UNCHANGED <<repository, migrated, at, completed, crashes>>,
         doing' = "afterDeploy",
         NEW k \in 1..(Len(Order) + 1), NEW R \in SUBSET Tags, Frontier(k), Dirty(k, R)
  PROVE  DInv'
<1>1. /\ source' = source /\ ids' = ids /\ careful' = careful /\ releases' = releases
      /\ t \in Tags /\ done \subseteq done'
  BY DEF repository, Contracts, Deploy
<1>2. /\ instance \in [Tags -> Nat] /\ built = [u \in Tags |-> built[u]]
      /\ releases \in Nat /\ at \in Nat /\ k \in Nat /\ Len(Order) \in Nat /\ at <= Len(Order)
  BY PlaceFacts DEF DInv, Shape, Places
<1>3. /\ instance' \in [Tags -> Nat] /\ built' = [u \in Tags |-> built'[u]]
      /\ instance'[t] = instance[t] + 1 /\ built'[t] = Wanted(t)
      /\ \A u \in Tags \ {t} : instance'[u] = instance[u] /\ built'[u] = built[u]
  <2>1. instance' = [instance EXCEPT ![t] = @ + 1]  BY DEF Deploy
  <2>2. built' = [built EXCEPT ![t] = Wanted(t)]  BY DEF Deploy
  <2>3. built' = [u \in Tags |-> IF u = t THEN Wanted(t) ELSE built[u]]
    BY <2>2, <1>2
  <2>4. /\ built' = [u \in Tags |-> built'[u]] /\ built'[t] = Wanted(t)
        /\ \A u \in Tags \ {t} : built'[u] = built[u]
    BY <2>3, <1>1
  <2>5. /\ instance' \in [Tags -> Nat] /\ instance'[t] = instance[t] + 1
        /\ \A u \in Tags \ {t} : instance'[u] = instance[u]
    BY <2>1, <1>1, <1>2
  <2> QED BY <2>4, <2>5
<1>4. at = k
  <2>1. ~ Settled(t)  BY DEF Settled
  <2> QED BY <2>1, <1>2 DEF Frontier
<1>5. ASSUME NEW u \in Tags, u # t, t \notin Takes(u), Clean(u)  PROVE  Clean(u)'
  <2>1. Takes(u) \subseteq Tags  BY UsesAreScripts, TakesAreUses
  <2>2. Wanted(u)' = Wanted(u)  BY <1>1, <1>3, <1>5, <2>1, WantedFrame
  <2> QED BY <1>3, <1>5, <2>2 DEF Clean
<1>6. Clean(t)'
  <2>1. t \notin Takes(t) /\ Takes(t) \subseteq Tags
    <3>1. \A d \in Takes(t) : \E j \in Places : j < at /\ Order[j] = d  BY PlaceFacts
    <3>2. \A j \in Places : j < at => Order[j] # t  BY <1>2, PlaceFacts DEF Places
    <3> QED BY <3>1, <3>2, PlaceFacts
  <2>2. Wanted(t)' = Wanted(t)  BY <1>1, <1>3, <2>1, WantedFrame
  <2>3. instance[t] + 1 > 0  BY <1>1, <1>2
  <2> QED BY <1>3, <2>2, <2>3 DEF Clean
<1>7. \A i \in Places : i < at => Order[i] # t /\ t \notin Uses(Order[i])
  <2>1. ASSUME NEW i \in Places, i < at  PROVE  Order[i] # t /\ t \notin Uses(Order[i])
    <3>1. \A j \in Places : j <= i => Order[j] # t
      BY <1>2, <2>1, PlaceFacts DEF Places
    <3>2. i <= i  BY DEF Places
    <3> QED BY <3>1, <3>2, PlaceFacts
  <2> QED BY <2>1
<1>8. careful => \A u \in Tags \ R : u # t /\ t \notin Uses(u)
  BY <1>1 DEF Dirty, Closed
<1>9. Shape'
  BY <1>1, <1>2, <1>3 DEF DInv, Shape
<1>10. Frontier(k + 1)'
  <2>1. \A i \in Places : i < k + 1 => Settled(Order[i])'
    <3>1. ASSUME NEW i \in Places, i < k  PROVE  Settled(Order[i])'
      <4>1. Settled(Order[i]) /\ Order[i] \in Tags  BY <3>1, PlaceFacts DEF Frontier
      <4>2. Order[i] # t /\ t \notin Takes(Order[i])  BY <3>1, <1>4, <1>7, TakesAreUses
      <4>3. Clean(Order[i]) => Clean(Order[i])'  BY <4>1, <4>2, <1>5
      <4>4. Recorded(Order[i])' = Recorded(Order[i])  BY <1>1 DEF Recorded
      <4> QED BY <4>1, <4>3, <4>4, <1>1 DEF Settled
    <3>2. Settled(Order[k])'  BY <1>4, <1>6 DEF Settled
    <3>3. \A i \in Places : i < k + 1 => i < k \/ i = k  BY <1>2 DEF Places
    <3> QED BY <3>1, <3>2, <3>3
  <2>2. ASSUME NEW i \in Places
        PROVE  instance'[Order[i]] <= IF i < k + 1 THEN 1 + releases ELSE releases
    <3>1. /\ instance[Order[i]] <= IF i < k THEN 1 + releases ELSE releases
          /\ Order[i] \in Tags /\ instance[Order[i]] \in Nat
      BY <1>2, PlaceFacts DEF Frontier
    <3>2. i \in Nat  BY DEF Places
    <3>3. CASE i = at
      <4>1. instance'[Order[i]] = instance[Order[i]] + 1  BY <3>3, <1>3
      <4> QED BY <3>1, <3>3, <4>1, <1>2, <1>4
    <3>4. CASE i # at
      <4>1. instance'[Order[i]] = instance[Order[i]]  BY <3>1, <3>4, <1>3, PlaceFacts
      <4> QED BY <3>1, <3>2, <3>4, <4>1, <1>2, <1>4
    <3> QED BY <3>3, <3>4
  <2>3. at' <= k + 1 /\ 0 < at' /\ at' < k + 1  BY <1>2, <1>4 DEF Places
  <2>4. ~ completed
    BY <1>2, <1>4 DEF Frontier
  <2> QED BY <1>1, <2>1, <2>2, <2>3, <2>4 DEF Frontier
<1>11. Dirty(k + 1, R)'
  <2>1. ASSUME careful  PROVE  \A u \in Contracts \ R : Clean(u)'
    <3>1. Contracts \subseteq Tags  BY DEF Contracts
    <3>2. \A u \in Contracts \ R : Clean(u) /\ u # t /\ t \notin Takes(u)
      BY <2>1, <3>1, <1>8, TakesAreUses DEF Dirty
    <3> QED BY <3>1, <3>2, <1>5
  <2>2. \A u : Recorded(u)' = Recorded(u)  BY <1>1 DEF Recorded
  <2>3. \A i \in Places : i >= k + 1 => i >= k  BY <1>2 DEF Places
  <2> QED BY <1>1, <2>1, <2>2, <2>3 DEF Dirty
<1>12. Dutiful'
  <2>1. ASSUME NEW u \in Tags, u # t, t \notin Uses(u), Undone(u) = {}
        PROVE  (Undone(u) = {})'
    <3>1. Uses(u) \subseteq Tags  BY UsesAreScripts
    <3> QED BY <2>1, <3>1, <1>1, <1>3, UndoneFrame
  <2>2. ASSUME careful  PROVE  \A i \in Places : i < at => (Undone(Order[i]) = {})'
    <3>1. at > 0  BY <1>2 DEF Places
    <3> QED BY <2>1, <2>2, <3>1, <1>7, PlaceFacts DEF DInv, Dutiful
  <2>3. ASSUME careful, NEW u \in Tags, Recorded(u)  PROVE  (Undone(u) = {})'
    <3>1. Undone(u) = {}  BY <2>3 DEF DInv, Dutiful
    <3>2. PICK i \in Places : Order[i] = u  BY PlaceFacts
    <3>3. u \notin R \/ i < at
      <4>1. i >= k \/ i < at  BY <1>2, <1>4 DEF Places
      <4> QED BY <2>3, <3>2, <4>1 DEF Dirty
    <3>4. u # t /\ t \notin Uses(u)  BY <2>3, <3>2, <3>3, <1>7, <1>8
    <3> QED BY <2>1, <3>1, <3>4
  <2>4. ~ completed
    BY <1>2, <1>4 DEF Frontier
  <2>5. \A u : Recorded(u)' = Recorded(u)  BY <1>1 DEF Recorded
  <2> QED BY <1>1, <2>2, <2>3, <2>4, <2>5 DEF Dutiful
<1> QED
  <2>1. k + 1 \in 1..(Len(Order) + 1)  BY <1>2, <1>4 DEF Places
  <2> QED BY <1>9, <1>10, <1>11, <1>12, <2>1 DEF DInv

LEMMA DeployContractStep ==
  ASSUME DInv, NEW t \in Running, DeployContract(t)  PROVE  DInv'
<1>1. PICK k \in 1..(Len(Order) + 1), R \in SUBSET Tags : Frontier(k) /\ Dirty(k, R)
  BY DEF DInv
<1>2. at \in Places /\ t = Order[at] /\ t \in Tags
  BY PlaceFacts DEF Running, Places, DInv, Shape
<1>3. ~ Recorded(t)  BY DEF DeployContract, Recorded
<1>4. UNCHANGED <<repository, migrated, at, completed, crashes>> /\ doing' = "afterDeploy"
  BY DEF DeployContract
<1>5. CASE t \in Contracts /\ ~ Clean(t)
  <2>1. Deploy(t)  BY <1>5 DEF DeployContract, Clean
  <2> QED BY <2>1, <1>1, <1>2, <1>3, <1>4, <1>5, NewInstanceStep
<1>6. CASE t \notin Contracts \/ Clean(t)
  <2>1. UNCHANGED <<instance, built, done>>  BY <1>6 DEF DeployContract, Clean
  <2>2. Settled(t)  BY <1>6 DEF Settled
  <2>3. PICK m \in 1..(Len(Order) + 1) :
          at < m /\ (m = k \/ (m = k + 1 /\ Settled(Order[k])))
    <3>1. CASE at < k  BY <3>1
    <3>2. CASE at = k
      <4>1. k + 1 \in 1..(Len(Order) + 1) /\ at < k + 1  BY <1>2, <3>2, PlaceFacts DEF Places
      <4> QED BY <4>1, <3>2, <2>2, <1>2
    <3> QED BY <3>1, <3>2, <1>1, <1>2, PlaceFacts DEF Frontier, Places
  <2>4. Shape'  BY <1>4, <2>1 DEF DInv, Shape, repository
  <2>5. Dutiful'
    <3>1. \A u \in Tags : Undone(u) = {} => (Undone(u) = {})'  BY <2>1, EquippedFrame
    <3>2. \A u \in Tags : Recorded(u)' = Recorded(u)  BY <1>4 DEF Recorded, repository
    <3> QED BY <3>1, <3>2, <1>4, PlaceFacts DEF DInv, Dutiful, repository
  <2>6. Frontier(m)' /\ Dirty(m, R)'
    <3>1. Shape  BY DEF DInv
    <3>2. \A i \in Places : i >= m /\ Recorded(Order[i])' => Recorded(Order[i])
      BY <1>4 DEF Recorded, repository
    <3>3. at' <= m /\ 0 < at' /\ at' < m  BY <1>2, <1>4, <2>3, PlaceFacts DEF Places
    <3>4. completed' => m > Len(Order)
      BY <1>1, <1>4, <2>3, PlaceFacts DEF Frontier
    <3>5. migrated \subseteq migrated' /\ UNCHANGED <<repository, instance, built>>
      BY <1>4, <2>1
    <3> QED BY <1>1, <2>3, <3>1, <3>2, <3>3, <3>4, <3>5, QuietStep
  <2> QED BY <2>4, <2>5, <2>6 DEF DInv
<1> QED BY <1>5, <1>6

LEMMA RunScriptStep ==
  ASSUME DInv, NEW t \in Running, RunScript(t)  PROVE  DInv'
BY SkipMigratedStep, DeployContractStep, AfterDeployStep, RefusedStep, ConcludeStep
   DEF RunScript

-----------------------------------------------------------------------------
(* The steps around the runs.                                              *)

\* The role that is handed over is none that a script grants.
LEMMA HandOverStep ==
  ASSUME DInv, HandOver  PROVE  DInv'
<1>1. PICK k \in 1..(Len(Order) + 1), R \in SUBSET Tags : Frontier(k) /\ Dirty(k, R)
  BY DEF DInv
<1>2. /\ UNCHANGED <<repository, instance, built, migrated, at, doing, completed, crashes>>
      /\ done' = done \ {RoleEntry(instance["RoleStore"], Deployer, "ROLE_ADMIN")}
  BY DEF HandOver
<1>3. ASSUME NEW t \in Tags, NEW i \in DOMAIN Duties(t)
      PROVE  Entry(t, Duties(t)[i]) # RoleEntry(instance["RoleStore"], Deployer, "ROLE_ADMIN")
  <2>1. Duties(t)[i].to = "deployer" => Duties(t)[i].name # "ROLE_ADMIN"
    BY DeployerAssumption
  <2>2. t # "deployer"  BY DeployerAssumption
  <2>3. SUFFICES ASSUME Entry(t, Duties(t)[i]).name = "ROLE_ADMIN"
                 PROVE  Entry(t, Duties(t)[i]).for # Deployer
    BY DEF RoleEntry
  <2>4. Duties(t)[i].to # "deployer"  BY <2>1, <2>3 DEF Entry
  <2>5. Entry(t, Duties(t)[i]).for \in {<<"all", 0>>, <<t, instance[t]>>, <<Duties(t)[i].to, 0>>}
    BY DEF Entry
  <2> QED BY <2>2, <2>4, <2>5 DEF Deployer
<1>4. \A t \in Tags : Undone(t) = {} => (Undone(t) = {})'
  <2>1. ASSUME NEW t \in Tags, Undone(t) = {}  PROVE  (Undone(t) = {})'
    <3>1. \A i \in DOMAIN Duties(t) : Entry(t, Duties(t)[i]) \in done
                                        => Entry(t, Duties(t)[i]) \in done'
      BY <1>2, <1>3
    <3> QED BY <2>1, <3>1, <1>2, UndoneFrame
  <2> QED BY <2>1
<1>5. \A t : Recorded(t)' = Recorded(t)  BY <1>2 DEF Recorded, repository
<1>6. Shape'  BY <1>2 DEF DInv, Shape, repository
<1>7. Dutiful'  BY <1>2, <1>4, <1>5, PlaceFacts DEF DInv, Dutiful, repository
<1>8. Frontier(k)' /\ Dirty(k, R)'
  <2>1. Shape  BY DEF DInv
  <2>2. \A i \in Places : Recorded(Order[i])' => Recorded(Order[i])  BY <1>5
  <2>3. /\ at' <= k /\ (doing' = "afterDeploy" => 0 < at' /\ at' < k)
        /\ completed' => k > Len(Order)
    BY <1>1, <1>2 DEF Frontier
  <2> QED BY <1>1, <1>2, <2>1, <2>2, <2>3, QuietStep
<1> QED BY <1>6, <1>7, <1>8 DEF DInv

\* What a release makes stale is among the users of what it changes.
LEMMA ReleaseStep ==
  ASSUME DInv, NEW t \in Tags, Release(t)  PROVE  DInv'
<1>1. PICK k \in 1..(Len(Order) + 1), R \in SUBSET Tags : Frontier(k) /\ Dirty(k, R)
  BY DEF DInv
<1>2. PICK bumped \in {Reached(t), {t} \cap PinnedTags} :
        /\ ids' = [u \in Tags |-> IF u \in bumped THEN ids[u] + 1 ELSE ids[u]]
        /\ careful' = (careful /\ bumped = Reached(t))
  BY DEF Release
<1>3. /\ at = 0 /\ completed /\ releases' = releases + 1 /\ completed' = FALSE
      /\ source' = [source EXCEPT ![t] = @ + 1]
      /\ instance' = instance /\ built' = built /\ migrated' = migrated /\ done' = done
      /\ at' = at /\ doing' = doing
  BY DEF Release, chain
<1>4. /\ source \in [Tags -> Nat] /\ ids \in [Tags -> Nat] /\ instance \in [Tags -> Nat]
      /\ releases \in Nat /\ careful \in BOOLEAN /\ Len(Order) \in Nat
  BY PlaceFacts DEF DInv, Shape
<1>5. k = Len(Order) + 1 /\ \A i \in Places : i < k
  BY <1>1, <1>3, PlaceFacts DEF Frontier, Places
<1>6. careful' => careful /\ bumped = Reached(t)  BY <1>2
<1>7. /\ ids' \in [Tags -> Nat] /\ \A u \in Tags : ids'[u] >= ids[u]
      /\ \A u \in bumped \cap Tags : ids'[u] = ids[u] + 1
  BY <1>2, <1>4
<1>8. Shape'
  <2>1. ASSUME NEW u \in Tags, NEW n \in Nat, n > ids'[u]  PROVE  <<u, n>> \notin migrated
    <3>1. n > ids[u]  BY <2>1, <1>4, <1>7
    <3> QED BY <3>1 DEF DInv, Shape
  <2>2. source' \in [Tags -> Nat]  BY <1>3, <1>4
  <2>3. careful' \in BOOLEAN  BY <1>2
  <2>4. releases' \in Nat  BY <1>3, <1>4
  <2> QED BY <2>1, <2>2, <2>3, <2>4, <1>3, <1>7 DEF DInv, Shape
<1>9. Dutiful'
  <2>1. ASSUME careful'  PROVE  \A u \in Tags : (Undone(u) = {})'
    <3>1. \A u \in Tags : Undone(u) = {}  BY <2>1, <1>3, <1>6 DEF DInv, Dutiful
    <3> QED BY <3>1, <1>3, EquippedFrame
  <2> QED BY <2>1, PlaceFacts DEF Dutiful
<1>10. Frontier(1)'
  <2>1. \A i \in Places : ~ i < 1  BY DEF Places
  <2>2. \A i \in Places : instance[Order[i]] <= 1 + releases
    BY <1>1, <1>5 DEF Frontier
  <2>3. 1 + releases = releases'  BY <1>3, <1>4
  <2>4. at' <= 1 /\ doing # "afterDeploy"  BY <1>1, <1>3 DEF Frontier
  <2> QED BY <1>3, <2>1, <2>2, <2>3, <2>4 DEF Frontier
<1>11. Dirty(1, Users(t))'
  <2>1. SUFFICES ASSUME careful'
                 PROVE  /\ \A u \in Contracts \ Users(t) : Clean(u)'
                        /\ \A i \in Places : Order[i] \in Users(t) => ~ Recorded(Order[i])'
    BY UsersAreClosed DEF Dirty, Closed
  <2>2. ASSUME NEW u \in Contracts \ Users(t)  PROVE  Clean(u)'
    <3>1. u \in Tags /\ u # t  BY UsersAreClosed DEF Contracts
    <3>2. Clean(u)
      <4>1. PICK i \in Places : Order[i] = u  BY <3>1, PlaceFacts
      <4>2. Settled(u)  BY <4>1, <1>1, <1>5 DEF Frontier
      <4> QED BY <4>2, <2>1, <1>6 DEF Settled
    <3>3. source'[u] = source[u]  BY <3>1, <1>3, <1>4
    <3>4. Wanted(u)' = Wanted(u)  BY <3>1, <3>3, <1>3, WantedFrame
    <3> QED BY <3>2, <3>4, <1>3 DEF Clean
  <2>3. ASSUME NEW i \in Places, Order[i] \in Users(t)  PROVE  ~ Recorded(Order[i])'
    <3>1. CASE Order[i] \notin PinnedTags  BY <3>1 DEF Recorded
    <3>2. CASE Order[i] \in PinnedTags
      <4>1. Order[i] \in bumped \cap Tags
        BY <2>1, <2>3, <3>2, <1>6, PlaceFacts DEF Reached
      <4>2. ids'[Order[i]] \in Nat /\ ids'[Order[i]] > ids[Order[i]]
        BY <4>1, <1>4, <1>7
      <4>3. <<Order[i], ids'[Order[i]]>> \notin migrated
        BY <4>1, <4>2 DEF DInv, Shape
      <4> QED BY <4>3, <1>3 DEF Recorded
    <3> QED BY <3>1, <3>2
  <2> QED BY <2>2, <2>3
<1> QED
  <2>1. 1 \in 1..(Len(Order) + 1)  BY <1>4
  <2>2. Users(t) \in SUBSET Tags  BY UsersAreClosed
  <2> QED BY <1>8, <1>10, <1>11, <1>9, <2>1, <2>2 DEF DInv

-----------------------------------------------------------------------------
(* The invariant and what follows from it.                                 *)

LEMMA NextStep ==
  ASSUME DInv, [Next]_vars  PROVE  DInv'
<1>1. CASE StartRun  BY <1>1, StartRunStep
<1>2. CASE Crash  BY <1>2, CrashStep
<1>3. CASE HandOver  BY <1>3, HandOverStep
<1>4. CASE \E t \in Running : RunScript(t)  BY <1>4, RunScriptStep
<1>5. CASE \E t \in Contracts : GovernanceGrants(t)  BY <1>5, GovernanceGrantsStep
<1>6. CASE \E t \in Released : Release(t)
  BY <1>6, ReleaseStep, DeploymentAssumption
<1>7. CASE UNCHANGED vars
  <2>1. /\ UNCHANGED <<repository, instance, built, migrated, completed>>
        /\ done \subseteq done' /\ at' = at /\ doing' = doing
    BY <1>7 DEF vars, chain
  <2>2. doing \in {"deploy", "afterDeploy"}  BY DEF DInv, Shape
  <2> QED BY <2>1, <2>2, DutyStep
<1> QED BY <1>1, <1>2, <1>3, <1>4, <1>5, <1>6, <1>7 DEF Next

\* Before the first run everything has to be deployed.
LEMMA InitStep ==
  Init => DInv
<1> SUFFICES ASSUME Init  PROVE  DInv
  OBVIOUS
<1> USE DEF Init
<1>1. Shape
  <2>1. /\ source \in [Tags -> Nat] /\ ids \in [Tags -> Nat] /\ instance \in [Tags -> Nat]
        /\ at \in 0..Len(Order)
    BY PlaceFacts
  <2>2. built = [t \in Tags |-> built[t]]  OBVIOUS
  <2> QED BY <2>1, <2>2 DEF Shape
<1>2. Dutiful  BY PlaceFacts DEF Dutiful, Recorded
<1>3. Frontier(1)
  <2>1. \A i \in Places : ~ i < 1  BY DEF Places
  <2>2. \A i \in Places : instance[Order[i]] = 0  BY PlaceFacts
  <2> QED BY <2>1, <2>2 DEF Frontier
<1>4. Dirty(1, Tags)
  <2>1. Contracts \subseteq Tags  BY DEF Contracts
  <2> QED BY <2>1 DEF Dirty, Closed, Recorded
<1>5. 1 \in 1..(Len(Order) + 1)  BY PlaceFacts
<1> QED BY <1>1, <1>2, <1>3, <1>4, <1>5 DEF DInv

\* How far the runs have come since the last release, and what can still have to
\* be deployed, is an invariant of the deployment.
THEOREM DeploymentInvariance == Spec => []DInv
BY InitStep, NextStep, PTL DEF Spec

\* Runs that are cut off, refused and started again, whatever is released and
\* however often, deploy a contract at most once per release (utils/deploy.ts).
THEOREM NothingIsDeployedTwice == Spec => []NoDuplicates
<1>1. ASSUME DInv  PROVE  NoDuplicates
  <2>1. PICK k \in 1..(Len(Order) + 1) : Frontier(k)  BY <1>1 DEF DInv
  <2>2. ASSUME NEW t \in Contracts  PROVE  instance[t] <= 1 + releases
    <3>1. PICK i \in Places : Order[i] = t  BY PlaceFacts DEF Contracts
    <3>2. instance[t] \in Nat /\ releases \in Nat  BY <1>1 DEF DInv, Shape, Contracts
    <3>3. instance[t] <= IF i < k THEN 1 + releases ELSE releases
      BY <2>1, <3>1 DEF Frontier
    <3> QED BY <3>2, <3>3
  <2> QED BY <2>2 DEF NoDuplicates
<1> QED BY <1>1, DeploymentInvariance, PTL

\* A run that reached the end leaves a contract that is wired to old code or to
\* old instances only behind a pin, and only if a release did not bump the id of
\* a script its change reaches (the ids of utils/deploy.ts).
THEOREM NothingStaleButBehindPins == Spec => []StaleOnlyBehindPins
<1>1. ASSUME DInv  PROVE  StaleOnlyBehindPins
  <2>1. PICK k \in 1..(Len(Order) + 1) : Frontier(k)  BY <1>1 DEF DInv
  <2>2. ASSUME completed, NEW t \in Contracts, built[t] # Wanted(t)
        PROVE  t \in PinnedTags /\ ~ careful
    <3>1. PICK i \in Places : Order[i] = t  BY PlaceFacts DEF Contracts
    <3>2. i < k  BY <2>1, <2>2, PlaceFacts DEF Frontier, Places
    <3>3. Settled(t) /\ ~ Clean(t)  BY <2>1, <2>2, <3>1, <3>2 DEF Frontier, Clean
    <3> QED BY <3>3 DEF Settled, Recorded
  <2> QED BY <2>2 DEF StaleOnlyBehindPins
<1> QED BY <1>1, DeploymentInvariance, PTL

\* A run that reached the end leaves every instance in use with its roles, its
\* settings and its tiers, wherever the runs before it were cut off, as long
\* as the releases bumped the ids they had to.
THEOREM EveryInstanceIsEquipped == Spec => []Equipped
<1>1. DInv => Equipped  BY DEF DInv, Dutiful, Equipped
<1> QED BY <1>1, DeploymentInvariance, PTL
===============================================================================
