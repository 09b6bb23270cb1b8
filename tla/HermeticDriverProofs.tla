------------------------ MODULE HermeticDriverProofs ------------------------
(***************************************************************************)
(* What HermeticDriver promises for any number of runs, at the same time   *)
(* or not, and any keys, network and simulation files and TTLs.            *)
(***************************************************************************)
EXTENDS HermeticDriver, TLAPS

-----------------------------------------------------------------------------
(* Verdicts.                                                               *)

VerdictTypes ==
  /\ flavor \in Flavors
  /\ pc \in [Drivers -> Requests \cup {"idle", "ended"}]
  /\ verdict \in [Drivers -> {"none", "Pass", "Fail", "Error", "Crash"}]
  /\ jobs \in [Drivers -> JobStates]
  /\ result \in [Drivers -> {"none", "passed", "failed"}]
  /\ owners \subseteq Drivers

\* Before it creates its job or simulation a run has none, and no verdict.
NothingYet ==
  \A d \in Drivers :
    /\ pc[d] \in Setup \cup {"idle"} => jobs[d] = "none" /\ d \notin owners /\ result[d] = "none"
    /\ pc[d] # "ended" => verdict[d] = "none"

\* A job that shows a result had it, and one that does not show it yet has none.
JobsAreTrue ==
  \A d \in Drivers : /\ jobs[d] \in {"pending", "running"} => result[d] = "none"
                     /\ jobs[d] \in {"passed", "failed"} => result[d] = jobs[d]

\* There is either a job or a simulation, by flavor.
ByFlavor ==
  /\ flavor = "perf" => \A d \in Drivers : jobs[d] = "none"
  /\ flavor # "perf" => /\ owners = {} /\ manager = NoManager
                        /\ \A d \in Drivers : pc[d] # "waitSimulation"

\* What a waiting run may find: its own Simulation, unless a TTL took it, and
\* only others that it may mistake for its own.
Waits ==
  /\ Sequential => \A d, e \in Drivers : Active(d) /\ Active(e) => d = e
  /\ \A d \in Drivers : pc[d] = "waitSimulation" =>
       d \in owners \cup disturbed /\ owners \subseteq {d} \cup Mistakable(d)

\* The manager shows the result of a simulation there is.
ManagerIsTrue ==
  \/ manager = NoManager /\ \A d \in owners : result[d] = "none"
  \/ \E d \in owners :
       \/ manager = [owner |-> d, phase |-> "Running"] /\ result[d] = "none"
       \/ manager = [owner |-> d, phase |-> "Succeeded"] /\ result[d] = "passed"
       \/ manager = [owner |-> d, phase |-> "Failed"] /\ result[d] = "failed"

VerdictInv == /\ VerdictTypes /\ NothingYet /\ JobsAreTrue /\ ByFlavor /\ Waits /\ ManagerIsTrue
              /\ OwnVerdict

LEMMA InitVerdicts == Init => VerdictInv
BY HermeticDriverAssumption
   DEF Init, VerdictInv, VerdictTypes, NothingYet, JobsAreTrue, ByFlavor, Waits, ManagerIsTrue,
       OwnVerdict, Active, Requests, Setup, Resources, Namespaced, ClusterScoped, JobStates

\* What a run has reported stays true: results that are known do not change, and
\* runs that were disturbed stay so.
LEMMA ReportsStay ==
  ASSUME VerdictTypes, OwnVerdict, UNCHANGED <<inputVars, verdict>>, disturbed \subseteq disturbed',
         \A d \in Drivers : result[d] # "none" => result'[d] = result[d]
  PROVE  OwnVerdict'
<1>1. \A d \in Drivers : Mistakable(d) \subseteq Mistakable(d)'
  BY DEF Mistakable, inputVars
<1>2. \A d \in Drivers, how \in {"passed", "failed"} : Reports(d, how) => Reports(d, how)'
  BY <1>1 DEF Reports, Mistakable, VerdictTypes, inputVars
<1> QED
  BY <1>2 DEF OwnVerdict

\* A run that reports nothing new.
LEMMA ReportsSame ==
  ASSUME VerdictTypes, OwnVerdict, UNCHANGED <<inputVars, disturbed, result>>, NEW d \in Drivers,
         \A e \in Drivers \ {d} : verdict'[e] = verdict[e],
         verdict'[d] = "Pass" => Reports(d, "passed"), verdict'[d] = "Fail" => Reports(d, "failed")
  PROVE  OwnVerdict'
<1>1. \A e \in Drivers : Mistakable(e)' = Mistakable(e)
  BY DEF Mistakable, inputVars
<1>2. \A e \in Drivers, how \in {"passed", "failed"} : Reports(e, how)' = Reports(e, how)
  BY <1>1 DEF Reports, inputVars
<1> QED
  BY <1>2 DEF OwnVerdict

\* The steps of a run up to the creation of its job or simulation.
LEMMA SetUpVerdicts ==
  ASSUME VerdictInv, NEW d \in Drivers, NEW request \in Setup,
         pc[d] \in Setup \cup {"idle"},
         pc[d] = "idle" /\ Sequential => \A e \in Drivers : ~Active(e),
         GoTo(d, request), UNCHANGED <<inputVars, jobs, result, owners, manager, disturbed>>
  PROVE  VerdictInv'
<1> USE DEF VerdictInv, GoTo, inputVars
<1>1. VerdictTypes' /\ NothingYet'
  BY DEF VerdictTypes, NothingYet, Requests, Setup, Resources, Namespaced, ClusterScoped
<1>2. request # "waitSimulation"
  BY DEF Setup, Resources, Namespaced, ClusterScoped
<1>3. JobsAreTrue' /\ ByFlavor' /\ ManagerIsTrue'
  BY <1>2 DEF VerdictTypes, JobsAreTrue, ByFlavor, ManagerIsTrue
<1>4. OwnVerdict'
  BY ReportsStay
<1>5. Waits'
  BY <1>2 DEF VerdictTypes, Waits, Mistakable, Active, Requests
<1> QED
  BY <1>1, <1>3, <1>4, <1>5

\* A run that ends with a verdict that is right.
LEMMA EndVerdicts ==
  ASSUME VerdictInv, NEW d \in Drivers, NEW how \in {"Pass", "Fail", "Error", "Crash"},
         End(d, how), UNCHANGED <<inputVars, jobs, result, owners, manager, disturbed>>,
         how = "Pass" => Reports(d, "passed"), how = "Fail" => Reports(d, "failed")
  PROVE  VerdictInv'
<1> USE DEF VerdictInv, End, inputVars
<1>1. VerdictTypes' /\ NothingYet'
  BY DEF VerdictTypes, NothingYet, Setup, Resources, Namespaced, ClusterScoped
<1>2. JobsAreTrue' /\ ByFlavor' /\ ManagerIsTrue'
  BY DEF VerdictTypes, JobsAreTrue, ByFlavor, ManagerIsTrue
<1>3. OwnVerdict'
  BY ReportsSame DEF VerdictTypes
<1>4. Waits'
  BY DEF VerdictTypes, Waits, Mistakable, Active, Requests, Setup, Resources, Namespaced, ClusterScoped
<1> QED
  BY <1>1, <1>2, <1>3, <1>4

\* A run with a job goes on, or reports what its job shows or has last shown.
LEMMA JobVerdicts ==
  ASSUME VerdictInv, NEW d \in Drivers,
         CreateJob(d) \/ Sleep(d) \/ ApplyMigration(d) \/ WaitForJob(d)
  PROVE  VerdictInv'
<1>1. CASE CreateJob(d) \/ Sleep(d) \/ ApplyMigration(d)
  <2> USE DEF VerdictInv, CreateJob, Sleep, ApplyMigration, GoTo, jobVars, simVars, inputVars, cleanupVars
  <2>1. VerdictTypes' /\ NothingYet'
    BY <1>1 DEF VerdictTypes, NothingYet, Requests, Setup, Resources, Namespaced, ClusterScoped, JobStates
  <2>2. JobsAreTrue' /\ ByFlavor' /\ ManagerIsTrue'
    BY <1>1 DEF VerdictTypes, NothingYet, JobsAreTrue, ByFlavor, ManagerIsTrue, Setup
  <2>3. OwnVerdict'
    BY <1>1, ReportsStay
  <2>4. Waits'
    BY <1>1 DEF VerdictTypes, Waits, Mistakable, Active, Requests, Setup
  <2> QED
    BY <2>1, <2>2, <2>3, <2>4
<1>2. CASE WaitForJob(d)
  <2>1. PICK how \in {"Pass", "Fail"} :
          /\ End(d, how)
          /\ how = "Pass" => Reports(d, "passed")
          /\ how = "Fail" => Reports(d, "failed")
    BY <1>2 DEF WaitForJob, Shows, Reports, VerdictInv, JobsAreTrue
  <2>2. UNCHANGED <<inputVars, jobs, result, owners, manager, disturbed>>
    BY <1>2 DEF WaitForJob, jobVars, simVars, cleanupVars
  <2> QED
    BY <2>1, <2>2, EndVerdicts
<1> QED
  BY <1>1, <1>2

LEMMA CreateSimulationVerdicts ==
  ASSUME VerdictInv, NEW d \in Drivers, CreateSimulation(d)
  PROVE  VerdictInv'
<1> USE DEF VerdictInv, CreateSimulation, GoTo, jobVars, inputVars, cleanupVars
<1>1. result[d] = "none" /\ d \notin owners
  BY DEF NothingYet, Setup
<1>2. VerdictTypes' /\ NothingYet'
  BY DEF VerdictTypes, NothingYet, Requests, Setup, Resources, Namespaced, ClusterScoped
<1>3. JobsAreTrue' /\ ByFlavor' /\ ManagerIsTrue'
  BY <1>1 DEF VerdictTypes, JobsAreTrue, ByFlavor, ManagerIsTrue
<1>4. OwnVerdict'
  BY ReportsStay
<1>5. ASSUME NEW e \in Drivers, pc'[e] = "waitSimulation"
      PROVE  e \in owners' \cup disturbed' /\ owners' \subseteq {e} \cup Mistakable(e)'
  <2>1. Mistakable(e)' = Mistakable(e)
    BY DEF Mistakable
  <2>2. CASE e = d
    BY <2>1, <2>2 DEF NameTaken, Mistakable, VerdictTypes
  <2>3. CASE e # d
    <3>1. pc[e] = "waitSimulation"
      BY <1>5, <2>3 DEF VerdictTypes
    <3>2. Active(d) /\ Active(e)
      BY <3>1 DEF Active, Requests, Setup
    <3>3. d \in Mistakable(e)
      BY <2>3, <3>1, <3>2 DEF Waits, NameTaken, Mistakable
    <3> QED
      BY <2>1, <3>1, <3>3 DEF Waits
  <2> QED
    BY <2>2, <2>3
<1>6. Waits'
  BY <1>5 DEF VerdictTypes, Waits, Active, Requests, Setup
<1> QED
  BY <1>2, <1>3, <1>4, <1>6

LEMMA WaitForSimulationVerdicts ==
  ASSUME VerdictInv, NEW d \in Drivers, WaitForSimulation(d)
  PROVE  VerdictInv'
<1>1. PICK how \in {"Pass", "Fail", "Error"} :
        /\ End(d, how)
        /\ how = "Pass" => manager.phase = "Succeeded"
        /\ how = "Fail" => manager.phase = "Failed"
  BY DEF WaitForSimulation
<1>2. flavor = "perf" /\ owners \subseteq {d} \cup Mistakable(d)
  BY DEF VerdictInv, WaitForSimulation, ByFlavor, Waits
<1>3. /\ how = "Pass" => Reports(d, "passed")
      /\ how = "Fail" => Reports(d, "failed")
  BY <1>1, <1>2 DEF VerdictInv, ManagerIsTrue, NoManager, Reports
<1>4. UNCHANGED <<inputVars, jobs, result, owners, manager, disturbed>>
  BY DEF WaitForSimulation, jobVars, simVars, cleanupVars
<1> QED
  BY <1>1, <1>3, <1>4, EndVerdicts

LEMMA ClusterVerdicts ==
  ASSUME VerdictInv, Cluster
  PROVE  VerdictInv'
<1> USE DEF VerdictInv, driverVars, jobVars, simVars, inputVars, cleanupVars
<1>1. CASE Reconcile \/ ReplicasChange
  <2>1. UNCHANGED <<inputVars, pc, verdict, jobs, result, owners, manager, disturbed>>
    BY <1>1 DEF Reconcile, ReplicasChange
  <2> QED
    BY <2>1, ReportsStay DEF VerdictTypes, NothingYet, JobsAreTrue, ByFlavor, Waits, Mistakable, ManagerIsTrue, Active
<1>2. ASSUME NEW d \in Drivers, StartJob(d) \/ EndJob(d) \/ ExpireJob(d) PROVE VerdictInv'
  <2> USE DEF StartJob, EndJob, ExpireJob
  <2>1. VerdictTypes' /\ NothingYet' /\ JobsAreTrue'
    BY <1>2 DEF VerdictTypes, NothingYet, JobsAreTrue, JobStates
  <2>2. ByFlavor' /\ Waits' /\ ManagerIsTrue'
    BY <1>2 DEF VerdictTypes, ByFlavor, Waits, Mistakable, ManagerIsTrue, Active
  <2>3. \A e \in Drivers : result[e] # "none" => result'[e] = result[e]
    BY <1>2 DEF VerdictTypes, JobsAreTrue
  <2>4. OwnVerdict'
    BY <1>2, <2>3, ReportsStay
  <2> QED
    BY <2>1, <2>2, <2>4
<1>3. ASSUME NEW d \in Drivers, StartManager(d) PROVE VerdictInv'
  <2> USE DEF StartManager
  <2>1. VerdictTypes' /\ NothingYet' /\ JobsAreTrue' /\ ByFlavor' /\ Waits'
    BY <1>3 DEF NoManager, VerdictTypes, NothingYet, JobsAreTrue, ByFlavor, Waits, Mistakable, Active
  <2>2. ManagerIsTrue'
    BY <1>3 DEF NoManager, ManagerIsTrue
  <2>3. OwnVerdict'
    BY <1>3, ReportsStay
  <2> QED
    BY <2>1, <2>2, <2>3
<1>4. CASE EndManager
  <2>1. PICK d \in owners : manager = [owner |-> d, phase |-> "Running"] /\ result[d] = "none"
    BY <1>4 DEF EndManager, ManagerIsTrue, NoManager
  <2>2. PICK how \in {"passed", "failed"} :
          /\ manager' = [owner |-> d, phase |-> IF how = "passed" THEN "Succeeded" ELSE "Failed"]
          /\ result' = [result EXCEPT ![d] = how]
    BY <1>4, <2>1 DEF EndManager
  <2>3. VerdictTypes' /\ NothingYet' /\ JobsAreTrue'
    BY <1>4, <2>1, <2>2 DEF EndManager, VerdictTypes, NothingYet, JobsAreTrue, ByFlavor
  <2>4. ByFlavor' /\ Waits' /\ ManagerIsTrue'
    BY <1>4, <2>1, <2>2 DEF EndManager, VerdictTypes, ByFlavor, Waits, Mistakable, ManagerIsTrue, Active
  <2>5. \A e \in Drivers : result[e] # "none" => result'[e] = result[e]
    BY <2>1, <2>2 DEF VerdictTypes
  <2>6. OwnVerdict'
    BY <1>4, <2>5, ReportsStay DEF EndManager
  <2> QED
    BY <2>3, <2>4, <2>6
<1>5. CASE Cleanup
  <2>1. /\ UNCHANGED <<inputVars, pc, verdict, result>> /\ owners' = {} /\ manager' = NoManager
        /\ jobs' = [d \in Drivers |-> IF jobs[d] = "none" THEN "none" ELSE "gone"]
        /\ disturbed' = disturbed \cup {d \in Drivers : Active(d) /\ pc[d] # "namespace"}
    BY <1>5 DEF Cleanup
  <2>2. VerdictTypes' /\ NothingYet' /\ JobsAreTrue' /\ ByFlavor' /\ ManagerIsTrue'
    BY <2>1 DEF VerdictTypes, NothingYet, JobsAreTrue, ByFlavor, ManagerIsTrue, JobStates
  <2>3. Waits'
    BY <2>1 DEF Waits, Active, Requests
  <2>4. OwnVerdict'
    BY <2>1, ReportsStay
  <2> QED
    BY <2>2, <2>3, <2>4
<1> QED
  BY <1>1, <1>2, <1>3, <1>4, <1>5 DEF Cluster

LEMMA NextVerdicts == VerdictInv /\ [Next]_vars => VerdictInv'
<1> SUFFICES ASSUME VerdictInv, [Next]_vars PROVE VerdictInv'
  OBVIOUS
<1>1. CASE UNCHANGED vars
  <2>1. OwnVerdict'
    BY <1>1, ReportsStay DEF vars, driverVars, cleanupVars, VerdictInv
  <2> QED
    BY <1>1, <2>1
       DEF vars, inputVars, driverVars, jobVars, simVars, cleanupVars, VerdictInv, VerdictTypes, NothingYet,
           JobsAreTrue, ByFlavor, Waits, Mistakable, ManagerIsTrue, Active
<1>2. ASSUME NEW d \in Drivers, ApplyNamespace(d) \/ IsSecretMissing(d) \/ CreateSecret(d)
             \/ ApplyResource(d) \/ ApplyNetwork(d) \/ WaitForNetwork(d)
      PROVE  VerdictInv'
  <2> USE DEF ApplyNamespace, IsSecretMissing, CreateSecret, ApplyResource, ApplyNetwork,
              WaitForNetwork
  <2>1. PICK request \in Setup : GoTo(d, request)
    BY <1>2 DEF After, Setup, Resources, Namespaced, ClusterScoped
  <2>2. pc[d] \in Setup \cup {"idle"} /\ pc[d] # "idle"
    BY <1>2 DEF Setup, Resources, Namespaced, ClusterScoped
  <2>3. UNCHANGED <<inputVars, jobs, result, owners, manager, disturbed>>
    BY <1>2 DEF jobVars, simVars, cleanupVars
  <2> QED
    BY <2>1, <2>2, <2>3, SetUpVerdicts
<1>4. ASSUME NEW d \in Drivers, Start(d) PROVE VerdictInv'
  <2>1. "namespace" \in Setup
    BY DEF Setup
  <2>2. /\ pc[d] \in Setup \cup {"idle"}
        /\ Sequential => \A e \in Drivers : ~Active(e)
        /\ GoTo(d, "namespace") \/ End(d, "Error")
    BY <1>4, Zenon DEF Start
  <2>3. UNCHANGED <<inputVars, jobs, result, owners, manager, disturbed>>
    BY <1>4 DEF Start, jobVars, simVars, cleanupVars
  <2>4. CASE GoTo(d, "namespace")
    BY <2>1, <2>2, <2>3, <2>4, SetUpVerdicts, Zenon
  <2>5. CASE End(d, "Error")
    BY <2>3, <2>5, EndVerdicts
  <2> QED
    BY <2>2, <2>4, <2>5
<1>3. ASSUME NEW d \in Drivers, GiveUp(d) \/ RequestRefused(d) \/ RequestFails(d) \/ Crash(d)
      PROVE  VerdictInv'
  <2>1. /\ End(d, "Error") \/ End(d, "Crash")
        /\ UNCHANGED <<inputVars, jobs, result, owners, manager, disturbed>>
    BY <1>3 DEF GiveUp, RequestRefused, RequestFails, Crash, jobVars, simVars, cleanupVars
  <2> QED
    BY <2>1, EndVerdicts
<1> QED
  BY <1>1, <1>2, <1>3, <1>4, JobVerdicts, CreateSimulationVerdicts, WaitForSimulationVerdicts,
     ClusterVerdicts DEF Next, Driver

\* However runs overlap, are killed and lose what they created to a TTL, and
\* however old what a watch shows: a run with a job reports how that job ended; a
\* performance run how its simulation ended, or one of another name, or, after a
\* TTL took its own and runs overlap, another one.
THEOREM VerdictsAreOwn == Spec => []OwnVerdict
<1>1. Init => VerdictInv
  BY InitVerdicts
<1>2. VerdictInv /\ [Next]_vars => VerdictInv'
  BY NextVerdicts
<1>3. VerdictInv => OwnVerdict
  BY DEF VerdictInv
<1> QED
  BY <1>1, <1>2, <1>3, PTL DEF Spec

-----------------------------------------------------------------------------
(* What a job's pod refers to.                                             *)

DependencyTypes ==
  /\ flavor \in AllFlavors
  /\ pc \in [Drivers -> Requests \cup {"idle", "ended"}]
  /\ jobs \in [Drivers -> JobStates]

\* The resources a run has applied when it is about to make a request.
AppliedBefore(request) ==
  CASE request \in {"namespace", "isSecretMissing", "createSecret", "serviceAccount"} -> {}
    [] request = "clusterRole"        -> {"serviceAccount"}
    [] request = "clusterRoleBinding" -> {"serviceAccount", "clusterRole"}
    [] request \in {"network", "processPeers"} ->
         {"serviceAccount", "clusterRole", "clusterRoleBinding"}
    [] request = "localstackSet" ->
         {"serviceAccount", "clusterRole", "clusterRoleBinding", "processPeers"}
    [] request = "localstackService" ->
         {"serviceAccount", "clusterRole", "clusterRoleBinding", "processPeers", "localstackSet"}
    [] OTHER -> Dependencies

\* The requests of the set-up that follow the network's.
NetworkApplied == {"processPeers", "localstackSet", "localstackService", "waitNetwork", "create"}

\* A run in its set-up finds all its earlier requests made, unless the network's
\* TTL has undone them.
SetUpSoFar ==
  \A d \in Drivers \ disturbed :
    /\ pc[d] \in Setup => AppliedBefore(pc[d]) \subseteq applied
    /\ pc[d] \in Setup \ {"namespace"} => namespace
    /\ pc[d] \in Setup \ {"namespace", "isSecretMissing", "createSecret"} => secret # None
    /\ pc[d] \in NetworkApplied => network # None

DependencyInv == DependencyTypes /\ SetUpSoFar /\ JobHasDependencies

LEMMA InitDependencies == Init => DependencyInv
BY HermeticDriverAssumption
   DEF Init, DependencyInv, DependencyTypes, SetUpSoFar, JobHasDependencies, JobStates, Requests,
       Setup, Resources, Namespaced, ClusterScoped, NetworkApplied

\* A request of the set-up that is answered: what has to be there for the next
\* request is there.
LEMMA SetUpDependencies ==
  ASSUME DependencyInv, NEW d \in Drivers, NEW request \in Requests, GoTo(d, request),
         UNCHANGED <<flavor, jobs, disturbed>>, applied \subseteq applied',
         namespace => namespace', secret # None => secret' # None, network # None => network' # None,
         d \notin disturbed =>
           /\ request \in Setup => AppliedBefore(request) \subseteq applied'
           /\ request \in Setup \ {"namespace"} => namespace'
           /\ request \in Setup \ {"namespace", "isSecretMissing", "createSecret"} => secret' # None
           /\ request \in NetworkApplied => network' # None
  PROVE  DependencyInv'
<1> USE DEF DependencyInv, GoTo
<1>1. DependencyTypes'
  BY DEF DependencyTypes
<1>2. \A r : AppliedBefore(r)' = AppliedBefore(r)
  BY DEF AppliedBefore, Dependencies
<1>3. SetUpSoFar'
  BY <1>2 DEF DependencyTypes, SetUpSoFar
<1>4. JobHasDependencies'
  BY DEF DependencyTypes, JobHasDependencies, Dependencies
<1> QED
  BY <1>1, <1>3, <1>4

\* A run that ends, or goes on without having anything set up.
LEMMA LeaveDependencies ==
  ASSUME DependencyInv, NEW d \in Drivers, NEW next \in (Requests \ Setup) \cup {"ended"},
         pc' = [pc EXCEPT ![d] = next],
         UNCHANGED <<flavor, jobs, applied, namespace, secret, disturbed>>,
         network # None => network' # None
  PROVE  DependencyInv'
<1> USE DEF DependencyInv
<1>1. DependencyTypes'
  BY DEF DependencyTypes
<1>2. next \notin Setup \cup NetworkApplied
  BY DEF Setup, Resources, Namespaced, ClusterScoped, NetworkApplied, Requests
<1>3. \A r : AppliedBefore(r)' = AppliedBefore(r)
  BY DEF AppliedBefore, Dependencies
<1>4. SetUpSoFar'
  BY <1>2, <1>3 DEF DependencyTypes, SetUpSoFar
<1>5. JobHasDependencies'
  BY DEF DependencyTypes, JobHasDependencies, Dependencies
<1> QED
  BY <1>1, <1>4, <1>5

\* Applying a resource leads to a request that finds it applied.
LEMMA AfterDependencies ==
  ASSUME DependencyInv, NEW d \in Drivers, pc[d] \in Resources
  PROVE  /\ After(pc[d]) \in Setup \ {"namespace", "isSecretMissing", "createSecret"}
         /\ d \notin disturbed => AppliedBefore(After(pc[d])) \subseteq applied \cup {pc[d]}
         /\ After(pc[d]) \in NetworkApplied => pc[d] \in NetworkApplied
<1>1. d \notin disturbed => AppliedBefore(pc[d]) \subseteq applied
  BY DEF DependencyInv, SetUpSoFar, Setup
<1>2. flavor \in AllFlavors
  BY DEF DependencyInv, DependencyTypes
<1>3. CASE pc[d] \in {"serviceAccount", "clusterRole", "clusterRoleBinding"}
  BY <1>1, <1>3 DEF After, AppliedBefore, Setup, Resources, Namespaced, ClusterScoped, NetworkApplied
<1>4. CASE pc[d] \in {"processPeers", "localstackSet", "localstackService"}
  BY <1>1, <1>2, <1>4
     DEF After, AppliedBefore, Dependencies, AllFlavors, Setup, Resources, Namespaced, ClusterScoped,
         NetworkApplied
<1> QED
  BY <1>3, <1>4 DEF Resources, Namespaced, ClusterScoped

LEMMA RunDependencies ==
  ASSUME DependencyInv, NEW d \in Drivers,
         Start(d) \/ Driver(d) \/ RequestFails(d) \/ Crash(d)
  PROVE  DependencyInv'
<1> USE DEF inputVars, secretVars, networkVars, jobVars, cleanupVars
<1>1. CASE Start(d)
  <2>1. "namespace" \in (Setup \cap Requests) \ NetworkApplied /\ AppliedBefore("namespace") = {}
    BY DEF Setup, Requests, AppliedBefore, NetworkApplied
  <2>2. CASE GoTo(d, "namespace")
    BY <1>1, <2>1, <2>2, SetUpDependencies DEF Start
  <2>3. CASE End(d, "Error")
    BY <1>1, <2>3, LeaveDependencies DEF Start, End
  <2> QED
    BY <1>1, <2>2, <2>3, Zenon DEF Start
<1>2. CASE ApplyNamespace(d)
  <2>1. /\ "isSecretMissing" \in (Setup \cap Requests) \ NetworkApplied
        /\ AppliedBefore("isSecretMissing") = {}
    BY DEF Setup, Requests, AppliedBefore, NetworkApplied
  <2> QED
    BY <1>2, <2>1, SetUpDependencies DEF ApplyNamespace
<1>3. CASE IsSecretMissing(d)
  <2>1. /\ {"createSecret", "serviceAccount"} \subseteq (Setup \cap Requests) \ NetworkApplied
        /\ AppliedBefore("createSecret") = {} /\ AppliedBefore("serviceAccount") = {}
    BY DEF Setup, Requests, AppliedBefore, Resources, Namespaced, NetworkApplied
  <2>2. d \notin disturbed => namespace
    BY <1>3 DEF IsSecretMissing, DependencyInv, SetUpSoFar, Setup
  <2>3. CASE secret = None
    BY <1>3, <2>1, <2>2, <2>3, SetUpDependencies DEF IsSecretMissing
  <2>4. CASE secret # None
    BY <1>3, <2>1, <2>2, <2>4, SetUpDependencies DEF IsSecretMissing
  <2> QED
    BY <2>3, <2>4
<1>4. CASE CreateSecret(d)
  <2>1. /\ "serviceAccount" \in (Setup \cap Requests) \ NetworkApplied
        /\ AppliedBefore("serviceAccount") = {}
    BY DEF Setup, Requests, AppliedBefore, Resources, Namespaced, NetworkApplied
  <2>2. Key[d] # None
    BY HermeticDriverAssumption
  <2> QED
    BY <1>4, <2>1, <2>2, SetUpDependencies DEF CreateSecret
<1>5. CASE ApplyResource(d)
  <2>1. pc[d] \in Resources
    BY <1>5 DEF ApplyResource
  <2>2. /\ After(pc[d]) \in Setup \ {"namespace", "isSecretMissing", "createSecret"}
        /\ d \notin disturbed => AppliedBefore(After(pc[d])) \subseteq applied'
        /\ d \notin disturbed /\ After(pc[d]) \in NetworkApplied => network # None
    BY <1>5, <2>1, AfterDependencies DEF ApplyResource, DependencyInv, SetUpSoFar
  <2>3. d \notin disturbed => namespace /\ secret # None
    BY <2>1 DEF DependencyInv, SetUpSoFar, Setup, Resources, Namespaced, ClusterScoped
  <2>4. After(pc[d]) \in Requests
    BY <2>2 DEF Requests
  <2> QED
    BY <1>5, <2>2, <2>3, <2>4, SetUpDependencies DEF ApplyResource
<1>6. CASE ApplyNetwork(d)
  <2>1. "processPeers" \in Setup \cap Requests /\ AppliedBefore("processPeers") = AppliedBefore("network")
    BY DEF Setup, Requests, AppliedBefore, Resources, Namespaced
  <2>2. d \notin disturbed => namespace /\ secret # None /\ AppliedBefore("network") \subseteq applied
    BY <1>6 DEF ApplyNetwork, DependencyInv, SetUpSoFar, Setup
  <2>3. network' # None
    BY <1>6, HermeticDriverAssumption DEF ApplyNetwork, SetSpec
  <2> QED
    BY <1>6, <2>1, <2>2, <2>3, SetUpDependencies DEF ApplyNetwork
<1>7. CASE WaitForNetwork(d)
  <2>1. "create" \in Setup \cap Requests /\ AppliedBefore("create") = AppliedBefore("waitNetwork")
    BY DEF Setup, Requests, AppliedBefore
  <2>2. d \notin disturbed =>
          namespace /\ secret # None /\ network # None /\ AppliedBefore("waitNetwork") \subseteq applied
    BY <1>7 DEF WaitForNetwork, DependencyInv, SetUpSoFar, Setup, NetworkApplied
  <2> QED
    BY <1>7, <2>1, <2>2, SetUpDependencies DEF WaitForNetwork
<1>8. CASE CreateJob(d)
  <2>1. d \notin disturbed =>
          namespace /\ secret # None /\ network # None /\ Dependencies \subseteq applied
    BY <1>8 DEF CreateJob, DependencyInv, SetUpSoFar, Setup, AppliedBefore, NetworkApplied
  <2>2. DependencyTypes' /\ SetUpSoFar'
    BY <1>8 DEF CreateJob, GoTo, DependencyInv, DependencyTypes, SetUpSoFar, JobStates, Requests,
                Setup, Resources, Namespaced, ClusterScoped, NetworkApplied, AppliedBefore, Dependencies
  <2>3. JobHasDependencies'
    BY <1>8, <2>1 DEF CreateJob, DependencyInv, DependencyTypes, JobHasDependencies, Dependencies
  <2> QED
    BY <2>2, <2>3 DEF DependencyInv
<1>9. CASE CreateSimulation(d) \/ Sleep(d) \/ ApplyMigration(d)
  <2>1. PICK next \in Requests \ Setup : pc' = [pc EXCEPT ![d] = next]
    BY <1>9 DEF CreateSimulation, Sleep, ApplyMigration, GoTo, Requests, Setup, Resources,
                Namespaced, ClusterScoped
  <2>2. UNCHANGED <<flavor, jobs, applied, namespace, secret, disturbed>>
    BY <1>9 DEF CreateSimulation, Sleep, ApplyMigration
  <2>3. network # None => network' # None
    BY <1>9, HermeticDriverAssumption DEF CreateSimulation, Sleep, ApplyMigration, SetSpec
  <2> QED
    BY <2>1, <2>2, <2>3, LeaveDependencies
<1>10. CASE WaitForJob(d) \/ WaitForSimulation(d) \/ GiveUp(d) \/ RequestRefused(d)
            \/ RequestFails(d) \/ Crash(d)
  <2>1. pc' = [pc EXCEPT ![d] = "ended"]
    BY <1>10 DEF WaitForJob, WaitForSimulation, GiveUp, RequestRefused, RequestFails, Crash, End
  <2>2. UNCHANGED <<flavor, jobs, applied, namespace, secret, network, disturbed>>
    BY <1>10 DEF WaitForJob, WaitForSimulation, GiveUp, RequestRefused, RequestFails, Crash
  <2> QED
    BY <2>1, <2>2, LeaveDependencies
<1> QED
  BY <1>1, <1>2, <1>3, <1>4, <1>5, <1>6, <1>7, <1>8, <1>9, <1>10 DEF Driver

LEMMA ClusterDependencies == DependencyInv /\ Cluster => DependencyInv'
<1> SUFFICES ASSUME DependencyInv, Cluster PROVE DependencyInv'
  OBVIOUS
<1> USE DEF DependencyInv, inputVars, driverVars, secretVars, networkVars, jobVars, simVars, cleanupVars
<1>1. \A r : flavor' = flavor => AppliedBefore(r)' = AppliedBefore(r)
  BY DEF AppliedBefore, Dependencies
<1>2. CASE Reconcile
  <2>1. secret' # None /\ namespace' = TRUE
    BY <1>2, HermeticDriverAssumption DEF Reconcile
  <2> QED
    BY <1>1, <1>2, <2>1 DEF Reconcile, DependencyTypes, SetUpSoFar, JobHasDependencies, Dependencies
<1>3. CASE ReplicasChange \/ EndManager
  BY <1>1, <1>3 DEF ReplicasChange, EndManager, DependencyTypes, SetUpSoFar, JobHasDependencies,
                    Dependencies
<1>4. CASE Cleanup
  <2>1. DependencyTypes' /\ JobHasDependencies'
    BY <1>4 DEF Cleanup, DependencyTypes, JobHasDependencies, JobStates
  <2>2. \A d \in Drivers \ disturbed' : pc'[d] \in Setup => pc'[d] = "namespace"
    BY <1>4 DEF Cleanup, Active, Requests
  <2>3. AppliedBefore("namespace")' = {}
    BY DEF AppliedBefore
  <2>4. NetworkApplied \subseteq Setup /\ "namespace" \notin NetworkApplied
    BY DEF NetworkApplied, Setup, Resources, Namespaced
  <2> QED
    BY <2>1, <2>2, <2>3, <2>4 DEF SetUpSoFar
<1>5. ASSUME NEW d \in Drivers, StartJob(d) \/ EndJob(d) \/ ExpireJob(d) \/ StartManager(d)
      PROVE  DependencyInv'
  BY <1>1, <1>5 DEF StartJob, EndJob, ExpireJob, StartManager, DependencyTypes, SetUpSoFar,
                    JobHasDependencies, Dependencies, JobStates
<1> QED
  BY <1>2, <1>3, <1>4, <1>5 DEF Cluster

\* Whatever runs precede or overlap it, a job that has not ended is in a
\* namespace with its secret and with everything its pod refers to.
THEOREM JobsFindWhatTheyNeed == Spec => []JobHasDependencies
<1>1. DependencyInv /\ [Next]_vars => DependencyInv'
  <2>1. DependencyInv /\ UNCHANGED vars => DependencyInv'
    BY DEF vars, inputVars, driverVars, secretVars, networkVars, jobVars, cleanupVars, DependencyInv, DependencyTypes, SetUpSoFar,
           JobHasDependencies, Dependencies, AppliedBefore
  <2> QED
    BY <2>1, RunDependencies, ClusterDependencies DEF Next
<1>2. DependencyInv => JobHasDependencies
  BY DEF DependencyInv
<1> QED
  BY InitDependencies, <1>1, <1>2, PTL DEF Spec

=============================================================================
