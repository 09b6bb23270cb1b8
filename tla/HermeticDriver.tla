--------------------------- MODULE HermeticDriver ---------------------------
(***************************************************************************)
(* Runs of the hermetic driver against one network namespace: `run` of     *)
(* hermetic/src/cli/tester.rs, one action per request it awaits.           *)
(*                                                                         *)
(* Two runs with the same flavor, network name and suffix use the same     *)
(* namespace.  That is the normal case for a workflow that is re-run, and  *)
(* for developers who keep the default suffix.  A run may be killed at any *)
(* await; nothing cleans up after it but the network's TTL.                *)
(*                                                                         *)
(* The Keramik operator, the Job controller and the TTLs are outside src/: *)
(* they are modelled from how the driver uses them.  A wait is the         *)
(* TimedWait that WatchLoop implements: it returns a result its object     *)
(* shows, fails, or gives up when there is none.  The watches start from   *)
(* version "0": what they show may be old, of an object that is gone.      *)
(***************************************************************************)
EXTENDS Naturals, FiniteSets

CONSTANTS
  Drivers,         \* the runs of the driver
  Flavors,         \* the flavors considered: all runs in a namespace share one
  Keys,            \* admin DID private keys
  Key,             \* Key[d]: DID_PRIVATE_KEY in the environment of d
  OperatorKey,     \* what the operator copies from the "keramik" namespace
  Specs,           \* network specifications, apart from their name and ttl
  Spec0,           \* Spec0[d]: the --network file of d
  Spec1,           \* Spec1[d]: the --migration-network file of d
  Names,           \* names of Simulation resources
  Sequential,      \* whether a run starts only when no other is active
  MaxCleanups,     \* bound: times the network's TTL runs out
  None             \* no key, no specification, no owner

AllFlavors == {"correctness", "migration", "perf"}

ASSUME HermeticDriverAssumption ==
  /\ Flavors \subseteq AllFlavors
  /\ Key \in [Drivers -> Keys]
  /\ OperatorKey \notin Keys
  /\ Spec0 \in [Drivers -> Specs]
  /\ Spec1 \in [Drivers -> Specs]
  /\ Sequential \in BOOLEAN
  /\ MaxCleanups \in Nat
  /\ None \notin Keys \cup {OperatorKey} \cup Specs \cup Drivers

VARIABLES
  flavor,     \* Flavor of every run
  simulation, \* simulation[d]: metadata.name in the --simulation file of d
  pc,         \* pc[d]: the request d is about to make, or "idle", "ended"
  verdict,    \* verdict[d]: how d ended
  namespace,  \* whether the namespace exists
  secret,     \* the admin secret in it
  applied,    \* the other resources that have been applied
  network,    \* spec of the Network resource
  deployed,   \* the spec its pods were created from
  podKey,     \* the admin key they were created with
  ready,      \* status.ready_replicas = status.replicas
  shown,      \* whether a Network of this name, this one or one that is gone,
              \*   has ever been ready: a watch may show it
  jobs,       \* jobs[d]: the Job that d created
  jobKey,     \* the admin key its pod was started with
  owners,     \* the drivers whose Simulation resource exists
  manager,    \* the simulate manager: whose Simulation it runs, and its phase
  past,       \* how managers that are gone have ended: a watch may show them
  result,     \* result[d]: how the Job or Simulation of d really ended
  cleanups,   \* times the TTL has run out
  disturbed   \* the runs it cut short: it ran out after their first request

inputVars == <<flavor, simulation>>
driverVars == <<pc, verdict>>
secretVars == <<namespace, secret>>
networkVars == <<network, deployed, podKey, ready, shown>>
jobVars == <<jobs, jobKey>>
simVars == <<owners, manager, past>>
cleanupVars == <<cleanups, disturbed>>
vars == <<inputVars, driverVars, secretVars, applied, networkVars, jobVars, simVars,
          result, cleanupVars>>

-----------------------------------------------------------------------------
(* The order of the requests of `run`.                                     *)

NoManager == [owner |-> None, phase |-> "none"]

\* Requests that apply one resource and go on; server-side apply, so applying
\* what exists already changes nothing.
Namespaced == {"serviceAccount", "processPeers", "localstackSet", "localstackService"}
ClusterScoped == {"clusterRole", "clusterRoleBinding"}
Resources == Namespaced \cup ClusterScoped

\* What the driver awaits after it applied a resource.
After(request) ==
  CASE request = "serviceAccount"     -> "clusterRole"
    [] request = "clusterRole"        -> "clusterRoleBinding"
    [] request = "clusterRoleBinding" -> "network"
    [] request = "processPeers"       -> IF flavor = "correctness" THEN "localstackSet"
                                                                   ELSE "waitNetwork"
    [] request = "localstackSet"      -> "localstackService"
    [] request = "localstackService"  -> "waitNetwork"

Setup == Resources \cup {"namespace", "isSecretMissing", "createSecret", "network",
                         "waitNetwork", "create"}
Requests == Setup \cup {"sleep", "migrate", "waitJob", "waitSimulation"}

Active(d) == pc[d] \in Requests

\* The resources a job's pod mounts, runs as or, in a correctness run, talks to.
Dependencies ==
  {"serviceAccount", "clusterRole", "clusterRoleBinding", "processPeers"}
    \cup (IF flavor = "correctness" THEN {"localstackSet", "localstackService"} ELSE {})

Init ==
  /\ flavor \in Flavors
  /\ simulation \in [Drivers -> Names]
  /\ pc = [d \in Drivers |-> "idle"]
  /\ verdict = [d \in Drivers |-> "none"]
  /\ namespace = FALSE
  /\ secret = None
  /\ applied = {}
  /\ network = None /\ deployed = None /\ podKey = None
  /\ ready = FALSE /\ shown = FALSE
  /\ jobs = [d \in Drivers |-> "none"]
  /\ jobKey = [d \in Drivers |-> None]
  /\ owners = {} /\ manager = NoManager /\ past = {}
  /\ result = [d \in Drivers |-> "none"]
  /\ cleanups = 0
  /\ disturbed = {}

-----------------------------------------------------------------------------
(* The driver.                                                             *)

GoTo(d, request) ==
  /\ pc' = [pc EXCEPT ![d] = request]
  /\ UNCHANGED verdict

End(d, how) ==
  /\ pc' = [pc EXCEPT ![d] = "ended"]
  /\ verdict' = [verdict EXCEPT ![d] = how]

\* Options that are required by a flavor and optional on the command line.
Options == {"simulation", "migration_network", "migration_wait_secs"}

Required ==
  CASE flavor = "correctness" -> {}
    [] flavor = "migration"   -> {"migration_network", "migration_wait_secs"}
    [] flavor = "perf"        -> {"simulation"}

\* Without an option that its flavor requires, a run ends before any request.
Start(d) ==
  /\ pc[d] = "idle"
  /\ Sequential => \A e \in Drivers : ~Active(e)
  /\ \E given \in SUBSET Options :
       IF Required \subseteq given THEN GoTo(d, "namespace") ELSE End(d, "Error")
  /\ UNCHANGED <<inputVars, secretVars, applied, networkVars, jobVars, simVars, result, cleanupVars>>

ApplyNamespace(d) ==
  /\ pc[d] = "namespace"
  /\ namespace' = TRUE
  /\ GoTo(d, "isSecretMissing")
  /\ UNCHANGED <<inputVars, secret, applied, networkVars, jobVars, simVars, result, cleanupVars>>

\* Mutants of IsSecretMissing: the secret is created whether or not it is there;
\* the test is the wrong way round.
CreateAnyway(d) ==
  /\ pc[d] = "isSecretMissing"
  /\ GoTo(d, "createSecret")
  /\ UNCHANGED <<inputVars, secretVars, applied, networkVars, jobVars, simVars, result, cleanupVars>>

SecretTestInverted(d) ==
  /\ pc[d] = "isSecretMissing"
  /\ GoTo(d, IF secret # None THEN "createSecret" ELSE "serviceAccount")
  /\ UNCHANGED <<inputVars, secretVars, applied, networkVars, jobVars, simVars, result, cleanupVars>>

IsSecretMissing(d) ==
  /\ pc[d] = "isSecretMissing"
  /\ GoTo(d, IF secret = None THEN "createSecret" ELSE "serviceAccount")
  /\ UNCHANGED <<inputVars, secretVars, applied, networkVars, jobVars, simVars, result, cleanupVars>>

\* create_secret applies: a secret that has appeared meanwhile is overwritten.
CreateSecret(d) ==
  /\ pc[d] = "createSecret"
  /\ namespace
  /\ secret' = Key[d]
  /\ GoTo(d, "serviceAccount")
  /\ UNCHANGED <<inputVars, namespace, applied, networkVars, jobVars, simVars, result, cleanupVars>>

ApplyResource(d) ==
  /\ pc[d] \in Resources
  /\ pc[d] \in Namespaced => namespace
  /\ applied' = applied \cup {pc[d]}
  /\ GoTo(d, After(pc[d]))
  /\ UNCHANGED <<inputVars, secretVars, networkVars, jobVars, simVars, result, cleanupVars>>

SetSpec(spec) ==
  /\ network' = spec
  /\ UNCHANGED <<deployed, podKey, ready, shown>>

\* Mutant of ApplyNetwork: the process-peers config map is forgotten.
ApplyNetworkOnly(d) ==
  /\ pc[d] = "network"
  /\ SetSpec(Spec0[d])
  /\ GoTo(d, "waitNetwork")
  /\ UNCHANGED <<inputVars, secretVars, applied, jobVars, simVars, result, cleanupVars>>

ApplyNetwork(d) ==
  /\ pc[d] = "network"
  /\ SetSpec(Spec0[d])
  /\ GoTo(d, "processPeers")
  /\ UNCHANGED <<inputVars, secretVars, applied, jobVars, simVars, result, cleanupVars>>

\* wait_for_network reads the counts in the status of what the watch shows: not
\* which spec they are of, nor whether the network has been deleted since.
WaitForNetwork(d) ==
  /\ pc[d] = "waitNetwork"
  /\ shown
  /\ GoTo(d, "create")
  /\ UNCHANGED <<inputVars, secretVars, applied, networkVars, jobVars, simVars, result, cleanupVars>>

\* generate_name: the Job of a run never collides with another one.
CreateJob(d) ==
  /\ pc[d] = "create"
  /\ flavor # "perf"
  /\ namespace
  /\ jobs' = [jobs EXCEPT ![d] = "pending"]
  /\ GoTo(d, IF flavor = "migration" THEN "sleep" ELSE "waitJob")
  /\ UNCHANGED <<inputVars, secretVars, applied, networkVars, jobKey, simVars, result, cleanupVars>>

NameTaken(d) == \E e \in owners : simulation[e] = simulation[d]

CreateSimulation(d) ==
  /\ pc[d] = "create"
  /\ flavor = "perf"
  /\ namespace
  /\ ~NameTaken(d)
  /\ owners' = owners \cup {d}
  /\ GoTo(d, "waitSimulation")
  /\ UNCHANGED <<inputVars, secretVars, applied, networkVars, jobVars, manager, past, result, cleanupVars>>

Sleep(d) ==
  /\ pc[d] = "sleep"
  /\ GoTo(d, "migrate")
  /\ UNCHANGED <<inputVars, secretVars, applied, networkVars, jobVars, simVars, result, cleanupVars>>

ApplyMigration(d) ==
  /\ pc[d] = "migrate"
  /\ SetSpec(Spec1[d])
  /\ GoTo(d, "waitJob")
  /\ UNCHANGED <<inputVars, secretVars, applied, jobVars, simVars, result, cleanupVars>>

\* Mutant of WaitForJob: the state of the job is returned as it is.
ReturnJobState(d) ==
  /\ pc[d] = "waitJob"
  /\ jobs[d] \in {"passed", "failed"}
  /\ End(d, jobs[d])
  /\ UNCHANGED <<inputVars, secretVars, applied, networkVars, jobVars, simVars, result, cleanupVars>>

\* The job is watched by its own name.  A job that is gone may still be shown, as
\* it ended; its logs are those of the pods there are, perhaps none.
Shows(d, state) == jobs[d] = state \/ (jobs[d] = "gone" /\ result[d] = state)

WaitForJob(d) ==
  /\ pc[d] = "waitJob"
  /\ \/ Shows(d, "passed") /\ End(d, "Pass")
     \/ Shows(d, "failed") /\ End(d, "Fail")
  /\ UNCHANGED <<inputVars, secretVars, applied, networkVars, jobVars, simVars, result, cleanupVars>>

\* Mutant of WaitForSimulation: the phase that is shown is returned without the
\* logs of the pod that shows it.
ReturnPhase(d) ==
  /\ pc[d] = "waitSimulation"
  /\ \/ "Succeeded" \in past \cup {manager.phase} /\ End(d, "Pass")
     \/ "Failed" \in past \cup {manager.phase} /\ End(d, "Fail")
  /\ UNCHANGED <<inputVars, secretVars, applied, networkVars, jobVars, simVars, result, cleanupVars>>

\* The simulate manager is watched by a label that every Simulation's has, but its
\* logs are read by the name of the pod that is shown: if that is gone, the read
\* fails and the run with it.
WaitForSimulation(d) ==
  /\ pc[d] = "waitSimulation"
  /\ \/ manager.phase = "Succeeded" /\ End(d, "Pass")
     \/ manager.phase = "Failed" /\ End(d, "Fail")
     \/ past # {} /\ End(d, "Error")
  /\ UNCHANGED <<inputVars, secretVars, applied, networkVars, jobVars, simVars, result, cleanupVars>>

\* Mutant of GiveUp: the wait for a job has no timeout.
GiveUpOnNetworkOnly(d) ==
  /\ pc[d] = "waitNetwork" /\ ~(network # None /\ ready)
  /\ End(d, "Error")
  /\ UNCHANGED <<inputVars, secretVars, applied, networkVars, jobVars, simVars, result, cleanupVars>>

\* "watch timeout exceeded", where the watch shows nothing to return.
GiveUp(d) ==
  /\ \/ pc[d] = "waitNetwork" /\ ~(network # None /\ ready)
     \/ pc[d] = "waitJob" /\ jobs[d] \notin {"passed", "failed"}
     \/ pc[d] = "waitSimulation" /\ manager.phase \notin {"Succeeded", "Failed"}
  /\ End(d, "Error")
  /\ UNCHANGED <<inputVars, secretVars, applied, networkVars, jobVars, simVars, result, cleanupVars>>

\* A request that needs a namespace that is gone, or creates a Simulation whose
\* name is taken, is refused: `?` ends the run with an error.
RequestRefused(d) ==
  /\ \/ pc[d] \in Namespaced \cup {"createSecret", "create"} /\ ~namespace
     \/ pc[d] = "create" /\ flavor = "perf" /\ NameTaken(d)
  /\ End(d, "Error")
  /\ UNCHANGED <<inputVars, secretVars, applied, networkVars, jobVars, simVars, result, cleanupVars>>

\* Any other request may fail too, and reading a file before one.
RequestFails(d) ==
  /\ Active(d) /\ pc[d] # "sleep"
  /\ End(d, "Error")
  /\ UNCHANGED <<inputVars, secretVars, applied, networkVars, jobVars, simVars, result, cleanupVars>>

\* The run is killed: its workflow is cancelled, its machine goes away.
Crash(d) ==
  /\ Active(d)
  /\ End(d, "Crash")
  /\ UNCHANGED <<inputVars, secretVars, applied, networkVars, jobVars, simVars, result, cleanupVars>>

Driver(d) ==
  \/ ApplyNamespace(d) \/ IsSecretMissing(d) \/ CreateSecret(d)
  \/ ApplyResource(d) \/ ApplyNetwork(d) \/ WaitForNetwork(d)
  \/ CreateJob(d) \/ CreateSimulation(d) \/ Sleep(d) \/ ApplyMigration(d)
  \/ WaitForJob(d) \/ WaitForSimulation(d) \/ GiveUp(d) \/ RequestRefused(d)

-----------------------------------------------------------------------------
(* The cluster, external to the driver.                                    *)

\* The operator deploys the spec, in a namespace and with a secret that it
\* creates if they are missing.
Reconcile ==
  /\ network # None
  /\ deployed # network
  /\ namespace' = TRUE
  /\ secret' = IF secret = None THEN OperatorKey ELSE secret
  /\ deployed' = network
  /\ podKey' = secret'
  /\ ready' = FALSE
  /\ UNCHANGED <<inputVars, driverVars, applied, network, shown, jobVars, simVars, result, cleanupVars>>

\* Replicas of what is deployed become ready, or unready.
ReplicasChange ==
  /\ deployed # None
  /\ ready' = ~ready
  /\ shown' = TRUE
  /\ UNCHANGED <<inputVars, driverVars, secretVars, applied, network, deployed, podKey,
                 jobVars, simVars, result, cleanupVars>>

\* The pod of a job starts once what it refers to is there.
StartJob(d) ==
  /\ jobs[d] = "pending"
  /\ {"serviceAccount", "processPeers"} \subseteq applied
  /\ secret # None
  /\ deployed # None
  /\ jobs' = [jobs EXCEPT ![d] = "running"]
  /\ jobKey' = [jobKey EXCEPT ![d] = secret]
  /\ UNCHANGED <<inputVars, driverVars, secretVars, applied, networkVars, simVars, result, cleanupVars>>

EndJob(d) ==
  /\ jobs[d] = "running"
  /\ \E how \in {"passed", "failed"} :
       /\ jobs' = [jobs EXCEPT ![d] = how]
       /\ result' = [result EXCEPT ![d] = how]
  /\ UNCHANGED <<inputVars, driverVars, secretVars, applied, networkVars, jobKey, simVars, cleanupVars>>

\* ttl_seconds_after_finished.
ExpireJob(d) ==
  /\ jobs[d] \in {"passed", "failed"}
  /\ jobs' = [jobs EXCEPT ![d] = "gone"]
  /\ UNCHANGED <<inputVars, driverVars, secretVars, applied, networkVars, jobKey, simVars, result, cleanupVars>>

\* One simulate manager per namespace: its Job has a fixed name.
StartManager(d) ==
  /\ d \in owners
  /\ manager = NoManager
  /\ manager' = [owner |-> d, phase |-> "Running"]
  /\ UNCHANGED <<inputVars, driverVars, secretVars, applied, networkVars, jobVars, owners, past, result, cleanupVars>>

EndManager ==
  /\ manager.phase = "Running"
  /\ \E how \in {"passed", "failed"} :
       /\ manager' = [manager EXCEPT !.phase = IF how = "passed" THEN "Succeeded" ELSE "Failed"]
       /\ result' = [result EXCEPT ![manager.owner] = how]
  /\ UNCHANGED <<inputVars, driverVars, secretVars, applied, networkVars, jobVars, owners, past, cleanupVars>>

\* The network's TTL runs out, and the namespace goes with the network: the TTL
\* counts from the first creation of the network, so this may be in the middle
\* of the set-up or the tests of a later run.
Cleanup ==
  /\ cleanups < MaxCleanups
  /\ network # None
  /\ cleanups' = cleanups + 1
  /\ disturbed' = disturbed \cup {d \in Drivers : Active(d) /\ pc[d] # "namespace"}
  /\ namespace' = FALSE
  /\ secret' = None
  /\ applied' = applied \cap ClusterScoped
  /\ network' = None /\ deployed' = None /\ podKey' = None /\ ready' = FALSE
  /\ jobs' = [d \in Drivers |-> IF jobs[d] = "none" THEN "none" ELSE "gone"]
  /\ owners' = {} /\ manager' = NoManager
  /\ past' = past \cup ({manager.phase} \cap {"Succeeded", "Failed"})
  /\ UNCHANGED <<inputVars, driverVars, shown, jobKey, result>>

Cluster ==
  \/ Reconcile \/ ReplicasChange \/ EndManager \/ Cleanup
  \/ \E d \in Drivers : StartJob(d) \/ EndJob(d) \/ ExpireJob(d) \/ StartManager(d)

-----------------------------------------------------------------------------

Next ==
  \/ \E d \in Drivers : Start(d) \/ Driver(d) \/ RequestFails(d) \/ Crash(d)
  \/ Cluster

Spec == Init /\ [][Next]_vars

\* Every run that is not killed goes on: its requests are answered, its sleeps
\* and waits end.  Nothing is assumed of the operator or of the tests.
Fairness == \A d \in Drivers : WF_vars(Driver(d))

FairSpec == Spec /\ Fairness

-----------------------------------------------------------------------------
(* Properties.                                                             *)

JobStates == {"none", "pending", "running", "passed", "failed", "gone"}
Phases == {"none", "Running", "Succeeded", "Failed"}

TypeOK ==
  /\ flavor \in Flavors /\ simulation \in [Drivers -> Names]
  /\ pc \in [Drivers -> Requests \cup {"idle", "ended"}]
  /\ verdict \in [Drivers -> {"none", "Pass", "Fail", "Error", "Crash"}]
  /\ namespace \in BOOLEAN
  /\ secret \in Keys \cup {OperatorKey, None}
  /\ applied \subseteq Resources
  /\ network \in Specs \cup {None}
  /\ deployed \in Specs \cup {None}
  /\ podKey \in Keys \cup {OperatorKey, None}
  /\ ready \in BOOLEAN /\ shown \in BOOLEAN
  /\ jobs \in [Drivers -> JobStates]
  /\ jobKey \in [Drivers -> Keys \cup {OperatorKey, None}]
  /\ owners \subseteq Drivers
  /\ manager \in [owner : Drivers \cup {None}, phase : Phases]
  /\ past \subseteq {"Succeeded", "Failed"}
  /\ result \in [Drivers -> {"none", "passed", "failed"}]
  /\ cleanups \in 0..MaxCleanups
  /\ disturbed \subseteq Drivers

\* Runs whose simulation d may take for its own: those of another name, for the
\* manager is selected by a label they share (tester.rs:350), and, where runs
\* overlap, any one that follows a TTL that took d's own.
Mistakable(d) == {e \in Drivers : simulation[e] # simulation[d] \/ (~Sequential /\ d \in disturbed)}

Reports(d, how) ==
  result[d] = how \/ (flavor = "perf" /\ \E e \in Mistakable(d) : result[e] = how)

\* A run reports the result of the tests it started, not of those an earlier,
\* killed or concurrent run left in the same namespace, nor of objects that are
\* gone and that a stale watch still shows (wait_for_job, wait_for_simulation).
\* A performance run is mistaken only where Mistakable says so, and even then it
\* reports how some simulation really ended.
OwnVerdict ==
  \A d \in Drivers : /\ verdict[d] = "Pass" => Reports(d, "passed")
                     /\ verdict[d] = "Fail" => Reports(d, "failed")

\* The tests administer the nodes with the key the nodes were started with:
\* whatever run created the secret, and with what key, it is not exchanged
\* between the start of the pods and the start of the job.  Only pods that the
\* operator started with its own key, for a network that outlived its secret
\* (see OperatorFindsSecret), may meet another one.
AdminKeyAgrees ==
  podKey # OperatorKey => \A d \in Drivers : jobs[d] = "running" => jobKey[d] = podKey

\* "If it is missing, create the admin secret" (tester.rs:150): the secret of a
\* run stays as it is until the namespace goes, also where a TTL runs out in the
\* middle of a run.  (The operator's, which it may create between the test and
\* the creation of the next run, is overwritten.)
SecretKept == [][(secret \in Keys) => secret' \in {secret, None}]_vars

\* "instead of ... having the Keramik operator in turn create one"
\* (tester.rs:150-153): the operator always finds the secret of a run, unless
\* the network's TTL ran out in the middle of one.
OperatorFindsSecret == disturbed = {} => podKey # OperatorKey

\* A job that has not ended finds everything its pod refers to, what the run
\* applies and the network for which the operator makes the rest (the peers'
\* config map): killed runs and re-runs leave no job without its service account,
\* scripts or services, and only a TTL that runs out in the middle of its own run
\* does.
JobHasDependencies ==
  \A d \in Drivers \ disturbed : jobs[d] \in {"pending", "running"} =>
    namespace /\ secret # None /\ network # None /\ Dependencies \subseteq applied

\* A run that is started and not killed comes to an end, also when its job or
\* its network disappear while it waits.
RunsEnd == \A d \in Drivers : pc[d] = "namespace" ~> pc[d] = "ended"
=============================================================================
