------------------------- MODULE HermeticKeyProofs --------------------------
(***************************************************************************)
(* HermeticDriver for any number of runs, keys, network files and TTLs:    *)
(* the admin key and the end of a run.                                      *)
(***************************************************************************)
EXTENDS HermeticDriver, TLAPS

-----------------------------------------------------------------------------
(* The inductive invariants.                                               *)

\* The requests before which a run has not seen to the secret.
BeforeSecret == {"namespace", "isSecretMissing", "createSecret"}

OneAtATime == Sequential => \A d, e \in Drivers : Active(d) /\ Active(e) => d = e

\* While no TTL has cut a run short there is a secret wherever a run is past its
\* creation and wherever there is a network; so the operator never makes one.
SecretFound ==
  disturbed = {} =>
    /\ \A d \in Drivers : pc[d] \in Requests \ BeforeSecret => secret # None
    /\ network # None => secret # None
    /\ secret # OperatorKey /\ podKey # OperatorKey

\* Pods are of a network, and have a key.
PodsHaveKey ==
  /\ deployed # None => network # None /\ podKey # None
  /\ podKey # None => deployed # None

Unended == {"pending", "running"}

\* Between two runs that do not overlap only the operator creates a secret: what
\* was missing is missing when the run creates it, or the operator's, and no job
\* has begun without one; so the pods and the tests have the one there is.
KeyKept ==
  Sequential =>
    /\ \A d \in Drivers : pc[d] = "createSecret" =>
         secret \notin Keys /\ \A e \in Drivers : jobs[e] \notin Unended
    /\ \A d \in Drivers : pc[d] \in Requests \ BeforeSecret /\ namespace => secret # None
    /\ \A d \in Drivers : jobs[d] \in Unended => secret # None
    /\ \A d \in Drivers : jobs[d] = "running" => jobKey[d] = secret /\ podKey # None
    /\ podKey \in Keys => podKey = secret

KeyInv == TypeOK /\ OneAtATime /\ SecretFound /\ PodsHaveKey /\ KeyKept

LEMMA InitKeys == Init => KeyInv
<1> SUFFICES ASSUME Init PROVE KeyInv
  OBVIOUS
<1>1. /\ namespace \in BOOLEAN /\ ready \in BOOLEAN /\ shown \in BOOLEAN
      /\ flavor \in Flavors /\ simulation \in [Drivers -> Names]
      /\ pc = [d \in Drivers |-> "idle"] /\ verdict = [d \in Drivers |-> "none"]
      /\ secret = None /\ applied = {} /\ network = None
      /\ deployed = None /\ podKey = None
      /\ jobs = [d \in Drivers |-> "none"] /\ jobKey = [d \in Drivers |-> None]
      /\ owners = {} /\ manager = NoManager /\ past = {} /\ result = [d \in Drivers |-> "none"]
      /\ cleanups = 0 /\ disturbed = {}
  BY Zenon DEF Init
<1>2. TypeOK
  BY <1>1, HermeticDriverAssumption DEF TypeOK, JobStates, Phases, NoManager
<1>3. OneAtATime /\ SecretFound /\ PodsHaveKey /\ KeyKept
  BY <1>1, HermeticDriverAssumption
     DEF OneAtATime, Active, SecretFound, PodsHaveKey, KeyKept, Requests, Setup, Resources, Namespaced,
         ClusterScoped, Unended
<1> QED
  BY <1>2, <1>3 DEF KeyInv

-----------------------------------------------------------------------------
(* Types.                                                                  *)

\* Steps of a run that do not change the cluster.
Quiet(d) ==
  Start(d) \/ IsSecretMissing(d) \/ Sleep(d) \/ WaitForJob(d) \/ WaitForSimulation(d) \/ GiveUp(d)
    \/ RequestRefused(d) \/ RequestFails(d) \/ Crash(d)

\* They go on to a request that follows, or end.
LEMMA QuietSteps ==
  ASSUME TypeOK, NEW d \in Drivers, Quiet(d)
  PROVE  /\ UNCHANGED <<inputVars, secretVars, applied, networkVars, jobVars, simVars, result, cleanupVars>>
         /\ \E next \in {"namespace", "createSecret", "serviceAccount", "migrate", "ended"} :
              /\ pc' = [pc EXCEPT ![d] = next]
              /\ next = "namespace" => pc[d] = "idle" /\ (Sequential => \A e \in Drivers : ~Active(e))
              /\ next = "createSecret" => pc[d] = "isSecretMissing" /\ secret = None
              /\ next = "serviceAccount" => pc[d] = "isSecretMissing" /\ secret # None
              /\ next = "migrate" => pc[d] = "sleep"
         /\ verdict' \in [Drivers -> {"none", "Pass", "Fail", "Error", "Crash"}]
<1>1. CASE Start(d)
  BY <1>1 DEF Start, GoTo, End, TypeOK
<1>2. CASE IsSecretMissing(d)
  BY <1>2 DEF IsSecretMissing, GoTo, TypeOK
<1>3. CASE Sleep(d)
  BY <1>3 DEF Sleep, GoTo, TypeOK
<1>4. CASE WaitForJob(d) \/ WaitForSimulation(d) \/ GiveUp(d) \/ RequestRefused(d) \/ RequestFails(d)
           \/ Crash(d)
  <2>1. \E how \in {"Pass", "Fail", "Error", "Crash"} : End(d, how)
    BY <1>4 DEF WaitForJob, WaitForSimulation, GiveUp, RequestRefused, RequestFails, Crash
  <2>2. UNCHANGED <<inputVars, secretVars, applied, networkVars, jobVars, simVars, result, cleanupVars>>
    BY <1>4 DEF WaitForJob, WaitForSimulation, GiveUp, RequestRefused, RequestFails, Crash
  <2> QED
    BY <2>1, <2>2 DEF End, TypeOK
<1> QED
  BY <1>1, <1>2, <1>3, <1>4 DEF Quiet

LEMMA RunTypes ==
  ASSUME TypeOK, NEW d \in Drivers, Start(d) \/ Driver(d) \/ RequestFails(d) \/ Crash(d)
  PROVE  TypeOK'
<1> USE HermeticDriverAssumption
    DEF inputVars, secretVars, networkVars, jobVars, simVars, cleanupVars
<1>0. /\ {"namespace", "isSecretMissing", "createSecret", "serviceAccount", "migrate"} \subseteq Requests
      /\ {"processPeers", "create", "sleep", "waitJob", "waitSimulation"} \subseteq Requests
  BY DEF Requests, Setup, Resources, Namespaced
<1>1. CASE Quiet(d)
  <2>1. PICK next \in Requests \cup {"ended"} : pc' = [pc EXCEPT ![d] = next]
    BY <1>0, <1>1, QuietSteps
  <2> QED
    BY <1>1, <2>1, QuietSteps DEF TypeOK
<1>2. CASE ApplyNamespace(d) \/ CreateSecret(d)
  <2>1. namespace' \in BOOLEAN
    BY <1>2, Zenon DEF ApplyNamespace, CreateSecret, TypeOK
  <2>2. PICK next \in Requests : pc' = [pc EXCEPT ![d] = next]
    BY <1>0, <1>2, Zenon DEF ApplyNamespace, CreateSecret, GoTo
  <2>3. /\ secret' \in {secret, Key[d]}
        /\ UNCHANGED <<inputVars, verdict, applied, networkVars, jobVars, simVars, result, cleanupVars>>
    BY <1>2, Zenon DEF ApplyNamespace, CreateSecret, GoTo
  <2> QED
    BY <2>1, <2>2, <2>3 DEF TypeOK
<1>3. CASE ApplyResource(d)
  <2>1. After(pc[d]) \in Requests
    BY <1>3 DEF ApplyResource, After, Requests, Setup, Resources, Namespaced, ClusterScoped
  <2> QED
    BY <1>3, <2>1 DEF ApplyResource, GoTo, TypeOK
<1>4. CASE ApplyNetwork(d) \/ ApplyMigration(d)
  <2>1. PICK next \in Requests : pc' = [pc EXCEPT ![d] = next]
    BY <1>0, <1>4, Zenon DEF ApplyNetwork, ApplyMigration, GoTo
  <2>2. network' \in {Spec0[d], Spec1[d]}
    BY <1>4 DEF ApplyNetwork, ApplyMigration, SetSpec
  <2>3. UNCHANGED <<inputVars, verdict, secretVars, applied, deployed, podKey, ready, shown, jobVars,
                    simVars, result, cleanupVars>>
    BY <1>4, Zenon DEF ApplyNetwork, ApplyMigration, SetSpec, GoTo
  <2> QED
    BY <2>1, <2>2, <2>3 DEF TypeOK
<1>5. CASE WaitForNetwork(d)
  BY <1>0, <1>5 DEF WaitForNetwork, GoTo, TypeOK
<1>6. CASE CreateJob(d) \/ CreateSimulation(d)
  <2>1. PICK next \in Requests : pc' = [pc EXCEPT ![d] = next]
    BY <1>0, <1>6, Zenon DEF CreateJob, CreateSimulation, GoTo
  <2>2. /\ jobs' \in {jobs, [jobs EXCEPT ![d] = "pending"]} /\ owners' \in {owners, owners \cup {d}}
        /\ UNCHANGED <<inputVars, verdict, secretVars, applied, networkVars, jobKey, manager, past, result,
                       cleanupVars>>
    BY <1>6, Zenon DEF CreateJob, CreateSimulation, GoTo
  <2> QED
    BY <2>1, <2>2 DEF TypeOK, JobStates
<1> QED
  BY <1>1, <1>2, <1>3, <1>4, <1>5, <1>6 DEF Driver, Quiet

LEMMA ClusterTypes == TypeOK /\ Cluster => TypeOK'
<1> SUFFICES ASSUME TypeOK, Cluster PROVE TypeOK'
  OBVIOUS
<1> USE HermeticDriverAssumption
    DEF inputVars, driverVars, secretVars, networkVars, jobVars, simVars, cleanupVars
<1>1. CASE Reconcile \/ ReplicasChange
  <2>1. namespace' \in BOOLEAN /\ ready' \in BOOLEAN /\ shown' \in BOOLEAN
    BY <1>1, Zenon DEF Reconcile, ReplicasChange, TypeOK
  <2>2. /\ secret' \in {secret, OperatorKey} /\ deployed' \in {deployed, network}
        /\ podKey' \in {podKey, secret'}
        /\ UNCHANGED <<inputVars, driverVars, applied, network, jobVars, simVars, result, cleanupVars>>
    BY <1>1, Zenon DEF Reconcile, ReplicasChange
  <2> QED
    BY <2>1, <2>2 DEF TypeOK
<1>2. CASE EndManager
  <2>1. PICK how \in {"passed", "failed"} :
          /\ manager' = [manager EXCEPT !.phase = IF how = "passed" THEN "Succeeded" ELSE "Failed"]
          /\ result' = [result EXCEPT ![manager.owner] = how]
    BY <1>2 DEF EndManager
  <2>2. manager' \in [owner : Drivers \cup {None}, phase : Phases]
    BY <2>1 DEF TypeOK, Phases
  <2>3. result' \in [Drivers -> {"none", "passed", "failed"}]
    BY <2>1 DEF TypeOK
  <2> QED
    BY <1>2, <2>2, <2>3 DEF EndManager, TypeOK
<1>3. CASE Cleanup
  <2>1. namespace' \in BOOLEAN /\ ready' \in BOOLEAN /\ shown' \in BOOLEAN
    BY <1>3, Zenon DEF Cleanup, TypeOK
  <2>2. /\ cleanups < MaxCleanups /\ cleanups' = cleanups + 1
        /\ disturbed' = disturbed \cup {d \in Drivers : Active(d) /\ pc[d] # "namespace"}
        /\ secret' = None /\ applied' = applied \cap ClusterScoped
        /\ network' = None /\ deployed' = None /\ podKey' = None
        /\ jobs' = [d \in Drivers |-> IF jobs[d] = "none" THEN "none" ELSE "gone"]
        /\ owners' = {} /\ manager' = NoManager
        /\ past' = past \cup ({manager.phase} \cap {"Succeeded", "Failed"})
        /\ UNCHANGED <<inputVars, driverVars, jobKey, result>>
    BY <1>3, Zenon DEF Cleanup
  <2> QED
    BY <2>1, <2>2 DEF TypeOK, JobStates, Phases, NoManager
<1>4. ASSUME NEW d \in Drivers, StartJob(d) \/ EndJob(d) \/ ExpireJob(d) PROVE TypeOK'
  <2>1. CASE StartJob(d)
    BY <2>1 DEF StartJob, TypeOK, JobStates
  <2>2. CASE EndJob(d)
    BY <2>2 DEF EndJob, TypeOK, JobStates
  <2>3. CASE ExpireJob(d)
    BY <2>3 DEF ExpireJob, TypeOK, JobStates
  <2> QED
    BY <1>4, <2>1, <2>2, <2>3
<1>5. ASSUME NEW d \in Drivers, StartManager(d) PROVE TypeOK'
  BY <1>5 DEF StartManager, TypeOK, Phases
<1> QED
  BY <1>1, <1>2, <1>3, <1>4, <1>5 DEF Cluster

LEMMA TypesKept == TypeOK /\ [Next]_vars => TypeOK'
<1>1. TypeOK /\ UNCHANGED vars => TypeOK'
  BY DEF vars, inputVars, driverVars, secretVars, networkVars, jobVars, simVars, cleanupVars, TypeOK
<1> QED
  BY <1>1, RunTypes, ClusterTypes DEF Next

-----------------------------------------------------------------------------
(* The key.                                                                *)

\* A run goes on to a request while it is the active one, or starts alone.
LEMMA RunsAlone ==
  ASSUME KeyInv, NEW d \in Drivers, NEW next \in Requests \cup {"ended"},
         pc' = [pc EXCEPT ![d] = next],
         Sequential /\ next # "ended" => Active(d) \/ \A e \in Drivers : ~Active(e)
  PROVE  OneAtATime'
<1> "ended" \notin Requests
  BY DEF Requests, Setup, Resources, Namespaced, ClusterScoped
<1> QED
  BY DEF KeyInv, TypeOK, OneAtATime, Active

LEMMA RunKeys ==
  ASSUME KeyInv, NEW d \in Drivers, Start(d) \/ Driver(d) \/ RequestFails(d) \/ Crash(d)
  PROVE  KeyInv'
<1> USE DEF KeyInv, inputVars, secretVars, networkVars, jobVars, simVars, cleanupVars
<1>0. /\ TypeOK'
      /\ {"namespace", "createSecret", "serviceAccount", "migrate"} \subseteq Requests
      /\ "ended" \notin Requests
      /\ "isSecretMissing" \in Requests /\ "sleep" \in Requests
  BY RunTypes DEF Requests, Setup, Resources, Namespaced, ClusterScoped
<1>1. CASE Quiet(d)
  <2>1. PICK next \in {"namespace", "createSecret", "serviceAccount", "migrate", "ended"} :
          /\ pc' = [pc EXCEPT ![d] = next]
          /\ next = "namespace" => pc[d] = "idle" /\ (Sequential => \A e \in Drivers : ~Active(e))
          /\ next = "createSecret" => pc[d] = "isSecretMissing" /\ secret = None
          /\ next = "serviceAccount" => pc[d] = "isSecretMissing" /\ secret # None
          /\ next = "migrate" => pc[d] = "sleep"
    BY <1>1, QuietSteps
  <2>2. UNCHANGED <<namespace, secret, network, deployed, podKey, jobs, jobKey, disturbed>>
    BY <1>1, QuietSteps
  <2>3. OneAtATime'
    BY <1>0, <2>1, RunsAlone DEF Active
  <2>4. SecretFound' /\ PodsHaveKey'
    BY <1>0, <2>1, <2>2 DEF SecretFound, PodsHaveKey, BeforeSecret, TypeOK
  <2>5. KeyKept'
    BY <1>0, <2>1, <2>2, HermeticDriverAssumption DEF KeyKept, TypeOK, BeforeSecret
  <2> QED
    BY <1>0, <2>3, <2>4, <2>5
<1>2. CASE CreateSecret(d)
  <2>1. /\ pc[d] = "createSecret" /\ secret' = Key[d] /\ pc' = [pc EXCEPT ![d] = "serviceAccount"]
        /\ UNCHANGED <<namespace, network, deployed, podKey, jobs, jobKey, disturbed>>
    BY <1>2 DEF CreateSecret, GoTo
  <2>2. Key[d] \in Keys /\ Key[d] # None /\ Key[d] # OperatorKey
    BY HermeticDriverAssumption
  <2>3. "createSecret" \in Requests /\ Active(d)
    BY <1>0, <2>1 DEF Active
  <2>4. OneAtATime'
    BY <1>0, <2>1, <2>3, RunsAlone
  <2>5. SecretFound' /\ PodsHaveKey'
    BY <2>1, <2>2 DEF SecretFound, PodsHaveKey, TypeOK
  <2>6. KeyKept'
    <3> SUFFICES ASSUME Sequential
        PROVE  /\ \A e \in Drivers : pc'[e] # "createSecret"
               /\ podKey \notin Keys /\ \A e \in Drivers : jobs[e] \notin Unended
      BY <2>1, <2>2 DEF KeyKept, Unended
    <3>1. ASSUME NEW e \in Drivers, e # d PROVE pc[e] # "createSecret"
      BY <2>3, <3>1 DEF OneAtATime, Active
    <3>2. secret \notin Keys /\ \A e \in Drivers : jobs[e] \notin Unended
      BY <2>1 DEF KeyKept
    <3> QED
      BY <2>1, <3>1, <3>2 DEF KeyKept, TypeOK
  <2> QED
    BY <1>0, <2>4, <2>5, <2>6
<1>3. CASE ApplyNamespace(d) \/ ApplyResource(d) \/ WaitForNetwork(d) \/ CreateSimulation(d)
  <2>1. PICK next \in Requests \ {"createSecret"} :
          /\ pc' = [pc EXCEPT ![d] = next] /\ Active(d)
          /\ next \in BeforeSecret \/ pc[d] \notin BeforeSecret
    BY <1>3 DEF ApplyNamespace, ApplyResource, WaitForNetwork, CreateSimulation, GoTo, After, Active,
                BeforeSecret, Requests, Setup, Resources, Namespaced, ClusterScoped
  <2>2. UNCHANGED <<secret, network, deployed, podKey, jobs, jobKey, disturbed>>
    BY <1>3 DEF ApplyNamespace, ApplyResource, WaitForNetwork, CreateSimulation
  <2>3. OneAtATime'
    BY <2>1, RunsAlone
  <2>4. SecretFound' /\ PodsHaveKey'
    BY <2>1, <2>2 DEF SecretFound, PodsHaveKey, TypeOK, Active
  <2>5. Sequential /\ namespace' /\ ~namespace =>
          \A e \in Drivers : pc'[e] \notin Requests \ BeforeSecret
    <3> SUFFICES ASSUME Sequential, namespace', ~namespace, NEW e \in Drivers,
                        pc'[e] \in Requests \ BeforeSecret
                 PROVE  FALSE
      OBVIOUS
    <3>1. ApplyNamespace(d)
      BY <1>3 DEF ApplyResource, WaitForNetwork, CreateSimulation
    <3>2. pc'[d] \in BeforeSecret
      BY <3>1 DEF ApplyNamespace, GoTo, BeforeSecret, TypeOK
    <3>3. e # d /\ Active(e)
      BY <2>1, <3>2 DEF TypeOK, Active
    <3> QED
      BY <2>1, <3>3 DEF OneAtATime
  <2>6. KeyKept'
    BY <2>1, <2>2, <2>5 DEF KeyKept, TypeOK, Active
  <2> QED
    BY <1>0, <2>3, <2>4, <2>6
<1>4. CASE ApplyNetwork(d) \/ ApplyMigration(d)
  <2>1. PICK next \in Requests \ BeforeSecret : pc' = [pc EXCEPT ![d] = next]
    BY <1>4 DEF ApplyNetwork, ApplyMigration, GoTo, BeforeSecret, Requests, Setup, Resources, Namespaced
  <2>2. Active(d) /\ pc[d] \in Requests \ BeforeSecret
    BY <1>4 DEF ApplyNetwork, ApplyMigration, Active, BeforeSecret, Requests, Setup
  <2>3. /\ UNCHANGED <<namespace, secret, deployed, podKey, jobs, jobKey, disturbed>>
        /\ network' # None
    BY <1>4, HermeticDriverAssumption DEF ApplyNetwork, ApplyMigration, SetSpec
  <2>4. OneAtATime'
    BY <2>1, <2>2, RunsAlone
  <2>5. SecretFound' /\ PodsHaveKey' /\ KeyKept'
    BY <2>1, <2>2, <2>3 DEF SecretFound, PodsHaveKey, KeyKept, TypeOK, BeforeSecret
  <2> QED
    BY <1>0, <2>4, <2>5
<1>5. CASE CreateJob(d)
  <2>0. {"sleep", "waitJob"} \subseteq Requests \ BeforeSecret
    BY DEF BeforeSecret, Requests
  <2>1. PICK next \in Requests \ BeforeSecret : pc' = [pc EXCEPT ![d] = next]
    BY <1>5, <2>0, Zenon DEF CreateJob, GoTo
  <2>2. Active(d) /\ pc[d] \in Requests \ BeforeSecret
    BY <1>5 DEF CreateJob, Active, BeforeSecret, Requests, Setup
  <2>3. /\ jobs' = [jobs EXCEPT ![d] = "pending"] /\ namespace
        /\ UNCHANGED <<namespace, secret, network, deployed, podKey, jobKey, disturbed>>
    BY <1>5 DEF CreateJob
  <2>4. OneAtATime'
    BY <2>1, <2>2, RunsAlone
  <2>5. SecretFound' /\ PodsHaveKey'
    BY <2>1, <2>2, <2>3 DEF SecretFound, PodsHaveKey, TypeOK, BeforeSecret
  <2>6. KeyKept'
    <3> SUFFICES ASSUME Sequential PROVE KeyKept'
      BY DEF KeyKept
    <3>1. \A e \in Drivers : pc'[e] # "createSecret"
      BY <2>1, <2>2 DEF OneAtATime, Active, TypeOK, BeforeSecret, Requests, Setup
    <3>2. secret # None
      BY <2>2, <2>3 DEF KeyKept
    <3> QED
      BY <2>3, <3>1, <3>2 DEF KeyKept, TypeOK, Unended
  <2> QED
    BY <1>0, <2>4, <2>5, <2>6
<1> QED
  BY <1>1, <1>2, <1>3, <1>4, <1>5 DEF Driver, Quiet

LEMMA ClusterKeys == KeyInv /\ Cluster => KeyInv'
<1> SUFFICES ASSUME KeyInv, Cluster PROVE KeyInv'
  OBVIOUS
<1> USE DEF KeyInv, inputVars, driverVars, secretVars, networkVars, jobVars, simVars, cleanupVars
<1>0. TypeOK'
  BY ClusterTypes
<1>1. CASE Reconcile
  <2>1. /\ network # None /\ UNCHANGED <<pc, network, jobs, jobKey, disturbed>>
        /\ namespace' = TRUE
        /\ secret' = (IF secret = None THEN OperatorKey ELSE secret)
        /\ deployed' = network /\ podKey' = secret'
    BY <1>1 DEF Reconcile
  <2>2. secret' # None
    BY <2>1, HermeticDriverAssumption
  <2>3. disturbed = {} => secret' = secret
    BY <2>1 DEF SecretFound
  <2>4. OneAtATime' /\ SecretFound' /\ PodsHaveKey'
    BY <2>1, <2>2, <2>3 DEF OneAtATime, Active, SecretFound, PodsHaveKey
  <2>5. KeyKept'
    BY <2>1, <2>2, HermeticDriverAssumption DEF KeyKept, Unended
  <2> QED
    BY <1>0, <2>4, <2>5
<1>2. CASE Cleanup
  <2>1. /\ UNCHANGED <<pc, jobKey>> /\ namespace' = FALSE /\ secret' = None /\ network' = None /\ deployed' = None /\ podKey' = None
        /\ disturbed' = disturbed \cup {d \in Drivers : Active(d) /\ pc[d] # "namespace"}
        /\ \A d \in Drivers : jobs'[d] \notin Unended
    BY <1>2 DEF Cleanup, Unended
  <2>2. disturbed' = {} => \A d \in Drivers : pc[d] \in Requests => pc[d] = "namespace"
    BY <2>1 DEF Active
  <2>3. OneAtATime' /\ SecretFound' /\ PodsHaveKey'
    BY <2>1, <2>2, HermeticDriverAssumption DEF OneAtATime, Active, SecretFound, PodsHaveKey, BeforeSecret
  <2>4. KeyKept'
    BY <2>1, HermeticDriverAssumption DEF KeyKept, Unended
  <2> QED
    BY <1>0, <2>3, <2>4
<1>3. ASSUME NEW d \in Drivers, StartJob(d) PROVE KeyInv'
  <2>1. /\ deployed # None /\ jobKey' = [jobKey EXCEPT ![d] = secret]
        /\ jobs' = [jobs EXCEPT ![d] = "running"] /\ jobs[d] = "pending"
        /\ UNCHANGED <<pc, namespace, secret, network, deployed, podKey, disturbed>>
    BY <1>3 DEF StartJob
  <2>2. OneAtATime' /\ SecretFound' /\ PodsHaveKey'
    BY <2>1 DEF OneAtATime, Active, SecretFound, PodsHaveKey
  <2>3. KeyKept'
    BY <2>1 DEF KeyKept, PodsHaveKey, TypeOK, Unended
  <2> QED
    BY <1>0, <2>2, <2>3
<1>4. CASE ReplicasChange \/ EndManager \/ \E d \in Drivers : EndJob(d) \/ ExpireJob(d) \/ StartManager(d)
  <2>1. /\ UNCHANGED <<pc, namespace, secret, network, deployed, podKey, jobKey, disturbed>>
        /\ \A d \in Drivers : jobs'[d] \in Unended => jobs'[d] = jobs[d]
    BY <1>4 DEF ReplicasChange, EndManager, EndJob, ExpireJob, StartManager, TypeOK, Unended
  <2>2. OneAtATime' /\ SecretFound' /\ PodsHaveKey'
    BY <2>1 DEF OneAtATime, Active, SecretFound, PodsHaveKey
  <2>3. KeyKept'
    BY <2>1 DEF KeyKept, Unended
  <2> QED
    BY <1>0, <2>2, <2>3
<1> QED
  BY <1>1, <1>2, <1>3, <1>4 DEF Cluster

LEMMA KeyInvariant == Spec => []KeyInv
<1>1. KeyInv /\ UNCHANGED vars => KeyInv'
  <2>1. KeyInv /\ UNCHANGED vars => TypeOK'
    BY TypesKept DEF KeyInv
  <2> QED
    BY <2>1 DEF vars, driverVars, secretVars, networkVars, jobVars, cleanupVars, KeyInv, OneAtATime, Active,
                SecretFound, PodsHaveKey, KeyKept
<1>2. KeyInv /\ [Next]_vars => KeyInv'
  BY <1>1, RunKeys, ClusterKeys DEF Next
<1> QED
  BY InitKeys, <1>2, PTL DEF Spec

\* The variables keep their types, whatever runs are started, killed and refused.
THEOREM TypeCorrect == Spec => []TypeOK
BY KeyInvariant, PTL DEF KeyInv

\* While no TTL has cut a run short the operator never has to make a secret,
\* however runs overlap.
THEOREM OperatorFindsSecrets == Spec => []OperatorFindsSecret
<1>1. KeyInv => OperatorFindsSecret
  BY DEF KeyInv, SecretFound, OperatorFindsSecret
<1> QED
  BY <1>1, KeyInvariant, PTL

\* Runs one after the other, however many have been killed or cut short by a TTL:
\* the tests have the key of the pods, unless the operator gave the pods its own.
THEOREM KeysAgree == ASSUME Sequential PROVE Spec => []AdminKeyAgrees
<1>1. KeyInv => AdminKeyAgrees
  BY DEF KeyInv, KeyKept, AdminKeyAgrees, TypeOK
<1> QED
  BY <1>1, KeyInvariant, PTL

\* Runs one after the other, killed or cut short by a TTL anywhere, never exchange
\* the secret of a run that is there.
THEOREM SecretsAreKept == ASSUME Sequential PROVE Spec => SecretKept
<1>1. ASSUME KeyInv, Next, secret \in Keys PROVE secret' \in {secret, None}
  <2> USE DEF secretVars
  <2>1. ASSUME NEW d \in Drivers, Start(d) \/ Driver(d) \/ RequestFails(d) \/ Crash(d)
        PROVE  secret' \in {secret, None}
    <3>1. ~CreateSecret(d)
      BY <1>1 DEF CreateSecret, KeyInv, KeyKept
    <3> QED
      BY <2>1, <3>1
         DEF Start, Driver, RequestFails, Crash, ApplyNamespace, IsSecretMissing, ApplyResource, ApplyNetwork,
             WaitForNetwork, CreateJob, CreateSimulation, Sleep, ApplyMigration, WaitForJob,
             WaitForSimulation, GiveUp, RequestRefused
  <2>2. CASE Cluster
    BY <1>1, <2>2, HermeticDriverAssumption
       DEF Cluster, Reconcile, ReplicasChange, EndManager, Cleanup, StartJob, EndJob, ExpireJob, StartManager
  <2> QED
    BY <1>1, <2>1, <2>2 DEF Next
<1>2. KeyInv /\ [Next]_vars => [(secret \in Keys) => secret' \in {secret, None}]_vars
  BY <1>1
<1> QED
  BY <1>2, KeyInvariant, PTL DEF Spec, SecretKept

-----------------------------------------------------------------------------
(* Runs end: the part of RunsEnd that needs no fairness.                   *)

\* How many requests and waits a run may have to make, from this one on.
Left(request) ==
  CASE request = "idle"               -> 16
    [] request = "namespace"          -> 15
    [] request = "isSecretMissing"    -> 14
    [] request = "createSecret"       -> 13
    [] request = "serviceAccount"     -> 12
    [] request = "clusterRole"        -> 11
    [] request = "clusterRoleBinding" -> 10
    [] request = "network"            -> 9
    [] request = "processPeers"       -> 8
    [] request = "localstackSet"      -> 7
    [] request = "localstackService"  -> 6
    [] request = "waitNetwork"        -> 5
    [] request = "create"             -> 4
    [] request = "sleep"              -> 3
    [] request = "migrate"            -> 2
    [] request = "waitJob"            -> 1
    [] request = "waitSimulation"     -> 1
    [] request = "ended"              -> 0

\* A run makes no request twice and reports once: what it does takes it on, and
\* nothing that others do takes it back.
RunsGoOn ==
  [][\A d \in Drivers :
       /\ Driver(d) => Left(pc'[d]) < Left(pc[d])
       /\ pc'[d] # pc[d] => Left(pc'[d]) < Left(pc[d])
       /\ verdict'[d] # verdict[d] => pc[d] # "ended" /\ pc'[d] = "ended"]_vars

\* What a run may go on to from each of its requests.
LEMMA OwnSteps ==
  ASSUME TypeOK, NEW d \in Drivers,
         Start(d) \/ Driver(d) \/ RequestFails(d) \/ Crash(d)
  PROVE  /\ \A e \in Drivers \ {d} : pc'[e] = pc[e] /\ verdict'[e] = verdict[e]
         /\ Left(pc'[d]) < Left(pc[d])
         /\ verdict'[d] # verdict[d] => pc'[d] = "ended"
<1> USE DEF GoTo, End, TypeOK
<1>1. CASE Start(d) \/ RequestFails(d) \/ Crash(d)
  BY <1>1 DEF Start, RequestFails, Crash, Active, Left, Requests, Setup, Resources, Namespaced, ClusterScoped
<1>2. CASE ApplyNamespace(d) \/ IsSecretMissing(d) \/ CreateSecret(d) \/ ApplyNetwork(d)
             \/ WaitForNetwork(d) \/ CreateJob(d) \/ CreateSimulation(d) \/ Sleep(d) \/ ApplyMigration(d)
  BY <1>2 DEF ApplyNamespace, IsSecretMissing, CreateSecret, ApplyNetwork, WaitForNetwork, CreateJob,
              CreateSimulation, Sleep, ApplyMigration, Left
<1>3. CASE ApplyResource(d)
  BY <1>3 DEF ApplyResource, After, Left, Resources, Namespaced, ClusterScoped
<1>4. CASE WaitForJob(d) \/ WaitForSimulation(d) \/ GiveUp(d) \/ RequestRefused(d)
  BY <1>4 DEF WaitForJob, WaitForSimulation, GiveUp, RequestRefused, Left, Namespaced
<1> QED
  BY <1>1, <1>2, <1>3, <1>4 DEF Driver

\* For any number of runs that crash, are refused and lose what they set up to a
\* TTL: each makes at most fifteen requests and waits, and has one verdict.
THEOREM RunsAdvance == Spec => RunsGoOn
<1>1. TypeOK /\ Next =>
        \A d \in Drivers :
          /\ Driver(d) => Left(pc'[d]) < Left(pc[d])
          /\ pc'[d] # pc[d] => Left(pc'[d]) < Left(pc[d])
          /\ verdict'[d] # verdict[d] => pc[d] # "ended" /\ pc'[d] = "ended"
  <2> SUFFICES ASSUME TypeOK, Next, NEW d \in Drivers
               PROVE  /\ Driver(d) => Left(pc'[d]) < Left(pc[d])
                      /\ pc'[d] # pc[d] => Left(pc'[d]) < Left(pc[d])
                      /\ verdict'[d] # verdict[d] => pc[d] # "ended" /\ pc'[d] = "ended"
    OBVIOUS
  <2>1. CASE Cluster
    <3>1. UNCHANGED <<pc, verdict>>
      BY <2>1 DEF Cluster, Reconcile, ReplicasChange, EndManager, Cleanup, StartJob, EndJob, ExpireJob,
                  StartManager, driverVars
    <3>2. ~Driver(d)
      <4>1. ASSUME Driver(d) PROVE Left(pc'[d]) < Left(pc[d])
        BY <4>1, OwnSteps
      <4>2. Left(pc[d]) \in Nat
        BY DEF TypeOK, Left, Requests, Setup, Resources, Namespaced, ClusterScoped
      <4> QED
        BY <3>1, <4>1, <4>2
    <3> QED
      BY <3>1, <3>2
  <2>2. ASSUME NEW e \in Drivers, Start(e) \/ Driver(e) \/ RequestFails(e) \/ Crash(e)
        PROVE  /\ Driver(d) => Left(pc'[d]) < Left(pc[d])
               /\ pc'[d] # pc[d] => Left(pc'[d]) < Left(pc[d])
               /\ verdict'[d] # verdict[d] => pc[d] # "ended" /\ pc'[d] = "ended"
    <3>1. Driver(d) => Left(pc'[d]) < Left(pc[d])
      BY OwnSteps
    <3>2. pc[e] # "ended"
      BY <2>2 DEF Start, RequestFails, Crash, Active, Driver, ApplyNamespace, IsSecretMissing, CreateSecret,
         ApplyResource, ApplyNetwork, WaitForNetwork, CreateJob, CreateSimulation, Sleep, ApplyMigration,
         WaitForJob, WaitForSimulation, GiveUp, RequestRefused, Requests, Setup, Resources, Namespaced,
         ClusterScoped
    <3> QED
      BY <2>2, <3>1, <3>2, OwnSteps
  <2> QED
    BY <2>1, <2>2 DEF Next
<1> QED
  BY <1>1, TypeCorrect, PTL DEF Spec, RunsGoOn

=============================================================================
