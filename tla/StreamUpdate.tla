---------------------------- MODULE StreamUpdate ----------------------------
(***************************************************************************)
(* A test job of the hermetic driver: the init script, then the suite's    *)
(* update test (suite/src/__tests__/correctness/fast/update.test.ts) with  *)
(* the environment the script wrote.                                       *)
(*                                                                         *)
(* Every node is the first node of one group of tests, which creates a     *)
(* stream there and, for each further node, loads it, updates it on the    *)
(* first node and waits until the further node has the update.  Only the   *)
(* last update asks for an anchor, and a record of it is then stored for   *)
(* the anchor test (AnchorRequests).  Jest runs a test although one before *)
(* it has failed, and no test when beforeAll has.                          *)
(*                                                                         *)
(* A stream is named by its first node, its content by its step.           *)
(***************************************************************************)
EXTENDS InitScript, Integers, Functions

CONSTANT
  FaultSets   \* the sets of faults to consider, of the AllFaults below

\* late: peers join while the job runs; unreadable: the file cannot be read at
\* first; slow: nodes and tables are slower than the timeouts; refused: any
\* request may be refused.
AllFaults == {"late", "unreadable", "slow", "refused"}

ASSUME StreamUpdateAssumption == FaultSets \subseteq SUBSET AllFaults

VARIABLES
  faults,    \* what may happen to this job
  table,     \* the DynamoDB table: "absent", "creating", "active"
  suite,     \* what the suite is about to do, "init" before it starts
  group,     \* the group of tests that runs
  idx,       \* the position of the node under test in its order
  doc,       \* the step of the document the suite loaded from it
  held,      \* held[s][n]: the step of stream s that node n has
  indexed,   \* the nodes that index the model
  anchored,  \* streams an anchor has been requested for
  stored,    \* streams a record has been stored for
  failed     \* whether a test has failed

testVars == <<group, idx, doc, failed>>
nodeVars == <<held, indexed, anchored, stored>>
suiteVars == <<table, suite, testVars, nodeVars>>
vars == <<faults, peerVars, scriptVars, suiteVars>>

Absent == -1

BeforeAll == {"describe", "createTable", "checkSeeds", "createModel", "loadModel",
              "startIndexing", "waitIndexed"}
LoadTest == {"load", "waitLoad", "compareLoad"}
SyncTest == {"replace", "waitSync", "compareSync", "store"}
Tests == {"create", "update"} \cup LoadTest \cup SyncTest

Init ==
  /\ faults \in FaultSets
  /\ readable = ("unreadable" \notin faults)
  /\ IF "late" \in faults THEN peers \in SUBSET (Nodes \cup Others) ELSE peers = Nodes \cup Others
  /\ ScriptInit
  /\ table = "absent"
  /\ suite = "init"
  /\ group = 1 /\ idx = 1
  /\ doc = Absent
  /\ held = [s \in Nodes |-> [n \in Nodes |-> Absent]]
  /\ indexed = {}
  /\ anchored = {} /\ stored = {}
  /\ failed = FALSE

-----------------------------------------------------------------------------
(* beforeAll                                                               *)

\* An empty string splits into one, empty, element.
Length(seq) == IF seq = <<>> THEN 1 ELSE Len(seq)
SeedCount == IF env.seeds = 0 THEN 1 ELSE env.seeds

GoTo(next) ==
  /\ suite' = next
  /\ UNCHANGED <<table, testVars, nodeVars>>

End(how) ==
  /\ suite' = "ended"
  /\ failed' = how
  /\ UNCHANGED <<table, group, idx, doc, nodeVars>>

\* The job has no second try: backoff_limit is zero.
StartSuite ==
  /\ suite = "init"
  /\ \/ script = "done" /\ GoTo("describe")
     \/ script = "failed" /\ End(TRUE)

\* createTestTable: a request that fails, for whatever reason, leads to the
\* other one, and only an ACTIVE table out of the loop.
DescribeTable ==
  /\ suite = "describe"
  /\ GoTo(CASE table = "active"   -> "checkSeeds"
            [] table = "creating" -> "describe"
            [] table = "absent"   -> "createTable")

CreateTable ==
  /\ suite = "createTable"
  /\ table' = IF table = "absent" THEN "creating" ELSE table
  /\ suite' = "describe"
  /\ UNCHANGED <<testVars, nodeVars>>

CheckSeeds ==
  /\ suite = "checkSeeds"
  /\ IF SeedCount < Length(env.urls) THEN End(TRUE) ELSE GoTo("createModel")

CreateModel ==
  /\ suite = "createModel"
  /\ IF env.urls = <<>> THEN End(TRUE) ELSE GoTo("loadModel")

LoadModel ==
  /\ suite = "loadModel"
  /\ GoTo("startIndexing")

\* The model is indexed on one node after the other; a node takes admin requests
\* from the DID of the seed only, and an empty seed makes a random DID.
StartIndexing ==
  /\ suite = "startIndexing"
  /\ IF idx <= env.seeds
     THEN /\ indexed' = indexed \cup {env.urls[idx]}
          /\ suite' = "waitIndexed"
          /\ UNCHANGED <<table, testVars, held, anchored, stored>>
     ELSE End(TRUE)

\* Mutant of WaitForIndexing: the nodes after the first are forgotten.
IndexFirstNode ==
  /\ suite = "waitIndexed"
  /\ env.urls[idx] \in indexed
  /\ suite' = "create" /\ idx' = 1
  /\ UNCHANGED <<table, group, doc, failed, nodeVars>>

WaitForIndexing ==
  /\ suite = "waitIndexed"
  /\ env.urls[idx] \in indexed
  /\ IF idx < Len(env.urls)
     THEN suite' = "loadModel" /\ idx' = idx + 1
     ELSE suite' = "create" /\ idx' = 1
  /\ UNCHANGED <<table, group, doc, failed, nodeVars>>

-----------------------------------------------------------------------------
(* The tests.                                                              *)

generateUrlCombinations(urls) ==
  [i \in 1..Len(urls) |-> SubSeq(urls, i, Len(urls)) \o SubSeq(urls, 1, i - 1)]

Order == generateUrlCombinations(env.urls)[group]
First == Order[1]
Node == Order[idx]
IsFinalWriter == idx = Len(env.urls)

\* content.step: it is incremented first, whether or not the update succeeds.
Step ==
  CASE suite = "create"    -> 0
    [] suite \in LoadTest  -> idx - 1
    [] OTHER               -> idx

\* firstDocument is undefined when its creation has failed.
Created == held[First][First] # Absent

Move(next, g, i) == suite' = next /\ group' = g /\ idx' = i

NextGroup ==
  IF group < Len(env.urls) THEN Move("create", group + 1, 1) ELSE Move("ended", group, idx)

\* Mutants of EndTest: one node too many; one too few.
EndTestLate(ok) ==
  /\ failed' = (failed \/ ~ok)
  /\ doc' = IF suite \in LoadTest THEN doc ELSE Absent
  /\ CASE suite = "create"   -> Move("update", group, idx)
       [] suite \in LoadTest -> Move("replace", group, idx)
       [] OTHER -> IF idx <= Len(env.urls) THEN Move("load", group, idx + 1) ELSE NextGroup

EndTestEarly(ok) ==
  /\ failed' = (failed \/ ~ok)
  /\ doc' = IF suite \in LoadTest THEN doc ELSE Absent
  /\ CASE suite = "create"   -> Move("update", group, idx)
       [] suite \in LoadTest -> Move("replace", group, idx)
       [] OTHER -> IF idx < Len(env.urls) - 1 THEN Move("load", group, idx + 1) ELSE NextGroup

\* The test ends and jest goes on to the next one.
EndTest(ok) ==
  /\ failed' = (failed \/ ~ok)
  /\ doc' = IF suite \in LoadTest THEN doc ELSE Absent
  /\ CASE suite = "create"   -> Move("update", group, idx)
       [] suite \in LoadTest -> Move("replace", group, idx)
       [] OTHER -> IF idx < Len(env.urls) THEN Move("load", group, idx + 1) ELSE NextGroup

Create ==
  /\ suite = "create"
  /\ held' = [held EXCEPT ![First][First] = 0]
  /\ EndTest(TRUE)
  /\ UNCHANGED <<table, indexed, anchored, stored>>

Update ==
  /\ suite = "update" /\ Created
  /\ held' = [held EXCEPT ![First][First] = Step]
  /\ EndTest(TRUE)
  /\ UNCHANGED <<table, indexed, anchored, stored>>

\* loadDocumentOrTimeout
Load ==
  /\ suite = "load" /\ Created
  /\ held[First][Node] # Absent
  /\ doc' = held[First][Node]
  /\ suite' = "waitLoad"
  /\ UNCHANGED <<table, group, idx, failed, nodeVars>>

\* Mutants of Replace: every update asks for an anchor; the record is stored
\* without waiting for the other node.
AnchorEveryUpdate ==
  /\ suite = "replace" /\ Created
  /\ held' = [held EXCEPT ![First][First] = Step]
  /\ anchored' = anchored \cup {First}
  /\ suite' = "waitSync"
  /\ UNCHANGED <<table, testVars, indexed, stored>>

StoreAtOnce ==
  /\ suite = "replace" /\ Created
  /\ held' = [held EXCEPT ![First][First] = Step]
  /\ anchored' = anchored \cup (IF IsFinalWriter THEN {First} ELSE {})
  /\ suite' = IF IsFinalWriter THEN "store" ELSE "waitSync"
  /\ UNCHANGED <<table, testVars, indexed, stored>>

Replace ==
  /\ suite = "replace" /\ Created
  /\ held' = [held EXCEPT ![First][First] = Step]
  /\ anchored' = anchored \cup (IF IsFinalWriter THEN {First} ELSE {})
  /\ suite' = "waitSync"
  /\ UNCHANGED <<table, testVars, indexed, stored>>

\* waitForCondition: at once if the document is there already, or when a poll
\* of the node shows the step.
WaitForCondition ==
  /\ suite \in {"waitLoad", "waitSync"}
  /\ doc # Absent
  /\ Step \in {doc, held[First][Node]}
  /\ doc' = Step
  /\ suite' = IF suite = "waitLoad" THEN "compareLoad" ELSE "compareSync"
  /\ UNCHANGED <<table, group, idx, failed, nodeVars>>

\* doc.sync, then expect: what the node has now.
Compare ==
  /\ suite \in {"compareLoad", "compareSync"}
  /\ IF held[First][Node] = Step /\ suite = "compareSync" /\ IsFinalWriter
     THEN suite' = "store" /\ UNCHANGED testVars
     ELSE EndTest(held[First][Node] = Step)
  /\ UNCHANGED <<table, nodeVars>>

StoreStreamReq ==
  /\ suite = "store"
  /\ stored' = stored \cup {First}
  /\ EndTest(TRUE)
  /\ UNCHANGED <<table, held, indexed, anchored>>

\* A test uses a document that an earlier one has failed to create or load.
Undefined ==
  /\ \/ suite \in {"update", "load", "replace"} /\ ~Created
     \/ suite = "waitSync" /\ doc = Absent
  /\ EndTest(FALSE)
  /\ UNCHANGED <<table, nodeVars>>

-----------------------------------------------------------------------------
(* What disturbs the suite.                                                *)

\* loadDocumentOrTimeout, waitForCondition and waitForIndexingOrTimeout throw:
\* nodes are slow, or the step that is waited for has not been written.
Timeout ==
  \/ "slow" \in faults /\ suite \in {"loadModel", "waitIndexed"} /\ End(TRUE)
  \/ /\ \/ suite \in {"load", "waitLoad", "waitSync"} /\ "slow" \in faults
        \/ suite \in {"waitLoad", "waitSync"} /\ held[First][First] # Step
     /\ EndTest(FALSE)
     /\ UNCHANGED <<table, nodeVars>>

\* Jest bounds beforeAll as a whole; nothing else bounds createTestTable.
HookTimeout ==
  /\ faults \cap {"slow", "refused"} # {}
  /\ suite \in BeforeAll
  /\ End(TRUE)

\* createTestTable swallows the errors of its requests and loads are tried
\* again; any other refusal ends the test, or beforeAll.
Refused ==
  /\ "refused" \in faults
  /\ \/ suite = "describe" /\ GoTo("createTable")
     \/ suite = "createTable" /\ GoTo("describe")
     \/ suite \in {"createModel", "startIndexing", "waitIndexed"} /\ End(TRUE)
     \/ /\ suite \in {"create", "update", "replace", "compareLoad", "compareSync", "store"}
        /\ EndTest(FALSE)
        /\ UNCHANGED <<table, nodeVars>>

\* Another run finds the table missing.
OtherRunCreates ==
  /\ table = "absent"
  /\ table' = "creating"
  /\ UNCHANGED <<suite, testVars, nodeVars>>

TableReady ==
  /\ table = "creating"
  /\ table' = "active"
  /\ UNCHANGED <<suite, testVars, nodeVars>>

\* A node that indexes the model follows the node that is written to.  Nobody
\* reads the streams of earlier groups again.
Propagate ==
  /\ suite \in Tests
  /\ \E n \in indexed :
       \E step \in (held[First][n] + 1)..held[First][First] :
         held' = [held EXCEPT ![First][n] = step]
  /\ UNCHANGED <<table, suite, testVars, indexed, anchored, stored>>

-----------------------------------------------------------------------------

Suite ==
  \/ StartSuite \/ DescribeTable \/ CreateTable \/ CheckSeeds \/ CreateModel
  \/ LoadModel \/ StartIndexing \/ WaitForIndexing
  \/ Create \/ Update \/ Load \/ Replace \/ WaitForCondition \/ Compare \/ StoreStreamReq
  \/ Undefined

Disturbance == Timeout \/ HookTimeout \/ Refused

Surroundings == OtherRunCreates \/ TableReady \/ Propagate

Next ==
  /\ UNCHANGED faults
  /\ \/ (PeerJoins \/ FileAppears) /\ UNCHANGED <<scriptVars, suiteVars>>
     \/ Script /\ UNCHANGED <<peerVars, suiteVars>>
     \/ (Suite \/ Disturbance \/ Surroundings) /\ UNCHANGED <<peerVars, scriptVars>>

Spec == Init /\ [][Next]_vars

\* The containers run, timers fire, and unless they are slow the table becomes
\* active and nodes follow.
Fairness ==
  /\ WF_vars(Script /\ UNCHANGED <<faults, peerVars, suiteVars>>)
  /\ WF_vars(Suite /\ UNCHANGED <<faults, peerVars, scriptVars>>)
  /\ WF_vars((Timeout \/ HookTimeout) /\ UNCHANGED <<faults, peerVars, scriptVars>>)
  /\ "slow" \notin faults =>
       WF_vars((TableReady \/ Propagate) /\ UNCHANGED <<faults, peerVars, scriptVars>>)

FairSpec == Spec /\ Fairness

-----------------------------------------------------------------------------
(* Properties.                                                             *)

Steps == -1..Cardinality(Nodes)

TypeOK ==
  /\ faults \in FaultSets
  /\ readable \in BOOLEAN
  /\ peers \subseteq Nodes \cup Others
  /\ script \in {"count", "ceramic", "composedb", "done", "failed"}
  /\ looks \in 0..Tries
  /\ counted \subseteq Nodes \cup Others
  /\ env \in [rust : Seq(Nodes), urls : Seq(Nodes), seeds : 0..Cardinality(Nodes \cup Others)]
  /\ table \in {"absent", "creating", "active"}
  /\ suite \in {"init", "ended"} \cup BeforeAll \cup Tests
  /\ group \in 1..Length(env.urls)
  /\ idx \in 1..Length(env.urls)
  /\ doc \in Steps
  /\ held \in [Nodes -> [Nodes -> Steps]]
  /\ indexed \subseteq Nodes
  /\ anchored \subseteq Nodes
  /\ stored \subseteq Nodes
  /\ failed \in BOOLEAN

\* A job that passes has tested every node the script counted, each as the first
\* one and as the follower of each other, up to its part of the last update:
\* an unreadable or growing peers file, missing seeds and failed set-ups never
\* make it pass with less (process-peers.sh, update.test.ts:29-50).
PassedIsThorough ==
  suite = "ended" /\ ~failed =>
    /\ env.urls # <<>>
    /\ counted \cap Nodes \subseteq Range(env.urls)
    /\ Range(env.urls) \subseteq indexed
    /\ table = "active"
    /\ \A g, i \in 1..Len(env.urls) :
         LET first == env.urls[g]
             follower == env.urls[1 + ((g + i - 2) % Len(env.urls))]
         IN held[first][follower] >= i

\* A record is stored only for a stream that an anchor was requested for and
\* whose last update the last follower has: the anchor test of a later run is
\* not sent after a stream that was never finished (update.test.ts:125-138).
StoredIsFinished ==
  \A s \in stored :
    /\ s \in anchored
    /\ \E n \in Nodes \ {s} : held[s][n] = Len(env.urls)

\* "Only anchor on the final write to avoid writes conflicting with anchors"
\* (update.test.ts:119): once an anchor is requested, the stream is not written.
NoWriteAfterAnchor ==
  [][\A s \in anchored : held'[s][s] = held[s][s]]_vars

Streams ==
  INSTANCE AnchoredStream WITH
    Versions <- 0..Cardinality(Nodes), asked <- anchored, recorded <- stored

\* Whatever is refused, late or in vain, the streams of the job are written on
\* one node with new content each time, never after the anchor request, and a
\* record is stored when another node has that last write: failed writes and
\* tests that go on after one do not write the same content twice, overtake the
\* anchor or leave a record of an unfinished stream (update.test.ts:53-140).
ImplementsStream == Streams!Spec

\* The job comes to an end, whatever disturbs it, and passes if nothing does.
Concludes == <>(suite = "ended" /\ (faults = {} => ~failed))
=============================================================================
