---------------------------- MODULE MigrationTest ----------------------------
(***************************************************************************)
(* The migration test of suite/src/__tests__/migration, running in its Job *)
(* while the driver's `run` migrates the network it tests.                 *)
(*                                                                         *)
(* Three clocks decide what the test can see: the driver sleeps            *)
(* --migration-wait-secs from the creation of the Job, the test starts     *)
(* when its pod does, and jest gives it testTimeout from then on.          *)
(*                                                                         *)
(* One pod serves both URLs the test uses: rust-ceramic (CERAMIC_URLS[0])  *)
(* and js-ceramic (COMPOSEDB_URLS[0]).  What the operator does with it is  *)
(* outside src/.  A request of the test takes no time; what takes time are *)
(* the start of the pod, the anchors, the migration, the sleep, and the    *)
(* delays of the two polls that notice the migration.                      *)
(***************************************************************************)
EXTENDS Naturals

CONSTANTS
  Kinds,          \* kinds of events written
  WaitSecs,       \* --migration-wait-secs
  TestTimeout,    \* jest's testTimeout
  StartBounds,    \* bounds: when the test has started
  AnchorBounds,   \* bounds: how long an anchor takes
  MigrateBounds,  \* bounds: how long a migration takes, with the polls that notice it
  Faults          \* whether requests can get lost and the driver be killed

\* The order in which the kinds are read.
Position == [key |-> 1, cacao |-> 2, unsigned |-> 3]

ASSUME MigrationTestAssumption ==
  /\ Kinds \subseteq {"key", "cacao", "unsigned"}
  /\ WaitSecs \in Nat /\ TestTimeout \in Nat
  /\ StartBounds \subseteq Nat /\ AnchorBounds \subseteq Nat /\ MigrateBounds \subseteq Nat
  /\ Faults \subseteq BOOLEAN

VARIABLES
  env,        \* the bounds the environment keeps, and whether it has faults
  clock,      \* time since the Job was created
  driver,     \* "sleep", "waitJob" or "killed"
  target,     \* spec of the Network resource: "pre" or "post"
  pod,        \* the spec it runs, and which of its two servers answer
  stored,     \* stored[k]: the writes of kind k the node holds
  anchored,   \* anchored[k]: how many of them are anchored
  test,       \* the statement of the test that is awaited
  begun,      \* the time the test began
  version,    \* ceramicVersion: what getVersion returned at the start
  writer,     \* writer[k]: the statement awaited by the writes of kind k
  since,      \* since[k]: when the last write of kind k was made
  unread,     \* kinds still to be read
  \* history:
  writtenOn,  \* writtenOn[k]: the spec the last write of kind k was made on
  readOn,     \* the specs that reads were served by
  lost        \* kinds of which the migration dropped a write

podVars == <<target, pod>>
dataVars == <<stored, anchored, lost>>
testLocals == <<begun, version, writer, since, unread, writtenOn, readOn>>
testVars == <<test, testLocals>>
vars == <<env, clock, driver, podVars, dataVars, testVars>>

Undefined == "undefined"

Environments ==
  [start : StartBounds, anchor : AnchorBounds, migrate : MigrateBounds, faults : Faults]

Init ==
  /\ env \in Environments
  /\ clock = 0
  /\ driver = "sleep"
  /\ target = "pre"
  /\ pod = [spec |-> "pre", rust |-> TRUE, js |-> TRUE]
  /\ stored = [k \in Kinds |-> 0]
  /\ anchored = [k \in Kinds |-> 0]
  /\ test = "pending"
  /\ begun = 0
  /\ version = Undefined
  /\ writer = [k \in Kinds |-> "create"]
  /\ since = [k \in Kinds |-> 0]
  /\ unread = Kinds
  /\ writtenOn = [k \in Kinds |-> "none"]
  /\ readOn = {}
  /\ lost = {}

-----------------------------------------------------------------------------
(* The driver and the pod.                                                 *)

\* Mutant of Migrate: the migration is applied without the sleep.
MigrateAtOnce ==
  /\ driver = "sleep"
  /\ driver' = "waitJob"
  /\ target' = "post"
  /\ UNCHANGED <<env, clock, pod, dataVars, testVars>>

\* `sleep(wait_secs)`, then the migration network is applied.
Migrate ==
  /\ driver = "sleep"
  /\ clock >= WaitSecs
  /\ driver' = "waitJob"
  /\ target' = "post"
  /\ UNCHANGED <<env, clock, pod, dataVars, testVars>>

\* The driver dies in its sleep: there will be no migration.
DriverKilled ==
  /\ env.faults
  /\ driver = "sleep"
  /\ driver' = "killed"
  /\ UNCHANGED <<env, clock, podVars, dataVars, testVars>>

Serving == pod.rust /\ pod.js
Migrating == pod.spec # target \/ ~Serving

\* The operator replaces the pod: both servers go down together.
StopPod ==
  /\ pod.spec # target
  /\ Serving
  /\ pod' = [pod EXCEPT !.rust = FALSE, !.js = FALSE]
  /\ UNCHANGED <<env, clock, driver, target, dataVars, testVars>>

\* The migration command runs before rust-ceramic answers with its new version.
\* It may drop the last write of some kinds: that is what is being tested.
StartRust ==
  /\ ~pod.rust
  /\ pod' = [pod EXCEPT !.spec = target, !.rust = TRUE]
  /\ \E dropped \in SUBSET {k \in Kinds : stored[k] > 0} :
       /\ stored' = [k \in Kinds |-> IF k \in dropped THEN stored[k] - 1 ELSE stored[k]]
       /\ lost' = lost \cup dropped
  /\ UNCHANGED <<env, clock, driver, target, anchored, testVars>>

StartJs ==
  /\ ~pod.js
  /\ pod' = [pod EXCEPT !.js = TRUE]
  /\ UNCHANGED <<env, clock, driver, target, dataVars, testVars>>

AnchorPending(k) == anchored[k] < stored[k]

\* The anchor of the last write of kind k reaches the node.
AnchorArrives(k) ==
  /\ AnchorPending(k)
  /\ Serving
  /\ anchored' = [anchored EXCEPT ![k] = stored[k]]
  /\ UNCHANGED <<env, clock, driver, podVars, stored, lost, testVars>>

-----------------------------------------------------------------------------
(* The test.                                                               *)

GoTo(statement) ==
  /\ test' = statement
  /\ UNCHANGED <<env, clock, driver, podVars, dataVars, testLocals>>

Running == test \notin {"pending", "passed", "failed"}

StartTest ==
  /\ test = "pending"
  /\ test' = "version"
  /\ begun' = clock
  /\ UNCHANGED <<env, clock, driver, podVars, dataVars, version, writer, since, unread,
                 writtenOn, readOn>>

\* Mutant of Answers: getVersion returns the text of an error page.
AnswersErrors == (IF pod.rust THEN {pod.spec} ELSE {Undefined})
                   \cup (IF env.faults THEN {"error"} ELSE {})

\* What getVersion may return: it swallows every error.
Answers == (IF pod.rust THEN {pod.spec} ELSE {Undefined})
             \cup (IF env.faults THEN {Undefined} ELSE {})

\* ceramicVersion = await getVersion(ceramicUrls[0])
ReadVersion ==
  /\ test = "version"
  /\ version' \in Answers
  /\ test' = "createSingle"
  /\ UNCHANGED <<env, clock, driver, podVars, dataVars, begun, writer, since, unread,
                 writtenOn, readOn>>

ModelSteps == {"createSingle", "indexSingle", "createList", "indexList"}

\* Model.create of one of the two models.
CreateModel(now, next) ==
  /\ test = now
  /\ GoTo(IF Serving THEN next ELSE "failed")

\* indexModelOnNode.  Its first wait goes on when the node does not answer, until
\* its own timeout; the requests that follow fail.
IndexModel(now, next) ==
  /\ test = now
  /\ GoTo(IF Serving THEN next ELSE "failed")

CreateModels ==
  \/ CreateModel("createSingle", "indexSingle") \/ IndexModel("indexSingle", "createList")
  \/ CreateModel("createList", "indexList") \/ IndexModel("indexList", "write")

\* A request that writes: ModelInstanceDocument.create or doc.replace.
\* The node refuses an update of a document it does not hold.
Write(k, n, next) ==
  IF Serving /\ stored[k] = n - 1
  THEN /\ stored' = [stored EXCEPT ![k] = n]
       /\ writer' = [writer EXCEPT ![k] = next]
       /\ since' = [since EXCEPT ![k] = clock]
       /\ writtenOn' = [writtenOn EXCEPT ![k] = pod.spec]
       /\ UNCHANGED test
  ELSE /\ test' = "failed"
       /\ UNCHANGED <<stored, writer, since, writtenOn>>

Create(k) ==
  /\ test = "write" /\ writer[k] = "create"
  /\ Write(k, 1, "anchorInit")
  /\ UNCHANGED <<env, clock, driver, podVars, anchored, lost, begun, version, unread, readOn>>

AnchorSeen(k) ==
  /\ Serving
  /\ \/ writer[k] = "anchorInit" /\ anchored[k] = 1
     \/ writer[k] = "anchorData" /\ anchored[k] = 2

\* waitForAnchor, whose own timeout is longer than jest's.  The unsigned
\* document is not loaded in between.
AwaitAnchor(k) ==
  /\ test = "write" /\ AnchorSeen(k)
  /\ writer' = [writer EXCEPT ![k] = IF writer[k] = "anchorData" THEN "done"
                                     ELSE IF k = "unsigned" THEN "replace" ELSE "load"]
  /\ UNCHANGED <<env, clock, driver, podVars, dataVars, test, begun, version, since, unread,
                 writtenOn, readOn>>

\* ModelInstanceDocument.load, and the expectation on its content.
Load(k) ==
  /\ test = "write" /\ writer[k] = "load"
  /\ IF Serving /\ stored[k] = 1
     THEN /\ writer' = [writer EXCEPT ![k] = "replace"]
          /\ UNCHANGED test
     ELSE /\ test' = "failed"
          /\ UNCHANGED writer
  /\ UNCHANGED <<env, clock, driver, podVars, dataVars, begun, version, since, unread,
                 writtenOn, readOn>>

Replace(k) ==
  /\ test = "write" /\ writer[k] = "replace"
  /\ Write(k, 2, "anchorData")
  /\ UNCHANGED <<env, clock, driver, podVars, anchored, lost, begun, version, unread, readOn>>

WritersDone == \A k \in Kinds : writer[k] = "done"

\* Promise.all of the writers.
AllWritten ==
  /\ test = "write" /\ WritersDone
  /\ GoTo("change")

VersionChanged == \E v \in Answers : v # Undefined /\ v # version

\* Mutant of ChangeSeen: an undefined version counts as another version.
ChangeSeenUndefined ==
  /\ test = "change"
  /\ \E v \in Answers : v # version
  /\ GoTo("alive")

\* The loop of waitForVersionChange ends.  A pass that does not end it
\* changes nothing.
ChangeSeen ==
  /\ test = "change" /\ VersionChanged
  /\ GoTo("alive")

\* Mutant of AliveSeen: the test does not wait for js-ceramic.
AliveAssumed ==
  /\ test = "alive"
  /\ GoTo("read")

\* The loop of waitForNodeAlive ends.
AliveSeen ==
  /\ test = "alive"
  /\ pod.js
  /\ GoTo("read")

NextToRead(k) == k \in unread /\ \A j \in unread : Position[k] <= Position[j]

\* Mutant of Read: the content is not compared.
ReadAnything(k) ==
  /\ test = "read" /\ NextToRead(k)
  /\ IF Serving
     THEN /\ unread' = unread \ {k}
          /\ readOn' = readOn \cup {pod.spec}
          /\ UNCHANGED test
     ELSE /\ test' = "failed"
          /\ UNCHANGED <<unread, readOn>>
  /\ UNCHANGED <<env, clock, driver, podVars, dataVars, begun, version, writer, since, writtenOn>>

\* sync or load the next document, and compare its content with the last write.
Read(k) ==
  /\ test = "read" /\ NextToRead(k)
  /\ IF Serving /\ stored[k] = 2
     THEN /\ unread' = unread \ {k}
          /\ readOn' = readOn \cup {pod.spec}
          /\ UNCHANGED test
     ELSE /\ test' = "failed"
          /\ UNCHANGED <<unread, readOn>>
  /\ UNCHANGED <<env, clock, driver, podVars, dataVars, begun, version, writer, since, writtenOn>>

Pass ==
  /\ test = "read" /\ unread = {}
  /\ GoTo("passed")

\* A request outside the two polling loops is refused or lost.
RequestFails ==
  /\ env.faults
  /\ test \in ModelSteps \cup {"write", "read"}
  /\ GoTo("failed")

\* Mutant of TimesOut: no testTimeout.
NeverTimesOut == FALSE /\ UNCHANGED vars

\* jest's testTimeout.
TimesOut ==
  /\ Running
  /\ clock >= begun + TestTimeout
  /\ GoTo("failed")

-----------------------------------------------------------------------------
Step ==
  \/ ReadVersion \/ CreateModels \/ AllWritten \/ ChangeSeen \/ AliveSeen \/ Pass
  \/ \E k \in Kinds : Create(k) \/ AwaitAnchor(k) \/ Load(k) \/ Replace(k) \/ Read(k)

\* The bound on the migration is over, so what it changed is noticed by now: the
\* polls are five seconds apart.
NoticeDue == clock >= WaitSecs + env.migrate

\* Whether the test has a step to take, or waits for what takes time: an anchor,
\* the migration, the pod or the next poll.
CanStep ==
  \/ test \in {"version", "createSingle", "createList", "read"}
  \/ test \in {"indexSingle", "indexList"} /\ Serving
  \/ /\ test = "write"
     /\ \/ WritersDone
        \/ \E k \in Kinds : writer[k] \in {"create", "load", "replace"} \/ AnchorSeen(k)
  \/ test = "change" /\ VersionChanged /\ NoticeDue
  \/ test = "alive" /\ pod.js /\ NoticeDue

\* Timers fire when they are due, a step of the test that can be taken is
\* taken at once, and the bounds on what takes time are kept.
Tick ==
  /\ test \notin {"passed", "failed"}
  /\ test = "pending" => clock < env.start
  /\ Running => clock < begun + TestTimeout
  /\ driver = "sleep" => clock < WaitSecs
  /\ Migrating => clock < WaitSecs + env.migrate
  /\ \A k \in Kinds : AnchorPending(k) /\ Serving => clock < since[k] + env.anchor
  /\ ~CanStep
  /\ clock' = clock + 1
  /\ UNCHANGED <<env, driver, podVars, dataVars, testVars>>

Next ==
  \/ Migrate \/ DriverKilled \/ StopPod \/ StartRust \/ StartJs
  \/ \E k \in Kinds : AnchorArrives(k)
  \/ StartTest \/ Step \/ RequestFails \/ TimesOut
  \/ Tick

\* Timers, servers, pods and jest's runner go on; nobody has to be killed and
\* no request has to fail.
Fairness ==
  /\ WF_vars(Migrate) /\ WF_vars(StopPod) /\ WF_vars(StartRust) /\ WF_vars(StartJs)
  /\ \A k \in Kinds : WF_vars(AnchorArrives(k))
  /\ WF_vars(StartTest) /\ WF_vars(Step) /\ WF_vars(TimesOut) /\ WF_vars(Tick)

Spec == Init /\ [][Next]_vars /\ Fairness

-----------------------------------------------------------------------------
(* Properties.                                                             *)

TypeOK ==
  /\ env \in Environments
  /\ clock \in Nat /\ begun \in Nat
  /\ driver \in {"sleep", "waitJob", "killed"}
  /\ target \in {"pre", "post"}
  /\ pod \in [spec : {"pre", "post"}, rust : BOOLEAN, js : BOOLEAN]
  /\ stored \in [Kinds -> 0..2] /\ anchored \in [Kinds -> 0..2]
  /\ test \in {"pending", "version", "write", "change", "alive", "read", "passed", "failed"}
              \cup ModelSteps
  /\ version \in {"pre", "post", Undefined}
  /\ writer \in [Kinds -> {"create", "anchorInit", "load", "replace", "anchorData", "done"}]
  /\ since \in [Kinds -> Nat]
  /\ unread \subseteq Kinds
  /\ writtenOn \in [Kinds -> {"none", "pre", "post"}]
  /\ readOn \subseteq {"pre", "post"}
  /\ lost \subseteq Kinds

\* When the first getVersion was answered, a test that passes started on the
\* old version and read everything from the migrated node (the two waits of
\* 'migrate' and the reads after them).
PassedIsMigrated ==
  test = "passed" /\ version # Undefined => version = "pre" /\ readOn \subseteq {"post"}

\* A test that started on the old version does not pass when the migration
\* dropped anything it wrote, in whichever phase of the test it was dropped.
LossIsNoticed == test = "passed" /\ version = "pre" => lost = {}

\* "Wait for the version change to indicate a migration has completed": past
\* waitForVersionChange the node has migrated.
ChangeMeansMigrated ==
  test \in {"alive", "read", "passed"} => pod.spec = "post"

\* What the two timers demand: two anchors within the sleep of the driver, and
\* sleep and migration within the timeout of the test.
InTime ==
  /\ ~env.faults
  /\ env.start + 2 * env.anchor < WaitSecs
  /\ WaitSecs + env.migrate < TestTimeout

\* When the pod of the test, the anchors and the migration are in time, a test
\* that passes has tested a migration of all it wrote: the sleep of the driver
\* keeps the migration after the writes ("Read previously written data").
WrittenBeforeMigration ==
  InTime /\ test = "passed" => \A k \in Kinds : writtenOn[k] = "pre"

\* In time and without faults the test fails only when the migration lost
\* something: neither the restart of the node nor a timer fails it.
FailsForLoss == InTime /\ test = "failed" => lost # {}

\* What InTime excludes is not mapped: such a test decides nothing.
Verdict ==
  INSTANCE MigrationVerdict WITH
    written <- IF InTime THEN {k \in Kinds : writer[k] = "done"} ELSE {},
    migrated <- InTime /\ pod.spec = "post",
    lost <- IF InTime THEN lost ELSE {},
    verdict <- IF InTime /\ test \in {"passed", "failed"} THEN test ELSE "none"

\* In time, three clocks and three processes come to one order: all is written
\* and anchored, then the node is migrated, once, then the test decides, once,
\* and it passes exactly when nothing was lost.
DecidesTheMigration == Verdict!Spec

\* The test always ends, whatever the driver and the node do: the loops of
\* waitForVersionChange and waitForNodeAlive have no bound of their own.
Ends == <>(test \in {"passed", "failed"})

=============================================================================
