# Verification of ceramic-tests

ceramic-tests runs end-to-end tests against Ceramic networks. A Rust program,
the hermetic driver, sets up a network in Kubernetes, starts the tests in it
and reports their result. A TypeScript suite is the tests. The modules here
model the parts of both whose correctness depends on order, time, failure or
overlap, check them with TLC on small instances and prove the most important
results with TLAPS for every value of the constants.

    tlc -config WatchLoop_pass.cfg WatchLoop.tla     one run
    tlapm WatchLoopProofs.tla                        the proofs of a module

## The system

### Inventory

| component | state | operations | interacts with | what is hard |
|---|---|---|---|---|
| driver waits (`hermetic/src/cli/tester.rs` 262-429) | `total_time`, an open watch | `loop_with_max_timeout`, `wait_for_network`, `wait_for_job`, `wait_for_simulation`, `check_job_result` | watches of the Kubernetes API | watches end early, start from stale copies, the object changes between two of them or disappears |
| driver run (`tester.rs` 103-260, 431-942) | none of its own; everything is in the cluster | apply namespace, secret, account, roles, network, config map, localstack; wait; create job or simulation; migrate; wait; report | the cluster, the Keramik operator, other runs in the same namespace | kills, re-runs in a namespace that is not empty, concurrent runs, TTLs |
| driver options (`cli.rs`, `main.rs`) | - | flavor and its required options, checked before the first request | run | - |
| init script (`process-peers.sh`) | `/config/.env` | wait for the peers, write the URLs and admin seeds | peers config map of the operator | retries, a file that is unreadable or changes between two reads |
| anchor requests (`suite/src/utils/dynamoDbHelpers.ts`, `anchor.test.ts`, `garbage-collect.test.ts`, end of `update.test.ts`) | a DynamoDB table shared by all runs of a stage | store, scan, mark, delete, collect | Ceramic nodes, anchor service, other runs | overlapping runs, failing requests, clock, two TTLs |
| table scan (`dynamoScan`, `createTestTable`) | cursor | scan page by page up to `MAX_SCAN_RESULTS`; create the table if missing | DynamoDB | pages, limits, concurrent writes |
| event sync (`sync-events.test.ts`, `get-events.test.ts`, `rustCeramicHelpers.ts`) | resume tokens | register interest, write events, read feeds | two nodes that reconcile | order of interest and writes, redelivery, timeout |
| stream update (`update.test.ts`) | the expected content | create, update, load, sync, store | all nodes, the anchor requests | propagation, tests that go on after a failed one, timeouts |
| migration (`migration/all-event-types.tests.ts`) | version seen at the start | write events, wait for the version to change, wait for the node, read | driver's migration, nodes that restart | answers lost during the restart |
| polling helpers (`ceramicHelpers.ts`, `composeDbHelpers.ts`) | start time | `loadDocumentOrTimeout`, `waitForCondition`, `waitForIndexingOrTimeout`, `waitForDocument` | nodes | timeouts |
| data feed (`common.ts` `EventAccumulator`, `data-feed-api.test.ts`) | set of received events | accumulate, stop, wait | server-sent events | reconnects, duplicates; the tests are skipped |
| scripts and workflows | - | build, publish, schedule | CI | I/O only |

### How the parts meet

The driver creates a Job whose init container is `process-peers.sh` and whose
container is the suite. The Job's verdict is the driver's verdict. In a
migration run the driver changes the network while the migration test waits
for that change. Durable runs of the suite work on long-lived networks and
leave each other messages in DynamoDB: the update test stores a record, the
anchor test of a later run checks it.

### What makes each component correct

* waits: return only what was shown; miss nothing that stays; give up exactly
  at the timeout; always end;
* run: report the tests it started; never exchange the admin key of a running
  network; create no job whose resources are missing; end, also when the job
  disappears;
* anchor requests: mark only anchored streams, fail only for streams found
  unanchored, forget none, fail once, leave no record or pin behind;
* migration test: pass only after reading migrated data from the migrated node,
  notice every dropped write, fail for nothing else when all are in time, end;
* stream update: pass only after testing every node the script counted, store
  records of finished streams only, write no stream whose anchor is requested, end;
* event sync: pass only when every node has delivered every event, fail only
  for a cause, pass when nothing goes wrong, end.

## The models

### `TimedWait`, `WatchLoop`, `WatchLoopProofs`: the driver's waits

`TimedWait` is what a wait promises: return a result that was witnessed, pass
an error on, or give up when the timeout is over. `WatchLoop` is the code:
`total`, `timeout` and the loop are `loop_with_max_timeout`; `OpenWatch`,
`Deliver`, `FetchLogs`, `WatchFails` and `CloseWatch` are the closures of
`wait_for_network`, `wait_for_job` and `wait_for_simulation`, told apart by
`kind`. The watched object is a history of versions and a watch is a cursor
into it. Every watch asks for version "0", so it may start at any earlier
version of the object (`StartOf`); a watch at which the object does not exist
starts at its creation. Events are delivered before the watch closes
(`Drained`): the latency of an event is taken to be short against the
resolution of the clock, one second.

Bounds: timeout 5 and watch limit 2 (three windows, the last one shorter), five
versions of the object.

### `HermeticDriver`, `MCHermeticDriver`, `HermeticDriverProofs`, `HermeticKeyProofs`: runs

One action per request that `run` awaits, for any number of runs that share a
namespace: `pc[d]` is the request run `d` is about to make, `After` the order.
Applies are server-side applies, so applying what exists changes nothing but
the network's specification; creates fail with a conflict (`NameTaken`). A
resource is abstracted to its presence, the network and the secret to their
contents. A wait is one action that takes a result its object shows, or
`GiveUp`: that is what `TimedWait` allows. `Crash` kills a run at any await,
`RequestFails` refuses any request. The operator, the Job controller, the
simulate manager and the TTLs are the actions under `Cluster`, all external.

The watches start from version "0", so they may show an object that is gone.
`shown` says that some network of this name has been ready, which is all that
`wait_for_network` looks at; a job that is gone is still shown as it ended
(`Shows`), under a name no other job has; `past` is how the simulate managers that
are gone have ended. The manager is selected by a label every Simulation's has
(`job-name=simulate-manager`), but its logs are read by the name of the pod that is
shown (`tester.rs` 369-380). It is the pod of a Job, whose name is new each time,
so for a manager that is gone the read of its logs fails: `WaitForSimulation` then
ends with an error. A run can thus be failed by a simulation of the past, and be
passed by one only while that one exists (`Mistakable`). The mutant
`ReturnPhase` leaves the logs out, and a run passes with an earlier run's result.

`Start` is the check of the options a flavor requires: a run without them ends
before its first request. How clap parses the rest is left out; their values
are constants, but for the name in the simulation file, which each run picks from
`Names` (`simulation`).

The operator's status is taken to be current except across a change of the
specification. `Cleanup`, the network's TTL, may fall anywhere, also inside a
run; `disturbed` names the runs it cut short after their first request. A
run that is cut short may re-apply the network without its secret, so that the
operator makes a key of its own, which a later run overwrites. Therefore
`OperatorFindsSecret` is about `disturbed = {}`, `AdminKeyAgrees` leaves out pods
that were started with the operator's key, `SecretKept` is about secrets that runs
created, and `JobHasDependencies` about the runs that are not disturbed; it
includes the network, for which the operator makes the peers' config map.
Verdicts and the end of every run hold with TTLs at any time. The order in which
the operator deletes things is not in the repository, so everything goes in one step.

Bounds: two runs with different keys, two names of simulations, two clean-ups. A
third run adds no new pair of interleavings; the theorems hold for any number. A
second clean-up falls on a namespace that was set up again after the first.

### `AnchorLedger`, `AnchorRequests`, `AnchorRequestsProofs`: the table the runs share

`writer`, `checker` and `collector` are the end of `update.test.ts`,
`anchor.test.ts` and `garbage-collect.test.ts` (skipped at present, modelled as
it would run), each with one action per request. The table
keeps the record of each stream as absent, unanchored, anchored, or "bare":
`markStreamReqAsAnchored` is an unconditional `updateItem`, which creates an
item where there is none. `storedAt` is `Creation`; the database's TTL is
`Expire`. Jest runs the files of one run one after the other (`--runInBand`), so
actors that overlap are different runs, against one clock.

A scan (`dynamoScan`) goes page by page. Records are numbered in the order in which a
scan returns them; `Page` is one request, a consistent read of the next
`PageSize` records, of which the filter keeps those that match; the other
actors move between pages. `MaxScanResults` is tested between pages, as in the
code. What is left to DynamoDB is whether a full last page names a next one.

The anchor test loads a stream, awaits it, and only then reads the clock: between
`LoadUnanchored` and `TooLate` or `StillPending` (`pc = "judge"`) the anchor may arrive
and the interval end. `parseInt` cuts `Creation` to whole seconds (`TimedOut`, where
`Second` is the number of units of the model's clock in one). So a test may fail for a
stream that was anchored within its interval (finding 4); what holds is that it was
found unanchored after its record was stored, which is what the ledger says.

`AnchorLedger` is what the table promises the suite, without scans, pages, clocks
and failed requests: a stream is recorded once, taken off the books only because it
is anchored, a test has failed for it or it is old, and never put back on them; a
test fails only for a stream it has found unanchored (`Doubt`, `Fail`).
`AnchorRequests` implements it (`ImplementsLedger`): `Life` reads a stream's life off its
writer and its record, `failed` is `late`, `old` is `OverTTL`, `doubted` are the
streams that tests have loaded and not judged yet (`Doubted`). A bare record, and the
steps of runs that go on after a record is gone, map to nothing.

Bounds: for `anchor_collect` one stream with two checkers and two collectors, all
faults, five instants of half a second (interval 1, TTLs 2 and 4), so that the cut of
`Creation` matters. For `Resolved` and `ScanReturns` three streams, one checker, pages
of two records and a limit of one: a scan finds more than its limit, leaves
records behind it, reads empty pages and has two records in its queue. There only
stores go on beside the scan; that other tests mark and delete between its pages is
covered by the theorem `ScansReturn`.

### `MigrationVerdict`, `MigrationTest`, `MigrationTestProofs`: the migration test in real time

The driver's sleep and apply (`Migrate`), the pod that is replaced (`StopPod`,
`StartRust`, `StartJs`, external) and the test: the first version, the models,
a writer per kind of event, `waitForVersionChange`, `waitForNodeAlive` and the
reads. Two timers, `WaitSecs` from the creation of the Job and `TestTimeout`
from the start of the test, run against bounds the environment keeps (`env`):
when the pod has started, how long anchors and the migration take, and whether
requests are lost and the driver killed. `Tick` lets time pass only when no
timer is due, no bound would be broken and the test has no step to take
(`~CanStep`): requests take no time. The two polls are five seconds apart, so what they
wait for may be there for a while before they notice it; the bound on the migration
includes that (`NoticeDue`). The two models are created and indexed one after the
other (`CreateModels`): `Model.create` fails while the node is down, the first wait of
`indexModelOnNode` outlasts it or gives up. One pod serves both URLs and goes down
as a whole. The migration may drop the last write of any kinds; a migration that loses nothing
is one of its outcomes.

`MigrationVerdict` is what the test is for: everything is written and anchored, then
the node migrates once, then the test passes if and only if nothing was dropped.
`DecidesTheMigration` says that `MigrationTest` implements it when pod, anchors and
migration are `InTime` for the two timers and nothing fails. Other runs are mapped to a
test that does nothing: of them `PassedIsMigrated` and `LossIsNoticed` say what remains.

`writeKeySignedDataEvents` and `writeCACAOSignedDataEvents` differ in the DID
only, so the run has two kinds, with and without the load between the writes.

Bounds: wait 4 and timeout 6, with early and late pods (1, 5), fast and slow
anchors and migrations (1, 2): the fastest are in time, the others arrive at,
around and after each timer.

### `EventSync`, `EventSyncProofs`, `EventSyncCountProofs`: the sync scenarios

A scenario is a script of registrations and writes (`Script`, the five tests);
tokens come before it, two rounds of `readEvents` after it: `WaitReturned` is
`waitForEventCount`, which looks at the number of events, `CompareReturned` the
comparison, which looks at the events. A feed is a sequence that grows; its
nodes synchronise events of models both are interested in, in any order
(`Synchronise`, external). `faults` says what may disturb a test: events of
other tests, slow nodes with timeouts, with and without refused requests, feeds that
repeat events. A page is the next `PageSize` entries or what is there; requests for
the data of an event are part of the page. The parallel `writeEvents` of a
`Promise.all` interleave; what they still write after a test has failed is among
the events of other tests.

Bounds: two nodes, one event per batch (the last test: two models, each with an
event per node, instead of ten and two), one foreign or repeated event: the
counts can be met with one event missing, which is the case of interest.

### `InitScript`, `AnchoredStream`, `StreamUpdate`, `StreamUpdateProofs`: a test job

`InitScript` is the loop of `process-peers.sh` and its three reads of the peers
file: `Count`, `ReadCeramicUrls`, `ReadComposeDbUrls`. The file is a mounted config
map, so a peer may join between two reads (`PeerJoins`), and it may be
unreadable at first (`FileAppears`); what jq prints then is empty, which the
script takes for a number other than "0".

`StreamUpdate` extends it with the suite that starts in the environment the script
wrote: `beforeAll` with `createTestTable`, the model and `waitForIndexingOrTimeout`,
then each test of each group. `suite` is the request or wait the suite is at, `group`
and `idx` the test, `held[s][n]` the step of stream `s` that node `n` has.
A stream is named by its first node, its content by the number of its updates. Jest
runs the remaining tests after a failed one (`Move`), so documents may be
undefined and updates missing (`Undefined`); after a failed `beforeAll` it runs none.
Nodes follow the one that is written to (`Propagate`, external). `faults` says
what may disturb a job: late peers, an unreadable file, slow nodes and tables
(`Timeout`, `HookTimeout`), refused requests. The waits are `loadDocumentOrTimeout`
and `waitForCondition`: they end by their condition or by their time.

`AnchoredStream` is what the test promises of its streams, without jest, groups and
timeouts: each is written on one node, each time with new content, until a write asks for
an anchor; other nodes only follow; a record is made once one of them has that last
write. `ImplementsStream` is the refinement: `held` is the same, `asked` is `anchored`,
`recorded` is `stored`. `AnchorLedger` goes on where it ends, with the record.

Bounds: three nodes, so that an update in the middle is not the first or the last
one; one peer without Ceramic addresses; two tries; each fault alone and late peers
with an unreadable file.

### Mutants

A definition with the comment "Mutant of X" is not part of a specification. It
is X with a mistake in it; each property of the passing runs is known to fail
with at least one of them in X's place.

## The runs

| run | result | what it shows |
|---|---|---|
| `watch_loop` | holds | no result is missed or made up over stale and ended watches, the budget is kept exactly, the wait ends, and it implements `TimedWait` |
| `watch_early_close` | **violated**: `NoPrematureTimeout` | finding 1 |
| `driver_rerun` | holds | after any kill, refusal or TTL, for every flavor and choice of options, a second run reports its own verdict (or, for a performance test, that of a simulation of another name), also when its watches show what is gone; it does not exchange the key, finds what it needs, and ends |
| `driver_secret` | **violated**: `SecretKept` | finding 2 |
| `anchor_collect` | holds | marks, failures and deletions of overlapping runs agree with the anchor service and the pins; no record is forgotten; the requests are an `AnchorLedger`, although load and clock are read at different times and `Creation` is cut to seconds |
| `anchor_resolved` | holds | a scan returns every record that was there from its first to its last page, or its limit; every record is resolved although a late one ends the test that finds it, with other records in its queue and behind its limit |
| `anchor_expiration` | **violated**: `RecordsExpire` | finding 3 |
| `anchor_dropped` | **violated**: `DroppedIsLate` | finding 4, without faults: the anchor arrives between load and clock |
| `migration` | holds | the test never passes wrongly once it was told its first version; in time it decides its migration (`MigrationVerdict`); it ends |
| `migration_undefined` | **violated**: `ChangeMeansMigrated` | finding 5 |
| `event_sync` | holds | a test that passes has seen everything, one that fails has a cause, undisturbed it passes, and it ends |
| `update_job` | holds | a job that passes has tested every node the script counted, whatever joined while it read; no stream is written once its anchor is requested, and recorded only when it is finished (`AnchoredStream`); the job ends, and passes when nothing disturbs it |

`CHECK_DEADLOCK FALSE` is set where the modelled programs end.

### Fairness

* `WatchLoop`: the loop, the timer and the server's close of an expired watch go
  on; nothing is assumed of the object.
* `HermeticDriver`: a run that is not killed goes on, since each of its awaits is
  answered, refused or timed out. Nothing is assumed of the operator or the tests.
* `AnchorRequests` (`Resolved` only): runs are scheduled again and again, as the
  workflow does every few hours, the clock goes on, and requests succeed.
* `MigrationTest`: timers fire, pods start, anchors arrive and jest runs the test.
  Nobody has to be killed and nothing has to fail.
* `EventSync`: the test goes on, its timer fires, and nodes synchronise unless
  they are slow.
* `StreamUpdate`: the containers of the job run and timers fire; unless they are
  slow, the table becomes active and nodes follow.

## What is proved

Each detailed module with an abstract one is proved to implement it, each other
invariant and action property the runs check is proved as it stands, and loops are proved to
advance. All for every value of the constants, from the named assumptions of the
modules (types of the constants, a watch limit above zero, ...).

* `WatchLoopProofs`. The invariant joins `TypeOK` and `Budget` with: how a wait
  ended (`Ending`), that a watch in progress has been open for no longer than
  its timeout (`ClockBehind`, and `ClockAhead` when the server does not close
  early), that the answer in hand was shown (`AnswerShown`), and that the
  last version read shows no result while the loop goes on
  (`LastReadUnfinished`; the watch after a hand-over repeats the object, which
  is why a result between two watches is not missed). From it: `TypeCorrect`,
  `BudgetKept`, `VerdictsAreSound`, `NoResultMissed`; and, if watches stay
  open for their timeout, `FullTimeoutWaited` and `WaitImplementsTimedWait`.
  `LoopAdvances` does not need that: however early watches close, each that ends takes
  `MaxTimeout`, or the rest, off the timeout.
* `HermeticDriverProofs`. `VerdictsAreOwn` (`VerdictInv`: who owns a job, a
  Simulation and the manager there is, and that what is shown as it ended did end so)
  holds for any overlap of runs, names of simulations and TTLs: `Mistakable` says whose
  result a performance run may report instead of its own. It is nobody's where runs
  follow each other and use one name.
  `JobsFindWhatTheyNeed` (`DependencyInv`: what has been applied at each
  point of a set-up that no TTL has cut short, the network included) holds for any
  overlap of runs and TTLs at any time.
* `HermeticKeyProofs`. `KeyInv`: while nothing is disturbed a network stands next to a
  secret (`SecretFound`); between runs only the operator creates one, and pods and jobs
  hold the key of the secret there is (`KeyKept`). The operator finding
  its secret needs no more; `KeysAgree` and `SecretsAreKept` need runs one after the
  other (finding 2 is what happens otherwise) and hold with TTLs at any time.
  `RunsAdvance` counts the requests a run has left (`Left`): its own steps lower the
  number and nobody raises it.
* `AnchorRequestsProofs`. `RequestInv` joins the types with what a record says of its
  writer (`Written`), what a checker knows of the
  stream it works on (`Knowledge`) and what it has promised to do with it
  (`Promises`). A checker decides on a stream before it writes; `KnowledgeKept`
  shows that no other actor makes that knowledge wrong. For `ScansReturn` the
  pages of a scan are prefixes of what is behind its cursor, so what was there
  before the scan and is still there has been on one of them; and each page but the
  last begins behind the one before (`NextPage`), so scans advance whatever is stored
  meanwhile (`ScansAdvance`). `RequestsAreALedger` is the refinement of `AnchorLedger`,
  with one lemma per group of actors (`CheckerBooks`, `CollectorBooks`, `ServiceBooks`,
  `WriterBooks`): a record is taken off the books with a reason because of what
  `Knowledge` says its checker or collector knows, a checker that is late only
  touches what is off them, and a failure is of a stream its checker doubts, which
  whatever the others do with theirs (`OutOfDoubt`). `FailuresAreOnce` is a consequence
  no run checks any more.
* `MigrationTestProofs`. `TypeCorrect`, `ReadsAreOfTheMigrated` and
  `LossesAreNoticed`. Past `waitForVersionChange` a test that started on the old
  version has the new rust-ceramic before it (`Settled`); as there is one migration,
  what a read found is still there when the test passes (`ReadIsKept`), and a
  dropped write is never made good by a later one (`Drops`).
  `WritesPrecedeMigration` and `FailsOnlyForLoss` are about the two timers, for all
  bounds that are `InTime`. `InTimeInv` says when the test and each writer get where
  they are (`Schedule`, `WriterSchedule`): writing takes two anchors, so it is over
  while the driver sleeps and nothing has happened to the node (`Undisturbed`); the
  migration is over `env.migrate` after the sleep, and what the test then waits
  for is there, so the test's own timer is never due (`NoFailureInTime`). `Tick` is
  where it is decided: time passes only for an anchor or the migration.
  `InTimeTestsDecide` is the refinement of `MigrationVerdict`. It adds that the node is
  migrated once and only that loses anything (`OneMigration`), and that a test that
  passes was told the old version (`Decided`); then writers are done before the node
  migrates (`Migrates`) and the test ends after it, as it should (`Decides`).
* `EventSyncProofs`. `PassesOnlySynced`: feeds only grow, a read stays within its
  feed (`WithinFeed`), so what the comparison found has been delivered and the
  nodes before it stay complete (`Compared`).
* `EventSyncCountProofs`. `CountInv`: a feed delivers each event once, unless feeds repeat
  events, and only events that exist (`Once`, `Owned`); a wait that is over has
  counted them (`Waited`). Entries that were counted are then an injection into the
  events, so as many entries as events are all of them, which is why
  `waitForEventCount` may look at a number only. A comparison of such a read
  finds what was written (`CompleteIsAsWritten`), which leaves the timeout as the
  only cause of a failure.
* `StreamUpdateProofs`. `JobInv` is `ScriptInv` (`Listed`: a readable file stays so
  and keeps its peers, so the later lists have every node that was counted, each
  once) and `SuiteInv`: what has been done when the suite gets to a point (`SetUp`),
  nobody is ahead of the first node and streams of later groups do not exist
  (`Copies`), every test that has passed leaves its follower at its step (`Works`),
  and an anchor is asked for at the last step (`Anchoring`). `PassesOnlyThorough`,
  `StoresOnlyFinished` and `WritesEndAtAnchor` follow for any number of nodes.
  `JobsWriteAnchoredStreams` is the refinement of `AnchoredStream`. `JobInv` does not give
  that a write is new: the test of a node starts from a document of the test before, which
  may have failed. `Unwritten` adds that before a write the stream has less than what is
  written next, whatever failed.

Three theorems state properties that the runs check only through a refinement:
`VerdictsAreSound`, `FailuresAreOnce` and `StoresOnlyFinished`.

Only model-checked: all liveness (`Termination`, `RunsEnd`, `Resolved`, `Ends`,
`Passes`, `Concludes`), which is out of the prover's reach. `LoopAdvances`, `ScansAdvance` and
`RunsAdvance` are what is provable of it: the number of watches, pages and requests
is bounded, and fairness is needed only for each of them to end. Every invariant,
action property and refinement the passing runs check is also a theorem.

## Findings

1. `loop_with_max_timeout` adds a watch's nominal timeout to `total_time`
   (`tester.rs:406`), however long the watch was open. Watches that the server
   closes early make it give up early. Its comment promises to wait until
   `timeout_seconds` is reached.
2. `is_secret_missing` and `create_secret` (`tester.rs:154`) are two requests,
   and the second is a server-side apply: of two runs in a namespace the later
   overwrites the key the earlier one created.
3. `markStreamReqAsAnchored` (`dynamoDbHelpers.ts:159`) creates an item
   without `Expiration` when the record was deleted in between; nothing ever
   removes it.
4. The anchor test loads the status of a stream (`anchor.test.ts:20`) and reads the
   clock after that request (line 22). A stream that is anchored in between, within its
   interval, fails the test when the interval ends in between as well; its record is
   deleted and the stream keeps its pins. The same happens with no such race when
   the update of the record of an anchored stream fails (line 41, caught like a failed
   anchor), and up to a second early because `parseInt` (line 23) cuts `Creation`.
5. `getVersion` (`all-event-types.tests.ts:51`) hides errors: when the
   first request fails, the old version counts as a change and the test
   passes without a migration.

Seen while modelling and not the subject of a violated run: `wait_for_simulation`
(`tester.rs:352`) selects the manager's pod by a label all simulations share, so
a run can report the result of a simulation of another name that is still there, or
fail because the logs of one that is gone cannot be read; both are behaviours of
`driver_rerun`, the first named by `Mistakable`. A run that is re-run in its namespace
takes the pods it finds for its own network (`tester.rs:279` reads the counts of
whatever specification): after a migration run these are the migrated ones, and
nothing the driver does prevents it. The script writes an environment without URLs
when jq cannot read the file (the suite fails with it). `waitForEventCount`'s comment
speaks of a `retries` parameter it does not have. The Makefile's comment says
eight hours where its `HERMETIC_TTL` is 3600 seconds, less than the driver's default
job timeout of three hours.

## Not modelled

* How clap parses options: what they decide is `Start`, their values are constants.
* `waitForDocument`: polls a query of one test (`composedb-model-sync.test.ts`), with
  nothing else going on. `fetchAnchoredStreamReqs` and
  `makeStreamReqAppearExpired_FOR_TESTING_ONLY`: used by `helpers.test.ts` only.
* A stream that fails or completes inside `withTimeout`: whether it can is decided
  by the Ceramic client, outside the repository.
* Model, CAS, indexing and `get-events` tests: sequences of requests whose
  behaviour is that of Ceramic nodes. Data feed: its tests are skipped.
* Scripts, workflows, images, network files: I/O without state.

## Plan

Done, in this order: `WatchLoop` and `TimedWait`; `HermeticDriver`; `AnchorRequests`
with its scans; `MigrationTest`; `EventSync`; `InitScript` with `StreamUpdate`; proofs
for each of them; the abstract `AnchorLedger`, `AnchoredStream` and `MigrationVerdict` with
their refinements; the variants of the loops of the waits, scans and runs.

Left: an abstract run for `HermeticDriver`, whose verdict is that of one job; variants for
`EventSync` and `StreamUpdate`; `waitForDocument` and `withTimeout` as implementations of `TimedWait`, once the
client's streams have a description to model them from.
