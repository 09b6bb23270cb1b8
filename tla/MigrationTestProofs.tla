------------------------- MODULE MigrationTestProofs -------------------------
(***************************************************************************)
(* What MigrationTest promises for every set of kinds, every wait, every   *)
(* timeout and with every fault: a test that passes and was told the       *)
(* version at its start has read from the migrated node, and has noticed   *)
(* whatever the migration dropped.                                         *)
(***************************************************************************)
EXTENDS MigrationTest, TLAPS

USE DEF ModelSteps

(* The strengthening.  Past waitForVersionChange the pod has been replaced   *)
(* and, because one migration is applied, is not replaced again: what a read *)
(* found is still there when the test passes.                                *)

\* The version is read once, and reads are made after the two waits.
Phases ==
  /\ test \in {"pending", "version"} => version = Undefined
  /\ test \notin {"read", "passed", "failed"} => readOn = {} /\ unread = Kinds
  /\ test = "passed" => unread = {}

\* The specs only change from the old to the new one.
OneWay ==
  /\ pod.spec = "post" => target = "post"
  /\ version = "post" => pod.spec = "post"

\* Where a test that started on the old version got past its first wait, the
\* new rust-ceramic is up; that ends all changes to the data but its own.
Settled ==
  version = "pre" /\ test \in {"alive", "read", "passed"} => pod.spec = "post" /\ pod.rust

ReadsOnPost ==
  version # Undefined /\ test \in {"alive", "read", "passed"} =>
    version = "pre" /\ readOn \subseteq {"post"}

\* How many writes of kind k the test has made.
Made(k) == CASE writer[k] = "create"                           -> 0
             [] writer[k] \in {"anchorInit", "load", "replace"} -> 1
             [] OTHER                                          -> 2

\* A dropped write is never replaced by a later one.
Drops == \A k \in Kinds : /\ stored[k] <= Made(k)
                          /\ k \in lost => stored[k] < Made(k)

\* What has been read is complete.
ReadIsKept ==
  version = "pre" /\ test \in {"read", "passed"} => \A k \in Kinds \ unread : stored[k] = 2

Inv == /\ TypeOK /\ Phases /\ OneWay /\ Settled /\ ReadsOnPost /\ Drops /\ ReadIsKept

-----------------------------------------------------------------------------
LEMMA InitInv == Init => Inv
BY DEF Init, Inv, TypeOK, Phases, OneWay, Settled, ReadsOnPost, Drops, ReadIsKept, Made,
       Undefined

\* What most statements of the test do to Inv: they only move on.
LEMMA MoveInv ==
  ASSUME Inv, NEW statement, GoTo(statement),
         statement \in ModelSteps \cup {"write", "change", "failed"},
         test \in ModelSteps \cup {"write"}
  PROVE  Inv'
BY DEF Inv, TypeOK, Phases, OneWay, Settled, ReadsOnPost, Drops, ReadIsKept, GoTo, Made,
       Undefined, podVars, dataVars, testLocals

LEMMA NextInv == Inv /\ [Next]_vars => Inv'
<1> SUFFICES ASSUME Inv, [Next]_vars PROVE Inv'
  OBVIOUS
<1> USE DEF Undefined, podVars, dataVars, testVars, testLocals
<1>1. CASE Migrate \/ DriverKilled
  BY <1>1 DEF Migrate, DriverKilled, Inv, TypeOK, Phases, OneWay, Settled, ReadsOnPost,
              Drops, ReadIsKept, Made
<1>2. CASE StopPod
  BY <1>2 DEF StopPod, Serving, Inv, TypeOK, Phases, OneWay, Settled, ReadsOnPost,
              Drops, ReadIsKept, Made
<1>3. CASE StartRust
  <2>1. PICK dropped \in SUBSET {k \in Kinds : stored[k] > 0} :
          /\ stored' = [k \in Kinds |-> IF k \in dropped THEN stored[k] - 1 ELSE stored[k]]
          /\ lost' = lost \cup dropped
    BY <1>3 DEF StartRust
  <2>2. \A k \in Kinds : Made(k)' = Made(k) /\ Made(k) \in 0..2
    BY <1>3 DEF StartRust, Made
  <2>3. \A k \in Kinds : /\ stored[k] \in 0..2 /\ stored'[k] \in 0..2
                         /\ stored'[k] <= stored[k]
                         /\ k \in dropped => stored'[k] < stored[k]
    BY <2>1 DEF Inv, TypeOK
  <2>4. TypeOK'
    BY <1>3, <2>1, <2>3 DEF StartRust, Inv, TypeOK
  <2>5. (Phases /\ OneWay /\ Settled /\ ReadsOnPost)'
    BY <1>3 DEF StartRust, Inv, TypeOK, Phases, OneWay, Settled, ReadsOnPost
  <2>6. Drops'
    <3> SUFFICES ASSUME NEW k \in Kinds
                 PROVE  /\ stored'[k] <= Made(k)'
                        /\ k \in lost' => stored'[k] < Made(k)'
      BY DEF Drops
    <3>1. stored[k] <= Made(k) /\ (k \in lost => stored[k] < Made(k))
      BY DEF Inv, Drops
    <3> QED
      BY <2>1, <2>2, <2>3, <3>1
  <2>7. ReadIsKept'
    BY <1>3 DEF StartRust, Inv, Settled, ReadIsKept, TypeOK
  <2> QED
    BY <2>4, <2>5, <2>6, <2>7 DEF Inv
<1>4. CASE StartJs
  <2>1. /\ pod' \in [spec : {"pre", "post"}, rust : BOOLEAN, js : BOOLEAN]
        /\ pod'.spec = pod.spec /\ pod'.rust = pod.rust
    BY <1>4 DEF StartJs, Inv, TypeOK
  <2>2. TypeOK'
    BY <1>4, <2>1 DEF StartJs, Inv, TypeOK
  <2> QED
    BY <1>4, <2>1, <2>2 DEF StartJs, Inv, Phases, OneWay, Settled, ReadsOnPost, Drops,
                            ReadIsKept, Made
<1>5. ASSUME NEW k \in Kinds, AnchorArrives(k) PROVE Inv'
  BY <1>5 DEF AnchorArrives, Inv, TypeOK, Phases, OneWay, Settled, ReadsOnPost, Drops,
              ReadIsKept, Made
<1>6. CASE StartTest
  BY <1>6 DEF StartTest, Inv, TypeOK, Phases, OneWay, Settled, ReadsOnPost, Drops,
              ReadIsKept, Made
<1>7. CASE ReadVersion
  BY <1>7 DEF ReadVersion, Answers, Inv, TypeOK, Phases, OneWay, Settled, ReadsOnPost, Drops,
              ReadIsKept, Made
<1>8. CASE CreateModels \/ AllWritten
  BY <1>8, MoveInv DEF CreateModels, CreateModel, IndexModel, AllWritten
<1>9. CASE ChangeSeen
  BY <1>9 DEF ChangeSeen, VersionChanged, GoTo, Answers, Inv, TypeOK, Phases, OneWay, Settled,
              ReadsOnPost, Drops, ReadIsKept, Made
<1>10. CASE AliveSeen \/ Pass \/ RequestFails \/ TimesOut
  BY <1>10 DEF AliveSeen, Pass, RequestFails, TimesOut, Running, GoTo, Inv, TypeOK, Phases,
               OneWay, Settled, ReadsOnPost, Drops, ReadIsKept, Made
<1>11. ASSUME NEW k \in Kinds, Create(k) \/ Replace(k) PROVE Inv'
  BY <1>11 DEF Create, Replace, Write, Inv, TypeOK, Phases, OneWay, Settled, ReadsOnPost,
               Drops, ReadIsKept, Made
<1>12. ASSUME NEW k \in Kinds, AwaitAnchor(k) \/ Load(k) PROVE Inv'
  BY <1>12 DEF AwaitAnchor, AnchorSeen, Load, Inv, TypeOK, Phases, OneWay, Settled, ReadsOnPost, Drops,
               ReadIsKept, Made
<1>13. ASSUME NEW k \in Kinds, Read(k) PROVE Inv'
  BY <1>13 DEF Read, NextToRead, Inv, TypeOK, Phases, OneWay, Settled, ReadsOnPost, Drops,
               ReadIsKept, Made
<1>14. CASE Tick
  BY <1>14 DEF Tick, Inv, TypeOK, Phases, OneWay, Settled, ReadsOnPost, Drops, ReadIsKept, Made
<1>15. CASE UNCHANGED vars
  BY <1>15 DEF vars, Inv, TypeOK, Phases, OneWay, Settled, ReadsOnPost, Drops, ReadIsKept, Made
<1> QED
  BY <1>1, <1>2, <1>3, <1>4, <1>5, <1>6, <1>7, <1>8, <1>9, <1>10, <1>11, <1>12, <1>13,
     <1>14, <1>15 DEF Next, Step

LEMMA Invariance == Spec => []Inv
BY InitInv, NextInv, PTL DEF Spec

\* Driver, pod, writers and test stay within their states, for every wait, timeout and fault (all-event-types.tests.ts).
THEOREM TypeCorrect == Spec => []TypeOK
<1>1. Inv => TypeOK
  BY DEF Inv
<1> QED
  BY <1>1, Invariance, PTL

\* A test that passes, and was answered when it asked for the version, started
\* on the old version and read from the migrated node only.
THEOREM ReadsAreOfTheMigrated == Spec => []PassedIsMigrated
<1>1. Inv => PassedIsMigrated
  BY DEF Inv, ReadsOnPost, PassedIsMigrated
<1> QED
  BY <1>1, Invariance, PTL

LEMMA LossIsSeen == Inv => LossIsNoticed
<1> SUFFICES ASSUME Inv, test = "passed", version = "pre" PROVE lost = {}
  BY DEF LossIsNoticed
<1>1. \A k \in Kinds : stored[k] = 2
  BY DEF Inv, Phases, ReadIsKept
<1>2. \A k \in Kinds : Made(k) \in 0..2
  BY DEF Made
<1> QED
  BY <1>1, <1>2 DEF Inv, Drops, TypeOK

\* A test that started on the old version does not pass when the migration
\* dropped one of its writes.
THEOREM LossesAreNoticed == Spec => []LossIsNoticed
BY LossIsSeen, Invariance, PTL

-----------------------------------------------------------------------------
(* In time.  Writing takes two anchors at most, so it is over while the      *)
(* driver sleeps; the migration is over, and seen, before the test times     *)
(* out.  What can fail a test is then what the migration dropped.            *)

Writing == {"pending", "version", "write"} \cup ModelSteps
Waiting == {"change", "alive", "read"}

\* The driver sleeps until it applies the migration.
Sleep ==
  /\ driver # "killed"
  /\ driver = "sleep" =>
       /\ clock <= WaitSecs /\ target = "pre" /\ lost = {}
       /\ pod = [spec |-> "pre", rust |-> TRUE, js |-> TRUE]
  /\ driver = "waitJob" => clock >= WaitSecs /\ target = "post"

\* When the test gets where it is.
Schedule ==
  /\ begun <= env.start
  /\ test = "pending" => clock <= env.start
  /\ test \in {"version"} \cup ModelSteps => clock = begun
  /\ test = "write" => clock <= begun + 2 * env.anchor
  /\ test \in Waiting => clock <= WaitSecs + env.migrate

\* When a writer gets where it is.
WriterSchedule ==
  /\ test \in {"pending", "version"} \cup ModelSteps => \A k \in Kinds : writer[k] = "create"
  /\ test = "write" => \A k \in Kinds :
       /\ writer[k] = "create" => clock = begun
       /\ writer[k] = "anchorInit" => since[k] = begun /\ clock <= begun + env.anchor
       /\ writer[k] \in {"load", "replace"} => clock <= begun + env.anchor
       /\ writer[k] = "anchorData" => since[k] <= begun + env.anchor
  /\ test \in Waiting \cup {"passed"} => \A k \in Kinds : writer[k] = "done"

\* What the node has of the writes, and which node they were made on.
Kept ==
  /\ test # "failed" => \A k \in Kinds : k \in lost \/ stored[k] = Made(k)
  /\ \A k \in Kinds : writer[k] # "create" => writtenOn[k] = "pre"
  /\ test \in Writing => \A k \in Kinds : anchored[k] <= stored[k]

\* The version the test began with, and the server its reads need.
Served ==
  /\ test \in ModelSteps \cup {"write"} \cup Waiting => version = "pre"
  /\ test = "read" => pod.js

InTimeInv ==
  /\ Inv
  /\ InTime => Sleep /\ Schedule /\ WriterSchedule /\ Kept /\ Served /\ FailsForLoss

LEMMA InTimeInit == Init => InTimeInv
<1> SUFFICES ASSUME Init PROVE InTimeInv
  OBVIOUS
<1>1. Inv
  BY InitInv
<1>2. env.start \in Nat /\ env.anchor \in Nat /\ env.migrate \in Nat
  BY <1>1, MigrationTestAssumption DEF Inv, TypeOK, Environments
<1>3. Sleep /\ Schedule
  BY <1>2, MigrationTestAssumption DEF Init, Sleep, Schedule, Waiting
<1>4. WriterSchedule /\ Kept /\ Served /\ FailsForLoss
  BY DEF Init, WriterSchedule, Kept, Made, Served, FailsForLoss, Waiting, Writing
<1> QED
  BY <1>1, <1>3, <1>4 DEF InTimeInv

\* Until everything is written the driver sleeps and nothing has happened to
\* the node.
LEMMA Undisturbed ==
  ASSUME InTimeInv, InTime, test \in Writing
  PROVE  /\ clock \in Nat /\ begun \in Nat /\ WaitSecs \in Nat /\ TestTimeout \in Nat
         /\ env.start \in Nat /\ env.anchor \in Nat /\ env.migrate \in Nat
         /\ clock < WaitSecs /\ WaitSecs < TestTimeout
         /\ driver = "sleep" /\ target = "pre" /\ lost = {}
         /\ pod.spec = "pre" /\ pod.rust /\ pod.js
         /\ \A k \in Kinds : stored[k] = Made(k)
<1>1. /\ clock \in Nat /\ begun \in Nat /\ WaitSecs \in Nat /\ TestTimeout \in Nat
      /\ env.start \in Nat /\ env.anchor \in Nat /\ env.migrate \in Nat
  BY MigrationTestAssumption DEF InTimeInv, Inv, TypeOK, Environments
<1>2. clock <= env.start + 2 * env.anchor
  BY <1>1 DEF InTimeInv, Schedule, Writing
<1>3. clock < WaitSecs /\ WaitSecs < TestTimeout
  BY <1>1, <1>2 DEF InTime
<1>4. driver = "sleep"
  <2>1. driver \in {"sleep", "waitJob", "killed"}
    BY DEF InTimeInv, Inv, TypeOK
  <2> QED
    BY <1>1, <1>3, <2>1 DEF InTimeInv, Sleep
<1>5. /\ target = "pre" /\ lost = {}
      /\ pod = [spec |-> "pre", rust |-> TRUE, js |-> TRUE]
  BY <1>4 DEF InTimeInv, Sleep
<1>6. pod.spec = "pre" /\ pod.rust /\ pod.js
  BY <1>5
<1>7. \A k \in Kinds : stored[k] = Made(k)
  BY <1>5 DEF InTimeInv, Kept, Writing
<1> QED
  BY <1>1, <1>3, <1>4, <1>5, <1>6, <1>7

\* The schedule keeps its meaning: the bounds are those of the run.
LEMMA SameRun == [Next]_vars => env' = env /\ (InTime' <=> InTime)
<1> SUFFICES ASSUME [Next]_vars PROVE env' = env
  BY DEF InTime
<1>1. CASE Step
  BY <1>1 DEF Step, ReadVersion, CreateModels, CreateModel, IndexModel, AllWritten, ChangeSeen,
              AliveSeen, Pass, GoTo, Create, AwaitAnchor, Load, Replace, Read
<1> QED
  BY <1>1 DEF Next, vars, Migrate, DriverKilled, StopPod, StartRust, StartJs, AnchorArrives,
              StartTest, RequestFails, TimesOut, GoTo, Tick

Rest == Sleep /\ Schedule /\ WriterSchedule /\ Kept /\ Served /\ FailsForLoss

\* The driver and the pod.
LEMMA NodeInTime ==
  ASSUME InTimeInv, InTime, env' = env, Inv',
         \/ Migrate \/ DriverKilled \/ StopPod \/ StartRust \/ StartJs
         \/ \E k \in Kinds : AnchorArrives(k)
  PROVE  Rest'
<1> USE DEF podVars, dataVars, testVars, testLocals
<1>1. /\ clock \in Nat /\ clock' = clock /\ WaitSecs \in Nat
      /\ UNCHANGED <<test, begun, version, writer, since, writtenOn>>
  BY MigrationTestAssumption DEF InTimeInv, Inv, TypeOK, Migrate, DriverKilled, StopPod,
     StartRust, StartJs, AnchorArrives
<1>2. Schedule' /\ WriterSchedule'
  BY <1>1 DEF InTimeInv, Schedule, WriterSchedule
<1>3. CASE Migrate
  <2>1. Sleep'
    BY <1>1, <1>3 DEF Migrate, InTimeInv, Sleep
  <2>2. Kept' /\ Served' /\ FailsForLoss'
    BY <1>1, <1>3 DEF Migrate, InTimeInv, Kept, Made, Served, FailsForLoss, InTime
  <2> QED
    BY <1>2, <2>1, <2>2 DEF Rest
<1>4. CASE DriverKilled
  BY <1>4 DEF DriverKilled, InTime
<1>5. CASE StopPod
  <2>1. driver # "sleep" /\ test # "read"
    BY <1>5 DEF StopPod, InTimeInv, Inv, OneWay, Settled, Served, Waiting, Sleep
  <2>2. Sleep'
    BY <1>1, <1>5, <2>1 DEF StopPod, InTimeInv, Sleep
  <2>3. Kept' /\ Served' /\ FailsForLoss'
    BY <1>1, <1>5, <2>1 DEF StopPod, InTimeInv, Kept, Made, Served, FailsForLoss, InTime
  <2> QED
    BY <1>2, <2>2, <2>3 DEF Rest
<1>6. CASE StartRust
  <2>1. driver # "sleep"
    BY <1>6 DEF StartRust, InTimeInv, Sleep
  <2>2. test \notin Writing
    BY <1>6, Undisturbed DEF StartRust
  <2>3. Sleep'
    BY <1>1, <1>6, <2>1 DEF StartRust, InTimeInv, Sleep
  <2>4. PICK dropped \in SUBSET {k \in Kinds : stored[k] > 0} :
          /\ stored' = [k \in Kinds |-> IF k \in dropped THEN stored[k] - 1 ELSE stored[k]]
          /\ lost' = lost \cup dropped
    BY <1>6 DEF StartRust
  <2>5. \A k \in Kinds : k \in lost' \/ stored'[k] = stored[k]
    BY <2>4
  <2>6. Kept'
    BY <1>1, <2>2, <2>4, <2>5 DEF InTimeInv, Kept, Made
  <2>7. Served' /\ FailsForLoss'
    BY <1>1, <1>6, <2>4 DEF StartRust, InTimeInv, Served, FailsForLoss, InTime
  <2> QED
    BY <1>2, <2>3, <2>6, <2>7 DEF Rest
<1>7. CASE StartJs
  <2>1. Sleep'
    BY <1>1, <1>7 DEF StartJs, InTimeInv, Sleep
  <2>2. pod'.js
    BY <1>7 DEF StartJs, InTimeInv, Inv, TypeOK
  <2>3. Kept' /\ Served' /\ FailsForLoss'
    BY <1>1, <1>7, <2>2 DEF StartJs, InTimeInv, Kept, Made, Served, FailsForLoss, InTime
  <2> QED
    BY <1>2, <2>1, <2>3 DEF Rest
<1>8. ASSUME NEW k \in Kinds, AnchorArrives(k) PROVE Rest'
  <2>1. Sleep' /\ Served' /\ FailsForLoss'
    BY <1>1, <1>8 DEF AnchorArrives, InTimeInv, Sleep, Served, FailsForLoss, InTime
  <2>2. \A j \in Kinds : anchored'[j] = IF j = k THEN stored[k] ELSE anchored[j]
    BY <1>8 DEF AnchorArrives, InTimeInv, Inv, TypeOK
  <2>3. \A j \in Kinds : stored[j] \in Nat /\ stored'[j] = stored[j]
    BY <1>8 DEF AnchorArrives, InTimeInv, Inv, TypeOK
  <2>4. Kept'
    BY <1>1, <1>8, <2>2, <2>3 DEF AnchorArrives, InTimeInv, Kept, Made
  <2> QED
    BY <1>2, <2>1, <2>4 DEF Rest
<1> QED
  BY <1>3, <1>4, <1>5, <1>6, <1>7, <1>8

\* The writes: none of them fails.
LEMMA WritesInTime ==
  ASSUME InTimeInv, InTime, env' = env, Inv',
         \/ StartTest \/ ReadVersion \/ CreateModels \/ AllWritten
         \/ \E k \in Kinds : Create(k) \/ AwaitAnchor(k) \/ Load(k) \/ Replace(k)
  PROVE  Rest'
<1> USE DEF podVars, dataVars, testVars, testLocals
<1>1. test \in Writing /\ UNCHANGED <<clock, driver, target, pod, lost>>
  BY DEF StartTest, ReadVersion, CreateModels, CreateModel, IndexModel, AllWritten, GoTo,
         Create, AwaitAnchor, Load, Replace, Writing
<1>2. /\ clock \in Nat /\ begun \in Nat /\ WaitSecs \in Nat /\ TestTimeout \in Nat
      /\ env.start \in Nat /\ env.anchor \in Nat /\ env.migrate \in Nat
      /\ clock < WaitSecs /\ WaitSecs < TestTimeout
      /\ driver = "sleep" /\ target = "pre" /\ lost = {}
      /\ pod.spec = "pre" /\ pod.rust /\ pod.js
      /\ \A k \in Kinds : stored[k] = Made(k)
  BY <1>1, Undisturbed
<1>3. Sleep'
  BY <1>1 DEF InTimeInv, Sleep
<1>4. CASE StartTest
  <2>1. Schedule' /\ WriterSchedule'
    BY <1>1, <1>2, <1>4 DEF StartTest, InTimeInv, Schedule, WriterSchedule, Waiting
  <2>2. Kept' /\ Served' /\ FailsForLoss'
    BY <1>1, <1>4 DEF StartTest, InTimeInv, Kept, Made, Writing, Served, Waiting, FailsForLoss
  <2> QED
    BY <1>3, <2>1, <2>2 DEF Rest
<1>5. CASE ReadVersion
  <2>1. version' = "pre"
    BY <1>2, <1>5 DEF ReadVersion, Answers, InTime
  <2>2. Schedule' /\ WriterSchedule'
    BY <1>1, <1>2, <1>5 DEF ReadVersion, InTimeInv, Schedule, WriterSchedule, Waiting
  <2>3. Kept' /\ Served' /\ FailsForLoss'
    BY <1>1, <1>5, <2>1 DEF ReadVersion, InTimeInv, Kept, Made, Writing, Served, Waiting,
       FailsForLoss
  <2> QED
    BY <1>3, <2>2, <2>3 DEF Rest
<1>6. CASE CreateModels
  <2>1. /\ test \in ModelSteps /\ test' \in ModelSteps \cup {"write"}
        /\ UNCHANGED <<dataVars, testLocals>>
    BY <1>2, <1>6 DEF CreateModels, CreateModel, IndexModel, GoTo, Serving
  <2>2. Schedule' /\ WriterSchedule'
    BY <1>1, <1>2, <2>1 DEF InTimeInv, Schedule, WriterSchedule, Waiting
  <2>3. Kept' /\ Served' /\ FailsForLoss'
    BY <1>1, <2>1 DEF InTimeInv, Kept, Made, Writing, Served, Waiting, FailsForLoss
  <2> QED
    BY <1>3, <2>2, <2>3 DEF Rest
<1>7. CASE AllWritten
  <2>1. /\ test = "write" /\ test' = "change" /\ UNCHANGED <<dataVars, testLocals>>
        /\ \A k \in Kinds : writer[k] = "done"
    BY <1>7 DEF AllWritten, WritersDone, GoTo
  <2>2. Schedule' /\ WriterSchedule'
    BY <1>1, <1>2, <2>1 DEF InTimeInv, Schedule, WriterSchedule, Waiting
  <2>3. Kept' /\ Served' /\ FailsForLoss'
    BY <1>1, <2>1 DEF InTimeInv, Kept, Made, Writing, Served, Waiting, FailsForLoss
  <2> QED
    BY <1>3, <2>2, <2>3 DEF Rest
<1>8. ASSUME NEW k \in Kinds, Create(k) \/ Replace(k) PROVE Rest'
  <2>1. PICK n \in {1, 2}, next \in {"anchorInit", "anchorData"} :
          /\ Write(k, n, next)
          /\ \/ n = 1 /\ writer[k] = "create" /\ next = "anchorInit"
             \/ n = 2 /\ writer[k] = "replace" /\ next = "anchorData"
    BY <1>8 DEF Create, Replace
  <2>2. /\ test = "write" /\ UNCHANGED <<anchored, begun, version>>
        /\ stored[k] = n - 1
    BY <1>2, <1>8, <2>1 DEF Create, Replace, Made
  <2>3. /\ stored' = [stored EXCEPT ![k] = n]
        /\ writer' = [writer EXCEPT ![k] = next]
        /\ since' = [since EXCEPT ![k] = clock]
        /\ writtenOn' = [writtenOn EXCEPT ![k] = "pre"]
        /\ test' = "write"
    BY <1>2, <2>1, <2>2 DEF Write, Serving
  <2>4. \A j \in Kinds :
          IF j = k
          THEN stored'[j] = n /\ writer'[j] = next /\ since'[j] = clock /\ writtenOn'[j] = "pre"
          ELSE /\ stored'[j] = stored[j] /\ writer'[j] = writer[j]
               /\ since'[j] = since[j] /\ writtenOn'[j] = writtenOn[j]
    BY <2>3 DEF InTimeInv, Inv, TypeOK
  <2>5. Schedule' /\ Served' /\ FailsForLoss'
    BY <1>1, <2>2, <2>3 DEF InTimeInv, Schedule, Served, Waiting, FailsForLoss
  <2>6. WriterSchedule'
    <3>1. writer[k] = "create" => clock = begun
      BY <2>2 DEF InTimeInv, WriterSchedule
    <3>2. writer[k] = "replace" => clock <= begun + env.anchor
      BY <2>2 DEF InTimeInv, WriterSchedule
    <3>3. clock <= begun + env.anchor
      BY <1>2, <2>1, <3>1, <3>2
    <3> QED
      BY <1>1, <2>1, <2>2, <2>3, <2>4, <3>1, <3>3 DEF InTimeInv, WriterSchedule, Waiting
  <2>7. Kept'
    <3>1. \A j \in Kinds : Made(j)' = stored'[j]
      BY <1>2, <2>1, <2>4 DEF Made
    <3>2. \A j \in Kinds : writer'[j] # "create" => writtenOn'[j] = "pre"
      BY <2>4 DEF InTimeInv, Kept
    <3>3. \A j \in Kinds : anchored[j] <= stored[j] /\ anchored[j] \in Nat
      BY <1>1 DEF InTimeInv, Kept, Inv, TypeOK
    <3>4. \A j \in Kinds : anchored'[j] <= stored'[j]
      BY <2>1, <2>2, <2>4, <3>3
    <3> QED
      BY <3>1, <3>2, <3>4 DEF Kept
  <2> QED
    BY <1>3, <2>5, <2>6, <2>7 DEF Rest
<1>9. ASSUME NEW k \in Kinds, AwaitAnchor(k) \/ Load(k) PROVE Rest'
  <2>1. /\ test = "write" /\ UNCHANGED <<stored, anchored, begun, version, since, writtenOn>>
        /\ writer[k] = "load" => stored[k] = 1
    BY <1>2, <1>9 DEF AwaitAnchor, Load, Made
  <2>2. PICK next \in {"load", "replace", "done"} :
          /\ test' = "write" /\ writer' = [writer EXCEPT ![k] = next]
          /\ \/ writer[k] = "anchorInit" /\ next \in {"load", "replace"} /\ AnchorSeen(k)
             \/ writer[k] = "load" /\ next = "replace"
             \/ writer[k] = "anchorData" /\ next = "done"
    BY <1>2, <1>9, <2>1 DEF AwaitAnchor, AnchorSeen, Load, Serving
  <2>3. \A j \in Kinds : writer'[j] = IF j = k THEN next ELSE writer[j]
    BY <2>2 DEF InTimeInv, Inv, TypeOK
  <2>4. Schedule' /\ Served' /\ FailsForLoss'
    BY <1>1, <2>1, <2>2 DEF InTimeInv, Schedule, Served, Waiting, FailsForLoss
  <2>5. WriterSchedule'
    BY <1>1, <1>2, <2>1, <2>2, <2>3 DEF InTimeInv, WriterSchedule, Waiting
  <2>6. Kept'
    BY <1>1, <1>2, <2>1, <2>2, <2>3 DEF InTimeInv, Kept, Made, Writing
  <2> QED
    BY <1>3, <2>4, <2>5, <2>6 DEF Rest
<1> QED
  BY <1>4, <1>5, <1>6, <1>7, <1>8, <1>9

\* The reads: they meet the migrated node, and fail for what it lost.
LEMMA ReadsInTime ==
  ASSUME InTimeInv, InTime, env' = env, Inv',
         ChangeSeen \/ AliveSeen \/ Pass \/ \E k \in Kinds : Read(k)
  PROVE  Rest'
<1> USE DEF podVars, dataVars, testVars, testLocals
<1>1. /\ test \in Waiting
      /\ UNCHANGED <<clock, driver, podVars, dataVars, begun, version, writer, since, writtenOn>>
  BY DEF ChangeSeen, AliveSeen, Pass, Read, GoTo, Waiting
<1>2. version = "pre"
  BY <1>1 DEF InTimeInv, Served
<1>3. Sleep'
  BY <1>1 DEF InTimeInv, Sleep
<1>4. CASE ChangeSeen \/ AliveSeen \/ Pass
  <2>1. test' \in {"alive", "read", "passed"} /\ (test' = "read" => pod.js)
    BY <1>4 DEF ChangeSeen, AliveSeen, Pass, GoTo
  <2>2. Schedule' /\ WriterSchedule'
    BY <1>1, <2>1 DEF InTimeInv, Schedule, WriterSchedule, Waiting
  <2>3. Kept' /\ Served' /\ FailsForLoss'
    BY <1>1, <1>2, <2>1 DEF InTimeInv, Kept, Made, Writing, Waiting, Served, FailsForLoss
  <2> QED
    BY <1>3, <2>2, <2>3 DEF Rest
<1>5. ASSUME NEW k \in Kinds, Read(k) PROVE Rest'
  <2>1. test = "read" /\ Serving
    BY <1>2, <1>5 DEF Read, InTimeInv, Inv, Settled, Served, Serving
  <2>2. k \in lost \/ stored[k] = 2
    BY <2>1 DEF InTimeInv, Kept, WriterSchedule, Made, Waiting
  <2>3. test' = "read" \/ (test' = "failed" /\ k \in lost)
    BY <1>5, <2>1, <2>2 DEF Read
  <2>4. Schedule' /\ WriterSchedule'
    BY <1>1, <2>1, <2>3 DEF InTimeInv, Schedule, WriterSchedule, Waiting
  <2>5. Kept' /\ Served' /\ FailsForLoss'
    BY <1>1, <2>1, <2>3 DEF InTimeInv, Kept, Made, Writing, Served, Waiting, FailsForLoss
  <2> QED
    BY <1>3, <2>4, <2>5 DEF Rest
<1> QED
  BY <1>4, <1>5

\* No request fails and no timer ends the test.
LEMMA NoFailureInTime == ASSUME InTimeInv, InTime, RequestFails \/ TimesOut PROVE FALSE
<1>1. TimesOut
  BY DEF RequestFails, InTime
<1>2. /\ clock \in Nat /\ begun \in Nat /\ WaitSecs \in Nat /\ TestTimeout \in Nat
      /\ env.migrate \in Nat
  BY MigrationTestAssumption DEF InTimeInv, Inv, TypeOK, Environments
<1>3. clock < TestTimeout
  <2>1. CASE test \in Writing
    BY <1>2, <2>1, Undisturbed
  <2>2. CASE test \in Waiting
    BY <1>2, <2>2 DEF InTimeInv, Schedule, InTime
  <2> QED
    BY <1>1, <2>1, <2>2 DEF TimesOut, Running, InTimeInv, Inv, TypeOK, Writing, Waiting
<1> QED
  BY <1>1, <1>2, <1>3 DEF TimesOut

\* Time passes only while an anchor is on its way or the migration is.
LEMMA TickInTime == ASSUME InTimeInv, InTime, env' = env, Inv', Tick PROVE Rest'
<1> USE DEF podVars, dataVars, testVars, testLocals
<1>1. /\ clock' = clock + 1
      /\ UNCHANGED <<driver, podVars, dataVars, test, begun, version, writer, since, unread, writtenOn>>
  BY DEF Tick
<1>2. /\ clock \in Nat /\ begun \in Nat /\ WaitSecs \in Nat /\ TestTimeout \in Nat
      /\ env.start \in Nat /\ env.anchor \in Nat /\ env.migrate \in Nat
  BY MigrationTestAssumption DEF InTimeInv, Inv, TypeOK, Environments
<1>3. Kept' /\ Served' /\ FailsForLoss'
  BY <1>1 DEF InTimeInv, Kept, Made, Served, FailsForLoss, InTime
<1>4. Sleep'
  BY <1>1, <1>2 DEF Tick, InTimeInv, Sleep
<1>5. test \in {"pending", "write", "change", "alive"}
  <2>1. test \in ModelSteps => Serving
    BY Undisturbed DEF Writing, Serving
  <2> QED
    BY <2>1 DEF Tick, CanStep, InTimeInv, Inv, TypeOK
<1>6. CASE test = "pending"
  <2>1. Schedule' /\ WriterSchedule'
    BY <1>1, <1>2, <1>6 DEF Tick, InTimeInv, Schedule, WriterSchedule, Waiting
  <2> QED
    BY <1>3, <1>4, <2>1 DEF Rest
<1>7. CASE test = "write"
  <2>1. /\ pod.rust /\ pod.js
        /\ \A k \in Kinds : stored[k] = Made(k)
    BY <1>7, Undisturbed DEF Writing
  <2>2. \A k \in Kinds : writer[k] \notin {"create", "load", "replace"} /\ ~AnchorSeen(k)
    BY <1>7 DEF Tick, CanStep
  <2>3. ASSUME NEW k \in Kinds
        PROVE  /\ writer[k] = "anchorInit" => clock < begun + env.anchor
               /\ writer[k] = "anchorData" => clock < begun + 2 * env.anchor
               /\ writer[k] \in {"anchorInit", "anchorData", "done"}
    <3>1. anchored[k] \in 0..2 /\ anchored[k] <= stored[k] /\ since[k] \in Nat
      BY <1>7 DEF InTimeInv, Inv, TypeOK, Kept, Writing
    <3>2. writer[k] = "anchorInit" => stored[k] = 1 /\ anchored[k] # 1
      BY <2>1, <2>2 DEF Made, AnchorSeen, Serving
    <3>3. writer[k] = "anchorData" => stored[k] = 2 /\ anchored[k] # 2
      BY <2>1, <2>2 DEF Made, AnchorSeen, Serving
    <3>4. writer[k] \in {"anchorInit", "anchorData"} => clock < since[k] + env.anchor
      BY <2>1, <3>1, <3>2, <3>3 DEF Tick, AnchorPending, Serving
    <3>5. writer[k] = "anchorInit" => clock < begun + env.anchor
      BY <1>7, <3>4 DEF InTimeInv, WriterSchedule
    <3>6. writer[k] = "anchorData" => clock < begun + 2 * env.anchor
      <4>1. writer[k] = "anchorData" => since[k] <= begun + env.anchor
        BY <1>7 DEF InTimeInv, WriterSchedule
      <4> QED
        BY <1>2, <3>1, <3>4, <4>1
    <3> QED
      BY <2>2, <3>5, <3>6 DEF InTimeInv, Inv, TypeOK
  <2>4. PICK k \in Kinds : writer[k] # "done"
    BY <1>7 DEF Tick, CanStep, WritersDone
  <2>5. clock < begun + 2 * env.anchor
    BY <1>2, <2>3, <2>4
  <2>6. Schedule'
    BY <1>1, <1>2, <1>7, <2>5 DEF InTimeInv, Schedule, Waiting
  <2>7. WriterSchedule'
    BY <1>1, <1>2, <1>7, <2>3 DEF InTimeInv, WriterSchedule, Waiting
  <2> QED
    BY <1>3, <1>4, <2>6, <2>7 DEF Rest
<1>8. CASE test \in {"change", "alive"}
  <2>1. version = "pre"
    BY <1>8 DEF InTimeInv, Served, Waiting
  <2>2. clock < WaitSecs + env.migrate
    <3>1. CASE driver = "sleep"
      BY <1>2, <3>1 DEF Tick
    <3>2. CASE Migrating
      BY <3>2 DEF Tick
    <3>3. driver = "sleep" \/ target = "post"
      BY DEF InTimeInv, Inv, TypeOK, Sleep
    <3>4. CASE target = "post" /\ ~Migrating
      <4>1. pod.spec = "post" /\ pod.rust /\ pod.js
        BY <3>4 DEF Migrating, Serving
      <4>2. "post" \in Answers
        BY <4>1 DEF Answers
      <4> QED
        BY <1>2, <1>8, <2>1, <4>1, <4>2 DEF Tick, CanStep, NoticeDue, VersionChanged, Undefined
    <3> QED
      BY <3>1, <3>2, <3>3, <3>4
  <2>3. Schedule' /\ WriterSchedule'
    BY <1>1, <1>2, <1>8, <2>2 DEF InTimeInv, Schedule, WriterSchedule, Waiting
  <2> QED
    BY <1>3, <1>4, <2>3 DEF Rest
<1> QED
  BY <1>5, <1>6, <1>7, <1>8

LEMMA InTimeNext == InTimeInv /\ [Next]_vars => InTimeInv'
<1> SUFFICES ASSUME InTimeInv, [Next]_vars PROVE InTimeInv'
  OBVIOUS
<1>1. Inv' /\ env' = env /\ (InTime' <=> InTime)
  BY NextInv, SameRun DEF InTimeInv
<1> SUFFICES ASSUME InTime PROVE Rest'
  BY <1>1 DEF InTimeInv, Rest
<1>2. CASE \/ Migrate \/ DriverKilled \/ StopPod \/ StartRust \/ StartJs
           \/ \E k \in Kinds : AnchorArrives(k)
  BY <1>1, <1>2, NodeInTime
<1>3. CASE \/ StartTest \/ ReadVersion \/ CreateModels \/ AllWritten
           \/ \E k \in Kinds : Create(k) \/ AwaitAnchor(k) \/ Load(k) \/ Replace(k)
  BY <1>1, <1>3, WritesInTime
<1>4. CASE ChangeSeen \/ AliveSeen \/ Pass \/ \E k \in Kinds : Read(k)
  BY <1>1, <1>4, ReadsInTime
<1>5. CASE RequestFails \/ TimesOut
  BY <1>5, NoFailureInTime
<1>6. CASE Tick
  BY <1>1, <1>6, TickInTime
<1>7. CASE UNCHANGED vars
  BY <1>7 DEF vars, podVars, dataVars, testVars, testLocals, InTimeInv, Rest, Sleep, Schedule,
     WriterSchedule, Kept, Made, Served, FailsForLoss, InTime
<1> QED
  BY <1>2, <1>3, <1>4, <1>5, <1>6, <1>7 DEF Next, Step

LEMMA InTimeAlways == Spec => []InTimeInv
BY InTimeInit, InTimeNext, PTL DEF Spec

\* When pod, anchors and migration are in time for the two timers, a test that
\* passes made all its writes on the old version, before the migration.
THEOREM WritesPrecedeMigration == Spec => []WrittenBeforeMigration
<1>1. InTimeInv => WrittenBeforeMigration
  BY DEF InTimeInv, WriterSchedule, Kept, WrittenBeforeMigration
<1> QED
  BY <1>1, InTimeAlways, PTL

\* When they are in time and nothing is lost on the way, only a write that the
\* migration dropped fails the test: no timer and no restart does.
THEOREM FailsOnlyForLoss == Spec => []FailsForLoss
<1>1. InTimeInv => FailsForLoss
  BY DEF InTimeInv, FailsForLoss
<1> QED
  BY <1>1, InTimeAlways, PTL

-----------------------------------------------------------------------------
(* The refinement: in time, the test decides the migration.                *)

\* The node is migrated once: it is down only on its way to the new version,
\* and only the start of the new version drops anything.
OneMigration ==
  /\ ~pod.rust => pod.spec = "pre" /\ target = "post"
  /\ lost # {} => pod.spec = "post"

LEMMA InitOneMigration == Init => OneMigration
BY DEF Init, OneMigration

LEMMA NextOneMigration == Inv /\ OneMigration /\ [Next]_vars => OneMigration'
<1> SUFFICES ASSUME Inv, OneMigration, [Next]_vars PROVE OneMigration'
  OBVIOUS
<1> USE DEF podVars, dataVars
<1>1. CASE Migrate
  BY <1>1 DEF Migrate, OneMigration, Inv, OneWay
<1>2. CASE StopPod
  BY <1>2 DEF StopPod, Serving, OneMigration, Inv, OneWay, TypeOK
<1>3. CASE StartRust
  BY <1>3 DEF StartRust, OneMigration, Inv, TypeOK
<1>4. CASE StartJs
  BY <1>4 DEF StartJs, OneMigration, Inv, TypeOK
<1>5. UNCHANGED <<podVars, lost>> \/ Migrate \/ StopPod \/ StartRust \/ StartJs
  <2>1. CASE Step
    BY <2>1, Zenon DEF Step, ReadVersion, CreateModels, CreateModel, IndexModel, AllWritten,
                ChangeSeen, AliveSeen, Pass, GoTo, Create, AwaitAnchor, Load, Replace, Read
  <2> QED
    BY <2>1, Zenon DEF Next, vars, DriverKilled, AnchorArrives, StartTest, RequestFails, TimesOut, GoTo, Tick
<1>6. CASE UNCHANGED <<podVars, lost>>
  BY <1>6 DEF OneMigration
<1> QED
  BY <1>1, <1>2, <1>3, <1>4, <1>5, <1>6

\* In time, a test that passes was told the old version at its start.
Decided == InTime /\ test = "passed" => version = "pre"

LEMMA NextDecided == InTimeInv /\ Decided /\ [Next]_vars => Decided'
<1> SUFFICES ASSUME InTimeInv, Decided, [Next]_vars, InTime', test' = "passed" PROVE version' = "pre"
  BY DEF Decided
<1>1. InTime
  BY SameRun
<1>2. Pass \/ UNCHANGED <<test, version>>
  <2>1. CASE Step
    BY <2>1 DEF Step, ReadVersion, CreateModels, CreateModel, IndexModel, AllWritten,
                ChangeSeen, AliveSeen, GoTo, Create, AwaitAnchor, Load, Replace, Read, Write, testLocals
  <2> QED
    BY <2>1 DEF Next, vars, testVars, testLocals, Migrate, DriverKilled, StopPod, StartRust, StartJs,
                AnchorArrives, StartTest, RequestFails, TimesOut, GoTo, Tick
<1>3. CASE Pass
  BY <1>1, <1>3 DEF Pass, GoTo, testLocals, InTimeInv, Served, Waiting
<1>4. CASE UNCHANGED <<test, version>>
  BY <1>1, <1>4 DEF Decided
<1> QED
  BY <1>2, <1>3, <1>4

VerdictInv == InTimeInv /\ OneMigration /\ Decided

LEMMA VerdictAlways == Spec => []VerdictInv
<1>1. Init => VerdictInv
  BY InTimeInit, InitOneMigration DEF VerdictInv, Init, Decided
<1>2. VerdictInv /\ [Next]_vars => VerdictInv'
  BY InTimeNext, NextOneMigration, NextDecided DEF VerdictInv, InTimeInv
<1> QED
  BY <1>1, <1>2, PTL DEF Spec

Over == test \in {"passed", "failed"}

\* In time, a test that has ended was decided by the migration.
LEMMA OverIsMigrated == VerdictInv /\ InTime /\ Over => pod.spec = "post"
<1> SUFFICES ASSUME VerdictInv, InTime, Over PROVE pod.spec = "post"
  OBVIOUS
<1>1. CASE test = "passed"
  BY <1>1 DEF VerdictInv, Decided, InTimeInv, Inv, Settled
<1>2. CASE test = "failed"
  BY <1>2 DEF VerdictInv, OneMigration, InTimeInv, FailsForLoss
<1> QED
  BY <1>1, <1>2 DEF Over

\* In time, a step that neither migrates nor decides: at most one more kind is
\* written and anchored.
LEMMA StillWriting ==
  ASSUME VerdictInv, InTime, InTime', UNCHANGED <<pod.spec, lost>>,
         UNCHANGED test \/ (~Over /\ ~Over'),
         \/ UNCHANGED writer
         \/ \E k \in Kinds : /\ test = "write" /\ writer[k] # "done"
                              /\ \E w : writer' = [writer EXCEPT ![k] = w]
  PROVE  [Verdict!Next]_(Verdict!vars)
<1> DEFINE done == {k \in Kinds : writer[k] = "done"}
           verdict == IF Over THEN test ELSE "none"
<1>0. UNCHANGED verdict
  BY DEF Over
<1>1. CASE UNCHANGED writer
  <2>1. UNCHANGED done
    BY <1>1
  <2> QED
    BY <1>0, <2>1 DEF Verdict!vars, Over
<1>2. ASSUME NEW k \in Kinds, test = "write", writer[k] # "done", NEW w, writer' = [writer EXCEPT ![k] = w]
      PROVE  [Verdict!Next]_(Verdict!vars)
  <2>1. writer \in [Kinds -> {"create", "anchorInit", "load", "replace", "anchorData", "done"}]
    BY DEF VerdictInv, InTimeInv, Inv, TypeOK
  <2>2. pod.spec = "pre"
    BY <1>2, Undisturbed DEF VerdictInv, Writing
  <2>3. done' = done \cup {k} \/ UNCHANGED done
    BY <1>2, <2>1
  <2>4. CASE done' = done \cup {k}
    <3>1. Verdict!Write(k)
      BY <1>0, <2>2, <2>4 DEF Verdict!Write, Over
    <3> QED
      BY <3>1 DEF Verdict!Next
  <2>5. CASE UNCHANGED done
    BY <1>0, <2>5 DEF Verdict!vars, Over
  <2> QED
    BY <2>3, <2>4, <2>5
<1> QED
  BY <1>1, <1>2

\* In time, the start of the new version is the migration, of all that was written.
LEMMA Migrates ==
  ASSUME VerdictInv, InTime, InTime', StartRust, lost' \subseteq Kinds
  PROVE  Verdict!Migrate
<1>1. /\ pod.spec = "pre" /\ target = "post" /\ pod'.spec = "post"
      /\ test' = test /\ writer' = writer
  BY DEF StartRust, VerdictInv, OneMigration, InTimeInv, Inv, TypeOK, testVars, testLocals
<1>2. test \notin Writing /\ ~Over /\ ~Over'
  BY <1>1, Undisturbed, OverIsMigrated DEF StartRust, VerdictInv, Over
<1>3. test \in Waiting
  BY <1>2 DEF Over, Waiting, Writing, VerdictInv, InTimeInv, Inv, TypeOK
<1>4. {k \in Kinds : writer[k] = "done"} = Kinds
  BY <1>3 DEF VerdictInv, InTimeInv, WriterSchedule
<1> QED
  BY <1>1, <1>2, <1>4 DEF Verdict!Migrate, Over

\* In time, the test ends once, and passes exactly when nothing was lost.
LEMMA Decides ==
  ASSUME VerdictInv, VerdictInv', InTime, InTime', ~Over, Over',
         UNCHANGED <<pod.spec, lost, writer>>
  PROVE  Verdict!Decide
<1>1. pod.spec = "post"
  <2>1. (pod.spec = "post")'
    BY OverIsMigrated, PTL
  <2> QED
    BY <2>1
<1>2. test' = IF lost = {} THEN "passed" ELSE "failed"
  <2>1. test' = "passed" => lost' = {}
    <3>1. Inv' => LossIsNoticed'
      BY LossIsSeen, PTL
    <3> QED
      BY <3>1 DEF VerdictInv, Decided, InTimeInv, LossIsNoticed
  <2>2. test' = "failed" => lost' # {}
    BY DEF VerdictInv, InTimeInv, FailsForLoss
  <2> QED
    BY <2>1, <2>2 DEF Over
<1> QED
  BY <1>1, <1>2 DEF Verdict!Decide, Over

\* What a step does to what the verdict is made of.  Only a statement of a
\* writer moves its writer on, and only while the test writes.
LEMMA OtherSteps ==
  ASSUME TypeOK, [Next]_vars
  PROVE  \/ StartRust
         \/ /\ UNCHANGED <<pod.spec, lost>>
            /\ UNCHANGED test \/ ~Over
            /\ \/ UNCHANGED writer
               \/ /\ UNCHANGED test
                  /\ \E k \in Kinds : /\ test = "write" /\ writer[k] # "done"
                                       /\ \E w : writer' = [writer EXCEPT ![k] = w]
<1> USE DEF podVars, dataVars, testVars, testLocals
<1>1. CASE Migrate \/ DriverKilled \/ Tick \/ \E k \in Kinds : AnchorArrives(k)
  BY <1>1 DEF Migrate, DriverKilled, Tick, AnchorArrives
<1>2. CASE StopPod \/ StartJs
  BY <1>2 DEF StopPod, StartJs, TypeOK
<1>3. CASE \/ StartTest \/ ReadVersion \/ CreateModels \/ AllWritten \/ ChangeSeen \/ AliveSeen
           \/ Pass \/ RequestFails \/ TimesOut \/ \E k \in Kinds : Read(k)
  BY <1>3 DEF StartTest, ReadVersion, CreateModels, CreateModel, IndexModel, AllWritten, ChangeSeen,
     AliveSeen, Pass, RequestFails, TimesOut, Running, Read, GoTo, Over
<1>4. ASSUME NEW k \in Kinds, Create(k) \/ AwaitAnchor(k) \/ Load(k) \/ Replace(k)
      PROVE  /\ UNCHANGED <<pod.spec, lost>> /\ ~Over
             /\ \/ UNCHANGED writer
                \/ /\ UNCHANGED test /\ test = "write" /\ writer[k] # "done"
                   /\ \E w : writer' = [writer EXCEPT ![k] = w]
  BY <1>4 DEF Create, AwaitAnchor, AnchorSeen, Load, Replace, Write, Over
<1>5. CASE UNCHANGED vars
  BY <1>5 DEF vars
<1> QED
  BY <1>1, <1>2, <1>3, <1>4, <1>5, Zenon DEF Next, Step

\* Outside of it nothing is mapped.
LEMMA NotMapped == ~InTime /\ ~InTime' => UNCHANGED Verdict!vars
BY DEF Verdict!vars

LEMMA NextDecides == VerdictInv /\ VerdictInv' /\ [Next]_vars => [Verdict!Next]_(Verdict!vars)
<1> SUFFICES ASSUME VerdictInv, VerdictInv', [Next]_vars PROVE [Verdict!Next]_(Verdict!vars)
  OBVIOUS
<1>0. TypeOK
  BY DEF VerdictInv, InTimeInv, Inv
<1>1. InTime' <=> InTime
  BY SameRun
<1>2. CASE ~InTime
  BY <1>1, <1>2, NotMapped
<1>3. CASE InTime /\ StartRust
  <2>1. lost' \subseteq Kinds
    BY DEF VerdictInv, InTimeInv, Inv, TypeOK
  <2> QED
    BY <1>1, <1>3, <2>1, Migrates DEF Verdict!Next
<1>4. CASE InTime /\ ~StartRust
  <2>1. CASE ~Over /\ Over'
    <3>1. test' # test
      BY <2>1 DEF Over
    <3> QED
      BY <1>0, <1>1, <1>4, <2>1, <3>1, OtherSteps, Decides DEF Verdict!Next
  <2>2. CASE UNCHANGED test \/ (~Over /\ ~Over')
    BY <1>0, <1>1, <1>4, <2>2, OtherSteps, StillWriting
  <2> QED
    BY <1>0, <1>4, <2>1, <2>2, OtherSteps
<1> QED
  BY <1>2, <1>3, <1>4

\* When pod, anchors and migration are in time, every run of the test is one
\* of the abstract migration test: all is written and anchored, the node
\* migrates once, and then the verdict is what the migration lost.
THEOREM InTimeTestsDecide == Spec => DecidesTheMigration
<1>1. Init => Verdict!Init
  BY DEF Init, Verdict!Init
<1>2. VerdictInv /\ VerdictInv' /\ [Next]_vars => [Verdict!Next]_(Verdict!vars)
  BY NextDecides
<1> QED
  BY <1>1, <1>2, VerdictAlways, PTL DEF Spec, DecidesTheMigration, Verdict!Spec
=============================================================================
