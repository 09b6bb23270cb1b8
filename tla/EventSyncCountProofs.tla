------------------------ MODULE EventSyncCountProofs ------------------------
(***************************************************************************)
(* What EventSync promises for every number of nodes and events where      *)
(* feeds deliver each event once: then counting the events is as good as   *)
(* comparing them.                                                         *)
(***************************************************************************)
EXTENDS EventSyncProofs

-----------------------------------------------------------------------------
(* The scenarios: their steps, and finitely many events.                   *)

MaxNumber == Half + Half + N
Events == Models \X (1..MaxNumber)

Jobs == [at : Nodes, events : Seq(Events)]
Registers == [op : {"register"}, at : Nodes, model : Models]
AllWrites == [op : {"write"}, jobs : Seq(Jobs)]
AllSteps == Registers \cup AllWrites

LEMMA Numbers == Half \in Nat \ {0} /\ MaxNumber \in Nat /\ MaxNumber = Half + Half + N
<1>1. Half \in Nat \ {0}
  BY EventSyncAssumption, Zenon
<1> QED
  BY <1>1, Bounds DEF MaxNumber

LEMMA BatchType ==
  ASSUME NEW n \in Nodes, NEW model \in Models, NEW first \in Nat \ {0}, NEW count \in Nat,
         first + count <= MaxNumber + 1
  PROVE  Batch(n, model, first, count) \in Jobs
<1>1. MaxNumber \in Nat
  BY Numbers
<1> DEFINE events == [i \in 1..count |-> <<model, first + i - 1>>]
<1>2. ASSUME NEW i \in 1..count PROVE first + i - 1 \in 1..MaxNumber
  BY <1>1
<1>3. events \in [1..count -> Events]
  BY <1>2 DEF Events
<1>4. events \in Seq(Events)
  BY <1>3, SeqDef
<1> QED
  BY <1>4 DEF Batch, Jobs

LEMMA RegisterFromType ==
  ASSUME NEW first \in Nodes, NEW model \in Models
  PROVE  RegisterFrom(first, model) \in Seq(AllSteps)
<1>1. first \in Nat /\ N - first + 1 \in Nat
  BY Bounds DEF Nodes
<1>2. ASSUME NEW i \in 1..(N - first + 1) PROVE Register(first + i - 1, model) \in AllSteps
  BY <1>1, Bounds DEF Register, AllSteps, Registers, Nodes
<1>3. RegisterFrom(first, model) \in [1..(N - first + 1) -> AllSteps]
  BY <1>2 DEF RegisterFrom
<1> QED
  BY <1>1, <1>3, SeqDef

LEMMA WritesType == ASSUME NEW jobs \in Seq(Jobs) PROVE Writes(jobs) \in AllSteps
BY DEF Writes, AllSteps, AllWrites

LEMMA ScriptType == ASSUME NEW name \in Scenarios PROVE Script(name) \in Seq(AllSteps)
<1>1. /\ 1 \in Nodes /\ 2 \in Nodes /\ 1 \in Models /\ 2 \in Models
      /\ Half \in Nat \ {0} /\ Half + 1 \in Nat \ {0}
      /\ 1 + Half <= MaxNumber + 1 /\ Half + 1 + Half <= MaxNumber + 1
  BY Bounds, Numbers DEF Nodes, Models
<1>2. /\ Batch(1, 1, 1, Half) \in Jobs /\ Batch(1, 1, Half + 1, Half) \in Jobs
      /\ Batch(2, 1, Half + 1, Half) \in Jobs
  BY <1>1, BatchType
<1>3. /\ <<Writes(<<Batch(1, 1, 1, Half)>>)>> \in Seq(AllSteps)
      /\ <<Writes(<<Batch(1, 1, Half + 1, Half)>>)>> \in Seq(AllSteps)
      /\ <<Writes(<<Batch(1, 1, 1, Half), Batch(2, 1, Half + 1, Half)>>)>> \in Seq(AllSteps)
  <2> DEFINE first == Batch(1, 1, 1, Half)
             second == Batch(1, 1, Half + 1, Half)
             other == Batch(2, 1, Half + 1, Half)
  <2>1. first \in Jobs /\ second \in Jobs /\ other \in Jobs
    BY <1>2
  <2> HIDE DEF first, second, other
  <2>2. <<first>> \in Seq(Jobs) /\ <<second>> \in Seq(Jobs) /\ <<first, other>> \in Seq(Jobs)
    BY <2>1
  <2>3. Writes(<<first>>) \in AllSteps /\ Writes(<<second>>) \in AllSteps /\ Writes(<<first, other>>) \in AllSteps
    BY <2>2, WritesType
  <2>4. \A step \in AllSteps : <<step>> \in Seq(AllSteps)
    OBVIOUS
  <2> QED
    BY <2>3, <2>4 DEF first, second, other
<1>4. <<Register(1, 1), Writes(<<Batch(1, 1, 1, Half)>>)>> \in Seq(AllSteps)
  <2>1. Register(1, 1) \in AllSteps
    BY <1>1 DEF Register, AllSteps, Registers
  <2>2. Writes(<<Batch(1, 1, 1, Half)>>) \in AllSteps
    BY <1>2, WritesType
  <2> QED
    BY <2>1, <2>2
<1>5. /\ RegisterFrom(1, 1) \in Seq(AllSteps) /\ RegisterFrom(2, 1) \in Seq(AllSteps)
      /\ RegisterFrom(1, 2) \in Seq(AllSteps)
  BY <1>1, RegisterFromType
<1>6. CASE name = "linear"
  BY <1>4, <1>5, <1>6, ConcatProperties DEF Script
<1>7. CASE name = "active"
  BY <1>3, <1>5, <1>7, ConcatProperties DEF Script
<1>8. CASE name = "half"
  <2>1. RegisterFrom(2, 1) \o <<Writes(<<Batch(1, 1, Half + 1, Half)>>)>> \in Seq(AllSteps)
    BY <1>3, <1>5, ConcatProperties
  <2>2. <<Register(1, 1), Writes(<<Batch(1, 1, 1, Half)>>)>> \o RegisterFrom(2, 1) \in Seq(AllSteps)
    BY <1>4, <1>5, ConcatProperties
  <2> QED
    BY <1>3, <1>4, <1>8, <2>1, <2>2, ConcatProperties DEF Script
<1>9. CASE name = "two nodes"
  BY <1>3, <1>5, <1>9, ConcatProperties DEF Script
<1>10. CASE name = "many models"
  <2> DEFINE job(j) == IF j <= N THEN Batch(j, 1, j, 1) ELSE Batch(j - N, 2, j - N, 1)
             jobs == [j \in 1..(2 * N) |-> job(j)]
  <2>1. ASSUME NEW j \in 1..(2 * N) PROVE job(j) \in Jobs
    <3>1. CASE j <= N
      <4>1. j \in Nodes /\ j \in Nat \ {0} /\ 1 \in Nat /\ j + 1 <= MaxNumber + 1
        BY <3>1, Bounds, Numbers DEF Nodes
      <4> QED
        BY <1>1, <3>1, <4>1, BatchType
    <3>2. CASE ~(j <= N)
      <4>1. j - N \in Nodes /\ j - N \in Nat \ {0} /\ 1 \in Nat /\ (j - N) + 1 <= MaxNumber + 1
        BY <3>2, Bounds, Numbers DEF Nodes
      <4> QED
        BY <1>1, <3>2, <4>1, BatchType
    <3> QED
      BY <3>1, <3>2
  <2>2. jobs \in [1..(2 * N) -> Jobs]
    BY <2>1
  <2>3. jobs \in Seq(Jobs)
    BY <2>2, Bounds, SeqDef
  <2>4. <<Writes(jobs)>> \in Seq(AllSteps)
    BY <2>3, WritesType
  <2>5. RegisterFrom(1, 1) \o RegisterFrom(1, 2) \in Seq(AllSteps)
    BY <1>5, ConcatProperties
  <2>6. Script(name) = RegisterFrom(1, 1) \o RegisterFrom(1, 2) \o <<Writes(jobs)>>
    BY <1>10 DEF Script
  <2> HIDE DEF jobs
  <2> QED
    BY <2>4, <2>5, <2>6, ConcatProperties
<1> QED
  BY <1>6, <1>7, <1>8, <1>9, <1>10, EventSyncAssumption

LEMMA EventsType == ASSUME NEW step \in AllSteps PROVE EventsOf(step) \subseteq Events
<1> SUFFICES ASSUME step.op = "write", NEW e \in EventsOf(step) PROVE e \in Events
  BY DEF EventsOf
<1>1. step.jobs \in Seq(Jobs)
  BY DEF AllSteps, Registers, AllWrites
<1>2. PICK j \in DOMAIN step.jobs : \E i \in DOMAIN step.jobs[j].events : e = step.jobs[j].events[i]
  BY DEF EventsOf
<1>3. step.jobs[j] \in Jobs
  BY <1>1, <1>2
<1>4. step.jobs[j].events \in Seq(Events)
  BY <1>3 DEF Jobs
<1> QED
  BY <1>2, <1>4

\* A test has finitely many events, and none is that of another test.
LEMMA OwnEvents ==
  ASSUME NEW name \in Scenarios
  PROVE  /\ IsFiniteSet(EventsIn(Script(name))) /\ Foreign \notin EventsIn(Script(name))
         /\ EventsIn(Script(name)) \subseteq Models \X Nat
<1>1. EventsIn(Script(name)) \subseteq Events
  <2>1. Script(name) \in Seq(AllSteps)
    BY ScriptType
  <2>2. \A i \in DOMAIN Script(name) : Script(name)[i] \in AllSteps
    BY <2>1
  <2> QED
    BY <2>2, EventsType DEF EventsIn
<1>2. MaxNumber \in Nat
  BY Numbers
<1>3. IsFiniteSet(Models)
  <2>1. Models = 1..2
    BY DEF Models
  <2>2. 1 \in Int /\ 2 \in Int
    OBVIOUS
  <2>3. IsFiniteSet(1..2)
    BY <2>2, FS_Interval, Zenon
  <2> QED
    BY <2>1, <2>3
<1>4. IsFiniteSet(Events)
  <2>1. 1 \in Int /\ MaxNumber \in Int
    BY <1>2
  <2>2. IsFiniteSet(1..MaxNumber)
    BY <2>1, FS_Interval, Zenon
  <2> QED
    BY <1>3, <2>2, FS_Product, Zenon DEF Events
<1>5. Foreign \notin Events /\ Events \subseteq Models \X Nat
  BY <1>2 DEF Foreign, Events, Models
<1> QED
  BY <1>1, <1>4, <1>5, FS_Subset

-----------------------------------------------------------------------------
(* The strengthening.  Where feeds do not repeat events, the entries that   *)
(* are counted are as many different events; a count that is reached        *)
(* therefore stands for all events of the test.                             *)

\* The steps that are left write events of the test, and these are finitely
\* many and no other test's.
Owned ==
  /\ EventsIn(steps) \subseteq eventCids
  /\ IsFiniteSet(eventCids) /\ Foreign \notin eventCids

\* An event is in a feed only once it was written, and then in one place.
Once ==
  "repeated" \notin faults =>
    \A n \in Nodes :
      /\ Delivered(n) \subseteq written \cup {Foreign}
      /\ \A i, j \in DOMAIN feed[n] :
           feed[n][i] = feed[n][j] /\ feed[n][i] \in eventCids => i = j

\* The nodes whose wait is over have all events.
Waited ==
  "repeated" \notin faults =>
    /\ test = "wait" => \A n \in Nodes : n < reader.node => eventCids \subseteq Delivered(n)
    /\ test = "compare" => \A n \in Nodes : eventCids \subseteq Delivered(n)

CountInv == Inv /\ TypeOK /\ Owned /\ Once /\ Waited /\ FailsForCause

-----------------------------------------------------------------------------
\* What is counted is at most what there is, and each event at most once.
LEMMA CountedOnce ==
  ASSUME Inv, Owned, Once, "repeated" \notin faults
  PROVE  /\ Counted \subseteq DOMAIN feed[reader.node] /\ Counted \subseteq Nat
         /\ [i \in Counted |-> feed[reader.node][i]] \in Injection(Counted, eventCids)
<1>1. reader.from \in Nat /\ reader.resume \in Nat /\ reader.node \in Nodes
      /\ reader.resume <= Len(feed[reader.node])
  BY DEF Inv, WithinFeed
<1>2. DOMAIN feed[reader.node] = 1..Len(feed[reader.node]) /\ Len(feed[reader.node]) \in Nat
  BY <1>1 DEF Inv, Feeds
<1>3. Counted \subseteq DOMAIN feed[reader.node] /\ Counted \subseteq Nat
  BY <1>1, <1>2 DEF Counted
<1>4. \A i \in Counted : feed[reader.node][i] \in eventCids
  BY DEF Counted
<1>5. \A i, j \in Counted : feed[reader.node][i] = feed[reader.node][j] => i = j
  BY <1>1, <1>3, <1>4 DEF Once
<1> QED
  BY <1>3, <1>4, <1>5 DEF Injection, IsInjective

\* The pigeonhole: as many different events as there are, are all events.
LEMMA CompleteIsAll ==
  ASSUME Inv, Owned, Once, "repeated" \notin faults, Complete
  PROVE  \A e \in eventCids : \E i \in Counted : feed[reader.node][i] = e
<1> DEFINE f == [i \in Counted |-> feed[reader.node][i]]
<1>1. f \in Injection(Counted, eventCids) /\ IsFiniteSet(eventCids)
  BY CountedOnce DEF Owned
<1>2. /\ IsFiniteSet(Counted)
      /\ Cardinality(Counted) <= Cardinality(eventCids)
      /\ Cardinality(Counted) = Cardinality(eventCids) <=> f \in Surjection(Counted, eventCids)
  BY <1>1, FS_Injection, Zenon
<1>3. Cardinality(Counted) \in Nat /\ Cardinality(eventCids) \in Nat
  BY <1>1, <1>2, FS_CardinalityType, Zenon
<1>4. Cardinality(Counted) = Cardinality(eventCids)
  BY <1>2, <1>3 DEF Complete
<1>5. f \in Surjection(Counted, eventCids)
  BY <1>2, <1>4
<1> QED
  BY <1>5 DEF Surjection

LEMMA CompleteIsDelivered ==
  ASSUME Inv, Owned, Once, "repeated" \notin faults, Complete
  PROVE  eventCids \subseteq Delivered(reader.node)
BY CountedOnce, CompleteIsAll DEF Delivered

\* Then the comparison, which looks at the events, agrees with the count.
LEMMA CompleteIsAsWritten ==
  ASSUME Inv, Owned, Once, "repeated" \notin faults, Complete
  PROVE  AsWritten
<1> SUFFICES ASSUME NEW e \in eventCids
             PROVE  Cardinality({i \in Counted : feed[reader.node][i] = e}) = 1
  BY DEF AsWritten
<1>1. PICK i \in Counted : feed[reader.node][i] = e
  BY CompleteIsAll
<1>2. \A j \in Counted : feed[reader.node][j] = e => j = i
  <2>1. reader.node \in Nodes
    BY DEF Inv, WithinFeed
  <2> QED
    BY <1>1, <2>1, CountedOnce DEF Once
<1>3. {j \in Counted : feed[reader.node][j] = e} = {i}
  BY <1>1, <1>2
<1> QED
  BY <1>3, FS_Singleton

-----------------------------------------------------------------------------
LEMMA StepsType == Steps \subseteq AllSteps
<1> SUFFICES ASSUME NEW step \in Steps PROVE step \in AllSteps
  OBVIOUS
<1>1. PICK name \in Scenarios : \E i \in DOMAIN Script(name) : step = Script(name)[i]
  BY DEF Steps
<1>2. Script(name) \in Seq(AllSteps)
  BY ScriptType
<1> QED
  BY <1>1, <1>2

\* The step a script is at.
LEMMA CurrentType ==
  ASSUME TypeOK, Owned, InScript
  PROVE  /\ Current \in AllSteps /\ EventsOf(Current) \subseteq eventCids
         /\ Tail(steps) \in Seq(Steps) /\ EventsIn(Tail(steps)) \subseteq eventCids
<1>1. steps \in Seq(Steps) /\ steps # <<>>
  BY DEF TypeOK, InScript
<1>2. /\ Head(steps) = steps[1] /\ 1 \in DOMAIN steps
      /\ Tail(steps) \in Seq(Steps)
      /\ \A i \in DOMAIN Tail(steps) : i + 1 \in DOMAIN steps /\ Tail(steps)[i] = steps[i + 1]
  <2> HIDE DEF Steps
  <2> QED
    BY <1>1
<1>3. Current \in Steps /\ EventsOf(Current) \subseteq EventsIn(steps)
  BY <1>1, <1>2 DEF Current, EventsIn
<1>4. EventsIn(Tail(steps)) \subseteq EventsIn(steps)
  BY <1>2 DEF EventsIn
<1> QED
  BY <1>2, <1>3, <1>4, StepsType DEF Owned

LEMMA WriteEventType ==
  ASSUME TypeOK, Owned, WriteEvent
  PROVE  \E n \in Nodes, e \in eventCids :
           e \notin written /\ written' = written \cup {e} /\ Deliver(n, e)
<1>1. InScript /\ Current.op = "write"
  BY DEF WriteEvent
<1>2. Current \in AllSteps /\ EventsOf(Current) \subseteq eventCids
  BY <1>1, CurrentType
<1>3. Current.jobs \in Seq(Jobs)
  BY <1>1, <1>2 DEF AllSteps, Registers, AllWrites
<1>4. PICK j \in DOMAIN Current.jobs : \E i \in DOMAIN Current.jobs[j].events :
        /\ Current.jobs[j].events[i] \notin written
        /\ written' = written \cup {Current.jobs[j].events[i]}
        /\ Deliver(Current.jobs[j].at, Current.jobs[j].events[i])
  BY DEF WriteEvent
<1>5. Current.jobs[j] \in Jobs
  BY <1>3, <1>4
<1>6. Current.jobs[j].at \in Nodes
  BY <1>5 DEF Jobs
<1>7. \A i \in DOMAIN Current.jobs[j].events : Current.jobs[j].events[i] \in EventsOf(Current)
  BY <1>1, <1>4 DEF EventsOf
<1> QED
  BY <1>2, <1>4, <1>6, <1>7

\* Whoever delivers: to a node, an event of the test or of another one.
LEMMA DeliveryType ==
  ASSUME TypeOK, NEW n \in Nodes, NEW e \in eventCids \cup {Foreign}, Deliver(n, e)
  PROVE  feed' \in [Nodes -> Seq(eventCids \cup {Foreign})]
<1> DEFINE E == eventCids \cup {Foreign}
<1>1. feed \in [Nodes -> Seq(E)] /\ e \in E
  BY DEF TypeOK
<1> HIDE DEF E
<1>2. Append(feed[n], e) \in Seq(E)
  BY <1>1, AppendProperties
<1>3. feed' \in [Nodes -> Seq(E)]
  BY <1>1, <1>2 DEF Deliver
<1> QED
  BY <1>3 DEF E

LEMMA DeliveredType ==
  ASSUME TypeOK, NEW n \in Nodes
  PROVE  Delivered(n) \subseteq eventCids \cup {Foreign}
<1>1. feed[n] \in Seq(eventCids \cup {Foreign})
  BY DEF TypeOK
<1> QED
  BY <1>1 DEF Delivered

\* An event that was not in the feed, or another test's, is no repetition.
LEMMA DeliveryOnce ==
  ASSUME Inv, Owned, Once, "repeated" \notin faults, NEW n \in Nodes, NEW e, Deliver(n, e),
         e = Foreign \/ (e \in written' /\ e \notin Delivered(n)),
         written \subseteq written', UNCHANGED <<faults, eventCids>>
  PROVE  Once'
<1> SUFFICES ASSUME NEW m \in Nodes
             PROVE  /\ Delivered(m)' \subseteq written' \cup {Foreign}
                    /\ \A i, j \in DOMAIN feed'[m] :
                         feed'[m][i] = feed'[m][j] /\ feed'[m][i] \in eventCids => i = j
  BY DEF Once
<1>1. Len(feed[m]) \in Nat /\ feed[m] \in [1..Len(feed[m]) -> Delivered(m)]
  BY DEF Inv, Feeds
<1>2. /\ Delivered(m) \subseteq written \cup {Foreign}
      /\ \A i, j \in DOMAIN feed[m] :
           feed[m][i] = feed[m][j] /\ feed[m][i] \in eventCids => i = j
  BY DEF Once
<1>3. feed' = [o \in Nodes |-> IF o = n THEN Append(feed[o], e) ELSE feed[o]]
  BY DEF Deliver, Inv, Feeds
<1>4. CASE m = n
  <2>1. feed'[m] = Append(feed[m], e)
    BY <1>3, <1>4
  <2>2. /\ Append(feed[m], e) \in [1..(Len(feed[m]) + 1) -> Delivered(m) \cup {e}]
        /\ \A i \in 1..Len(feed[m]) : Append(feed[m], e)[i] = feed[m][i]
        /\ Append(feed[m], e)[Len(feed[m]) + 1] = e
    BY <1>1, AppendKeeps
  <2> DEFINE s == feed'[m]
             len == Len(feed[m])
             new == len + 1
  <2>3. /\ DOMAIN s = 1..new /\ DOMAIN feed[m] = 1..len /\ len \in Nat
        /\ \A i \in 1..len : s[i] = feed[m][i] /\ feed[m][i] \in Delivered(m)
        /\ s[new] = e
        /\ s \in [1..new -> Delivered(m) \cup {e}]
    BY <1>1, <2>1, <2>2
  <2>4. \A i \in 1..new : i \in 1..len \/ i = new
    BY <2>3
  <2>5. Delivered(m)' \subseteq written' \cup {Foreign}
    BY <1>2, <2>3 DEF Delivered
  <2>6. e \in eventCids => e \notin Delivered(m)
    BY <1>4 DEF Owned
  <2> HIDE DEF s, len, new
  <2>7. \A i, j \in 1..new : s[i] = s[j] /\ s[i] \in eventCids => i = j
    BY <1>2, <2>3, <2>4, <2>6
  <2> QED
    BY <2>3, <2>5, <2>7 DEF s
<1>5. CASE m # n
  <2>1. feed'[m] = feed[m]
    BY <1>3, <1>5
  <2> QED
    BY <1>2, <2>1 DEF Delivered
<1> QED
  BY <1>4, <1>5

-----------------------------------------------------------------------------
\* Who delivers what, as far as Once tells it apart.
LEMMA DeliveryKinds ==
  ASSUME Inv, TypeOK, Owned, Next
  PROVE  \/ UNCHANGED <<feed, written>>
         \/ \E n \in Nodes, e \in eventCids \cup {Foreign} :
              /\ Deliver(n, e)
              /\ UNCHANGED <<test, reader, steps, interests>>
              /\ \/ written' = written \cup {e} /\ e \in eventCids /\ e \notin written
                 \/ UNCHANGED written /\ (e = Foreign \/ "repeated" \in faults)
                 \/ UNCHANGED written /\ e \notin Delivered(n)
                      /\ \E o \in Nodes : e \in Delivered(o)
<1> USE DEF testVars, nodeVars
<1>1. CASE WriteEvent
  BY <1>1, WriteEventType DEF WriteEvent
<1>2. CASE \E n \in Nodes : DeliverExtra(n) \/ \E e \in eventCids : Synchronise(n, e)
  <2>1. PICK n \in Nodes : DeliverExtra(n) \/ \E e \in eventCids : Synchronise(n, e)
    BY <1>2
  <2>2. CASE DeliverExtra(n)
    BY <2>2, DeliveredType DEF DeliverExtra
  <2>3. CASE \E e \in eventCids : Synchronise(n, e)
    BY <2>3 DEF Synchronise
  <2> QED
    BY <2>1, <2>2, <2>3
<1>3. CASE \/ TakeToken \/ RegisterInterest \/ WritesDone \/ StartWait \/ ReadPage
           \/ WaitReturned \/ CompareReturned \/ ReadTimesOut \/ RequestFails
  BY <1>3 DEF TakeToken, RegisterInterest, WritesDone, StartWait, ReadPage, WaitReturned,
              CompareReturned, ReadTimesOut, RequestFails
<1> QED
  BY <1>1, <1>2, <1>3 DEF Next, Step

\* What stays what it was in every test.
LEMMA Fixed == ASSUME Next PROVE UNCHANGED <<faults, eventCids>>
BY DEF Next, Step, TakeToken, RegisterInterest, WriteEvent, WritesDone, StartWait, ReadPage,
       WaitReturned, CompareReturned, ReadTimesOut, RequestFails, DeliverExtra, Synchronise,
       testVars, nodeVars

\* The script goes on step by step, and writes what is its own.
LEMMA ScriptNext ==
  ASSUME TypeOK, Owned, Next
  PROVE  /\ Owned' /\ steps' \in Seq(Steps)
         /\ written' \subseteq eventCids /\ interests' \in [Nodes -> SUBSET Models]
<1>1. UNCHANGED eventCids
  BY Fixed
<1>2. /\ EventsIn(steps) \subseteq eventCids /\ steps \in Seq(Steps)
      /\ written \subseteq eventCids /\ interests \in [Nodes -> SUBSET Models]
  BY DEF TypeOK, Owned
<1>3. /\ EventsIn(steps') \subseteq eventCids /\ steps' \in Seq(Steps)
      /\ written' \subseteq eventCids /\ interests' \in [Nodes -> SUBSET Models]
  <2>1. CASE RegisterInterest
    <3>1. InScript /\ Current.op = "register" /\ steps' = Tail(steps) /\ UNCHANGED written
      BY <2>1 DEF RegisterInterest
    <3>2. Current \in AllSteps /\ Tail(steps) \in Seq(Steps) /\ EventsIn(Tail(steps)) \subseteq eventCids
      BY <3>1, CurrentType
    <3>3. Current.model \in Models
      BY <3>1, <3>2 DEF AllSteps, Registers, AllWrites
    <3>4. interests' \in [Nodes -> SUBSET Models]
      BY <1>2, <2>1, <3>3 DEF RegisterInterest
    <3> QED
      BY <1>2, <3>1, <3>2, <3>4
  <2>2. CASE WriteEvent
    <3>1. UNCHANGED <<steps, interests>>
      BY <2>2 DEF WriteEvent
    <3>2. written' \subseteq eventCids
      BY <1>2, <2>2, WriteEventType
    <3> QED
      BY <1>2, <3>1, <3>2
  <2>3. CASE WritesDone
    <3>1. InScript /\ steps' = Tail(steps) /\ UNCHANGED <<written, interests>>
      BY <2>3 DEF WritesDone, nodeVars
    <3> QED
      BY <1>2, <3>1, CurrentType
  <2>4. CASE UNCHANGED <<steps, written, interests>>
    BY <1>2, <2>4
  <2>5. RegisterInterest \/ WriteEvent \/ WritesDone \/ UNCHANGED <<steps, written, interests>>
    BY DEF Next, Step, TakeToken, StartWait, ReadPage, WaitReturned, CompareReturned,
           ReadTimesOut, RequestFails, DeliverExtra, Synchronise, testVars, nodeVars
  <2> QED
    BY <2>1, <2>2, <2>3, <2>4, <2>5
<1> QED
  BY <1>1, <1>3 DEF Owned

LEMMA TypeNext ==
  ASSUME Inv, Inv', TypeOK, Owned, Next
  PROVE  TypeOK'
<1>1. UNCHANGED <<faults, eventCids>>
  BY Fixed
<1>2. /\ steps' \in Seq(Steps) /\ written' \subseteq eventCids'
      /\ interests' \in [Nodes -> SUBSET Models]
  BY <1>1, ScriptNext
<1>3. test' \in {"tokens", "script", "wait", "compare", "passed", "failed"}
  BY DEF TypeOK, Next, Step, TakeToken, RegisterInterest, WriteEvent, WritesDone, StartWait,
         ReadPage, WaitReturned, CompareReturned, GoOn, Fail, ReadTimesOut, RequestFails,
         DeliverExtra, Synchronise, testVars, nodeVars
<1>4. feed' \in [Nodes -> Seq(eventCids' \cup {Foreign})]
  <2>1. CASE UNCHANGED feed
    BY <1>1, <2>1 DEF TypeOK
  <2>2. CASE \E n \in Nodes, e \in eventCids \cup {Foreign} : Deliver(n, e)
    BY <1>1, <2>2, DeliveryType
  <2> QED
    BY <2>1, <2>2, DeliveryKinds
<1>5. tokens' \in Seq(Nat) /\ Len(tokens)' <= N
  <2>1. Len(tokens)' \in 0..N /\ tokens' \in [1..Len(tokens') -> Nat]
    BY DEF Inv, TokensTaken
  <2> QED
    BY <2>1, Bounds, SeqDef
<1>6. reader' \in [node : Nodes, from : Nat, resume : Nat, over : BOOLEAN]
  BY DEF Inv, WithinFeed
<1>7. faults' \in Faults /\ eventCids' \subseteq Models \X Nat
  BY <1>1 DEF TypeOK
<1> QED
  BY <1>2, <1>3, <1>4, <1>5, <1>6, <1>7 DEF TypeOK

LEMMA OnceNext ==
  ASSUME Inv, TypeOK, Owned, Once, Next
  PROVE  Once'
<1>1. UNCHANGED <<faults, eventCids>>
  BY Fixed
<1> SUFFICES ASSUME "repeated" \notin faults PROVE Once'
  BY <1>1 DEF Once
<1>2. CASE UNCHANGED <<feed, written>>
  BY <1>1, <1>2 DEF Once, Delivered
<1>3. ASSUME NEW n \in Nodes, NEW e \in eventCids \cup {Foreign}, Deliver(n, e),
             \/ written' = written \cup {e} /\ e \in eventCids /\ e \notin written
             \/ UNCHANGED written /\ e = Foreign
             \/ UNCHANGED written /\ e \notin Delivered(n) /\ \E o \in Nodes : e \in Delivered(o)
      PROVE  Once'
  <2>1. \A o \in Nodes : Delivered(o) \subseteq written \cup {Foreign}
    BY DEF Once
  <2>2. Foreign \notin eventCids
    BY DEF Owned
  <2>3. written \subseteq written' /\ (e = Foreign \/ (e \in written' /\ e \notin Delivered(n)))
    <3>1. CASE written' = written \cup {e} /\ e \in eventCids /\ e \notin written
      BY <2>1, <2>2, <3>1
    <3>2. CASE UNCHANGED written /\ e = Foreign
      BY <3>2
    <3>3. CASE UNCHANGED written /\ e \notin Delivered(n) /\ \E o \in Nodes : e \in Delivered(o)
      BY <2>1, <3>3
    <3> QED
      BY <1>3, <3>1, <3>2, <3>3
  <2> QED
    BY <1>1, <1>3, <2>3, DeliveryOnce
<1> QED
  BY <1>2, <1>3, DeliveryKinds

LEMMA WaitedNext ==
  ASSUME Inv, TypeOK, Owned, Once, Waited, Next
  PROVE  Waited'
<1>1. UNCHANGED <<faults, eventCids>>
  BY Fixed
<1> SUFFICES ASSUME "repeated" \notin faults PROVE Waited'
  BY <1>1 DEF Waited
<1>2. \A m \in Nodes : Delivered(m) \subseteq Delivered(m)'
  <2>1. Feeds
    BY DEF Inv
  <2>2. UNCHANGED feed \/ \E n, e : Deliver(n, e)
    BY DeliveryKinds
  <2> QED
    BY <2>1, <2>2, Grows DEF Delivered
<1>3. reader.node \in Nodes /\ N \in Nat
  BY Bounds DEF Inv, WithinFeed
<1>4. CASE StartWait
  BY <1>4 DEF StartWait, ReadOf, Waited, Nodes
<1>5. CASE WaitReturned /\ Complete
  <2>1. eventCids \subseteq Delivered(reader.node)
    BY <1>5, CompleteIsDelivered
  <2>2. \A n \in Nodes : n < reader.node => eventCids \subseteq Delivered(n)
    BY <1>5 DEF WaitReturned, Waited
  <2>3. CASE reader.node < N
    <3>1. test' = "wait" /\ reader'.node = reader.node + 1
      BY <1>5, <2>3 DEF WaitReturned, GoOn, ReadOf
    <3>2. \A n \in Nodes : n < reader.node + 1 => n < reader.node \/ n = reader.node
      BY <1>3 DEF Nodes
    <3> QED
      BY <1>1, <1>2, <2>1, <2>2, <3>1, <3>2 DEF Waited
  <2>4. CASE ~(reader.node < N)
    <3>1. test' = "compare"
      BY <1>5, <2>4 DEF WaitReturned, GoOn
    <3>2. \A n \in Nodes : n < reader.node \/ n = reader.node
      BY <1>3, <2>4 DEF Nodes
    <3> QED
      BY <1>1, <1>2, <2>1, <2>2, <3>1, <3>2 DEF Waited
  <2> QED
    BY <2>3, <2>4
<1>6. CASE /\ test' = "wait" => test = "wait" /\ reader'.node = reader.node
           /\ test' = "compare" => test = "compare"
  BY <1>1, <1>2, <1>6 DEF Waited
<1>7. \/ StartWait
      \/ WaitReturned /\ Complete
      \/ /\ test' = "wait" => test = "wait" /\ reader'.node = reader.node
         /\ test' = "compare" => test = "compare"
  <2>1. CASE ReadPage \/ ReadTimesOut
    <3>1. reader'.node = reader.node /\ UNCHANGED test
      BY <2>1 DEF ReadPage, ReadTimesOut, Inv, WithinFeed
    <3> QED
      BY <3>1
  <2>2. CASE CompareReturned
    BY <2>2 DEF CompareReturned, GoOn, Fail
  <2>3. CASE WaitReturned
    BY <2>3 DEF WaitReturned, Fail
  <2>4. CASE TakeToken \/ RegisterInterest \/ WriteEvent \/ WritesDone \/ RequestFails
    BY <2>4 DEF TakeToken, RegisterInterest, WriteEvent, WritesDone, RequestFails, Fail, InScript
  <2>5. CASE \E n \in Nodes : DeliverExtra(n) \/ \E e \in eventCids : Synchronise(n, e)
    BY <2>5 DEF DeliverExtra, Synchronise, testVars
  <2> QED
    BY <2>1, <2>2, <2>3, <2>4, <2>5 DEF Next, Step
<1> QED
  BY <1>4, <1>5, <1>6, <1>7

LEMMA FailsNext ==
  ASSUME Inv, TypeOK, Owned, Once, FailsForCause, Next
  PROVE  FailsForCause'
<1>1. UNCHANGED <<faults, eventCids>>
  BY Fixed
<1> SUFFICES ASSUME "repeated" \notin faults, "refused" \notin faults, test' = "failed"
             PROVE  reader'.over
  BY <1>1 DEF FailsForCause
<1>2. CASE WaitReturned \/ CompareReturned
  <2>1. Fail /\ ~Complete
    BY <1>2, CompleteIsAsWritten DEF WaitReturned, CompareReturned, GoOn, Fail
  <2> QED
    BY <1>2, <2>1 DEF WaitReturned, CompareReturned, Returned, Fail
<1>3. CASE DeliverExtra(1) \/ \E n \in Nodes : DeliverExtra(n) \/ \E e \in eventCids : Synchronise(n, e)
  BY <1>3 DEF DeliverExtra, Synchronise, Running, testVars
<1>4. CASE ReadPage \/ ReadTimesOut
  BY <1>4 DEF ReadPage, ReadTimesOut, Reading
<1>5. CASE TakeToken \/ RegisterInterest \/ WriteEvent \/ WritesDone \/ StartWait \/ RequestFails
  BY <1>5 DEF TakeToken, RegisterInterest, WriteEvent, WritesDone, StartWait, RequestFails, InScript
<1> QED
  BY <1>2, <1>3, <1>4, <1>5 DEF Next, Step

-----------------------------------------------------------------------------
LEMMA InitCount == Init => CountInv
<1> SUFFICES ASSUME Init PROVE CountInv
  OBVIOUS
<1>1. PICK name \in Scenarios : steps = Script(name) /\ eventCids = EventsIn(Script(name))
  BY DEF Init
<1>2. Script(name) \in Seq(Steps)
  <2>1. Script(name) \in Seq(AllSteps)
    BY ScriptType
  <2>2. \A i \in DOMAIN Script(name) : Script(name)[i] \in Steps
    BY DEF Steps
  <2> HIDE DEF Script, Steps, AllSteps
  <2>3. Script(name) \in [1..Len(Script(name)) -> Steps] /\ Len(Script(name)) \in Nat
    BY <2>1, <2>2
  <2> QED
    BY <2>3, SeqDef
<1>3. Owned
  BY <1>1, OwnEvents DEF Owned
<1>4. TypeOK
  <2>1. eventCids \subseteq Models \X Nat
    BY <1>1, OwnEvents
  <2>2. reader \in [node : Nodes, from : Nat, resume : Nat, over : BOOLEAN]
    BY Bounds DEF Init, Nodes
  <2>3. tokens \in Seq(Nat) /\ Len(tokens) <= N
    BY Bounds DEF Init
  <2>4. feed \in [Nodes -> Seq(eventCids \cup {Foreign})]
    BY DEF Init
  <2>5. interests \in [Nodes -> SUBSET Models] /\ written \subseteq eventCids
    BY DEF Init
  <2>6. faults \in Faults /\ test \in {"tokens", "script", "wait", "compare", "passed", "failed"}
    BY DEF Init
  <2> QED
    BY <1>1, <1>2, <2>1, <2>2, <2>3, <2>4, <2>5, <2>6 DEF TypeOK
<1>5. Once
  <2>1. \A n \in Nodes : feed[n] = <<>> /\ DOMAIN feed[n] = {}
    BY DEF Init
  <2> QED
    BY <2>1 DEF Once, Delivered
<1>6. Waited /\ FailsForCause
  BY DEF Init, Waited, FailsForCause
<1> QED
  BY <1>3, <1>4, <1>5, <1>6, InitInv DEF CountInv

LEMMA NextCount == CountInv /\ [Next]_vars => CountInv'
<1> SUFFICES ASSUME CountInv, [Next]_vars PROVE CountInv'
  OBVIOUS
<1>1. Inv'
  BY NextInv DEF CountInv
<1>2. CASE Next
  <2>1. TypeOK'
    BY <1>1, <1>2, TypeNext DEF CountInv
  <2>2. Owned'
    BY <1>2, ScriptNext DEF CountInv
  <2>3. Once' /\ Waited' /\ FailsForCause'
    BY <1>2, OnceNext, WaitedNext, FailsNext DEF CountInv
  <2> QED
    BY <1>1, <2>1, <2>2, <2>3 DEF CountInv
<1>3. CASE UNCHANGED vars
  <2>1. TypeOK' /\ Owned'
    BY <1>3 DEF vars, testVars, nodeVars, CountInv, TypeOK, Owned
  <2>2. Once' /\ Waited' /\ FailsForCause'
    BY <1>3 DEF vars, testVars, nodeVars, CountInv, Once, Waited, FailsForCause, Delivered
  <2> QED
    BY <1>1, <2>1, <2>2 DEF CountInv
<1> QED
  BY <1>2, <1>3

\* Every state of a test is well-formed, for any number of nodes and events and
\* all of its scripts (sync-events.test.ts).
THEOREM TypeCorrect == Spec => []TypeOK
<1>1. CountInv => TypeOK
  BY DEF CountInv
<1> QED
  BY InitCount, NextCount, <1>1, PTL DEF Spec

\* waitForEventCount counts (sync-events.test.ts:114-126); where no feed repeats
\* an event, a wait that is over means that every node has delivered every event.
THEOREM WaitsMeanSynced == Spec => []WaitMeansSynced
<1>1. CountInv => WaitMeansSynced
  BY DEF CountInv, Waited, WaitMeansSynced
<1> QED
  BY InitCount, NextCount, <1>1, PTL DEF Spec

\* Where no request is refused and no event repeated, only time fails a test:
\* what was complete by its count equals what was written, whatever the order
\* of writes, registrations, pages and foreign events.
THEOREM FailuresHaveCause == Spec => []FailsForCause
<1>1. CountInv => FailsForCause
  BY DEF CountInv
<1> QED
  BY InitCount, NextCount, <1>1, PTL DEF Spec

=============================================================================
