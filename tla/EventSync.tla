------------------------------ MODULE EventSync ------------------------------
(***************************************************************************)
(* The tests of suite/src/__tests__/correctness/fast/sync-events.test.ts:  *)
(* events are written on some nodes, the nodes synchronise what they are   *)
(* both interested in, and the test waits until the feed of every node has *)
(* delivered all events.  It reads each feed twice from the same resume    *)
(* token: once to wait, by the number of events, and once to compare.      *)
(*                                                                         *)
(* The nodes, their feeds and their synchronisation are outside src/.      *)
(***************************************************************************)
EXTENDS Naturals, FiniteSets, Sequences

CONSTANTS
  N,          \* number of CERAMIC_URLS
  Half,       \* number of events in a batch
  Scenarios,  \* the tests that are run, each on its own
  Faults,     \* what may disturb a test
  PageSize,   \* events in a page of a feed
  MaxExtra    \* bound: foreign and repeated events in all feeds

ASSUME EventSyncAssumption ==
  /\ N \in Nat \ {0, 1}
  /\ Half \in Nat \ {0}
  /\ Scenarios \subseteq {"linear", "active", "half", "two nodes", "many models"}
  /\ Faults \subseteq SUBSET {"slow", "refused", "repeated", "foreign"}
  /\ PageSize \in Nat \ {0}
  /\ MaxExtra \in Nat

Nodes == 1..N
Models == {1, 2}  \* bound: two of the ten models of the last test

-----------------------------------------------------------------------------
(* The scenarios, as the steps a test takes between getResumeTokens and      *)
(* waitForEventCount.                                                        *)

Register(n, model) == [op |-> "register", at |-> n, model |-> model]

\* The writes that one Promise.all awaits: a sequence of writeEvents.
Writes(jobs) == [op |-> "write", jobs |-> jobs]

\* randomEvents: `unique` makes them different from each other.
Batch(n, model, first, count) ==
  [at |-> n, events |-> [i \in 1..count |-> <<model, first + i - 1>>]]

\* for (let idx = first; idx < CeramicUrls.length; idx++) registerInterest
RegisterFrom(first, model) == [i \in 1..(N - first + 1) |-> Register(first + i - 1, model)]

Script(name) ==
  CASE name = "linear" ->
         <<Register(1, 1), Writes(<<Batch(1, 1, 1, Half)>>)>> \o RegisterFrom(2, 1)
    [] name = "active" ->
         RegisterFrom(1, 1) \o <<Writes(<<Batch(1, 1, 1, Half)>>)>>
    [] name = "half" ->
         <<Register(1, 1), Writes(<<Batch(1, 1, 1, Half)>>)>>
           \o RegisterFrom(2, 1) \o <<Writes(<<Batch(1, 1, Half + 1, Half)>>)>>
    [] name = "two nodes" ->
         RegisterFrom(1, 1)
           \o <<Writes(<<Batch(1, 1, 1, Half), Batch(2, 1, Half + 1, Half)>>)>>
    [] name = "many models" ->
         RegisterFrom(1, 1) \o RegisterFrom(1, 2)
           \o <<Writes([j \in 1..(2 * N) |-> IF j <= N THEN Batch(j, 1, j, 1)
                                                       ELSE Batch(j - N, 2, j - N, 1)])>>

Steps == UNION {{Script(name)[i] : i \in DOMAIN Script(name)} : name \in Scenarios}

EventsOf(step) ==
  IF step.op = "write"
  THEN UNION {{step.jobs[j].events[i] : i \in DOMAIN step.jobs[j].events} : j \in DOMAIN step.jobs}
  ELSE {}

EventsIn(script) == UNION {EventsOf(script[i]) : i \in DOMAIN script}

Foreign == <<0, 0>>
ModelOf(e) == e[1]

-----------------------------------------------------------------------------
VARIABLES
  faults,    \* what may disturb it
  test,      \* what it does: "tokens", "script", "wait", "compare", "passed", "failed"
  tokens,    \* resumeTokens, in the order of the urls
  steps,     \* the steps of its script that are left
  eventCids, \* the events of its script
  written,   \* events whose POST was answered
  reader,    \* readEvents: its node, where it began and is, whether its time is over
  interests, \* interests[n]: models node n is interested in
  feed       \* feed[n]: what the feed of node n delivers, in order

testVars == <<test, tokens, steps, eventCids, written, reader>>
nodeVars == <<interests, feed>>
vars == <<faults, testVars, nodeVars>>

Delivered(n) == {feed[n][i] : i \in DOMAIN feed[n]}
Running == test \notin {"passed", "failed"}

Init ==
  /\ faults \in Faults
  /\ test = "tokens"
  /\ tokens = <<>>
  /\ \E name \in Scenarios : steps = Script(name) /\ eventCids = EventsIn(Script(name))
  /\ written = {}
  /\ reader = [node |-> 1, from |-> 0, resume |-> 0, over |-> FALSE]
  /\ interests = [n \in Nodes |-> {}]
  /\ feed = [n \in Nodes |-> <<>>]

-----------------------------------------------------------------------------
(* The nodes.                                                              *)

Deliver(n, e) == feed' = [feed EXCEPT ![n] = Append(@, e)]

\* Recon: an event another node has, of a model both are interested in.
Synchronise(n, e) ==
  /\ Running
  /\ e \in eventCids \ Delivered(n)
  /\ ModelOf(e) \in interests[n]
  /\ \E o \in Nodes : ModelOf(e) \in interests[o] /\ e \in Delivered(o)
  /\ Deliver(n, e)
  /\ UNCHANGED <<faults, testVars, interests>>

\* Deliveries that are not the first one of an event of the test.
Extras(n) == {i \in DOMAIN feed[n] :
                feed[n][i] = Foreign \/ \E j \in 1..(i - 1) : feed[n][j] = feed[n][i]}

\* An event of another test, or one that the feed delivers once more.
DeliverExtra(n) ==
  /\ Running
  /\ Cardinality(UNION {{o} \X Extras(o) : o \in Nodes}) < MaxExtra
  /\ \/ "foreign" \in faults /\ Deliver(n, Foreign)
     \/ "repeated" \in faults /\ \E e \in Delivered(n) : Deliver(n, e)
  /\ UNCHANGED <<faults, testVars, interests>>

-----------------------------------------------------------------------------
(* The test: tokens, and the script.                                       *)

\* getStartingToken, of one url after the other.
TakeToken ==
  /\ test = "tokens"
  /\ tokens' = Append(tokens, Len(feed[Len(tokens) + 1]))
  /\ test' = IF Len(tokens) + 1 = N THEN "script" ELSE "tokens"
  /\ UNCHANGED <<faults, steps, eventCids, written, reader, nodeVars>>

InScript == test = "script" /\ steps # <<>>
Current == Head(steps)

RegisterInterest ==
  /\ InScript /\ Current.op = "register"
  /\ interests' = [interests EXCEPT ![Current.at] = @ \cup {Current.model}]
  /\ steps' = Tail(steps)
  /\ UNCHANGED <<faults, test, tokens, eventCids, written, reader, feed>>

\* One POST of writeEvents: the events of a job one after the other, the jobs
\* at the same time.
WriteEvent ==
  /\ InScript /\ Current.op = "write"
  /\ \E j \in DOMAIN Current.jobs :
       LET job == Current.jobs[j] IN
       \E i \in DOMAIN job.events :
         /\ job.events[i] \notin written
         /\ \A h \in 1..(i - 1) : job.events[h] \in written
         /\ written' = written \cup {job.events[i]}
         /\ Deliver(job.at, job.events[i])
  /\ UNCHANGED <<faults, test, tokens, steps, eventCids, reader, interests>>

WritesDone ==
  /\ InScript /\ Current.op = "write"
  /\ EventsOf(Current) \subseteq written
  /\ steps' = Tail(steps)
  /\ UNCHANGED <<faults, test, tokens, eventCids, written, reader, nodeVars>>

-----------------------------------------------------------------------------
(* readEvents, waitForEventCount and the comparison.                       *)

\* Mutant of StartOf: a read starts at the present end of the feed.
EndOfFeed(n) == Len(feed[n])

\* The token readEvents(urls[n], resumeTokens[n], ...) starts at.
StartOf(n) == tokens[n]

ReadOf(n) == [node |-> n, from |-> StartOf(n), resume |-> StartOf(n), over |-> FALSE]

StartWait ==
  /\ test = "script" /\ steps = <<>>
  /\ test' = "wait"
  /\ reader' = ReadOf(1)
  /\ UNCHANGED <<faults, tokens, steps, eventCids, written, nodeVars>>

\* Mutant of Counted: the events of others are counted too.
CountedUnfiltered == (reader.from + 1)..reader.resume

\* Where in the feed the `events` of readEvents were found: eventCids.includes.
Counted ==
  {i \in (reader.from + 1)..reader.resume : feed[reader.node][i] \in eventCids}

\* events.length >= eventCids.length
Complete == Cardinality(Counted) >= Cardinality(eventCids)

Reading == test \in {"wait", "compare"}
Returned == Complete \/ reader.over

\* A page of the feed.  An empty page changes nothing.
ReadPage ==
  /\ Reading /\ ~Returned
  /\ \E to \in (reader.resume + 1)..(reader.resume + PageSize) :
       /\ to <= Len(feed[reader.node])
       /\ to < reader.resume + PageSize => to = Len(feed[reader.node])
       /\ reader' = [reader EXCEPT !.resume = to]
  /\ UNCHANGED <<faults, test, tokens, steps, eventCids, written, nodeVars>>

\* Mutant of ReadTimesOut: no timeout.
NoTimeout == FALSE /\ UNCHANGED vars

\* timeoutMs have passed at the head of the loop.
ReadTimesOut ==
  /\ "slow" \in faults
  /\ Reading /\ ~Returned
  /\ reader' = [reader EXCEPT !.over = TRUE]
  /\ UNCHANGED <<faults, test, tokens, steps, eventCids, written, nodeVars>>

\* Mutant of GoOn: the loop goes one url too far.
GoOnPastLast(next) ==
  IF reader.node <= N
  THEN /\ reader' = [node |-> reader.node + 1, from |-> 0, resume |-> 0, over |-> FALSE]
       /\ UNCHANGED test
  ELSE test' = next /\ UNCHANGED reader

\* What follows a read that was good.
GoOn(next) ==
  IF reader.node < N
  THEN reader' = ReadOf(reader.node + 1) /\ UNCHANGED test
  ELSE test' = next /\ reader' = IF next = "compare" THEN ReadOf(1) ELSE reader

Fail == test' = "failed" /\ UNCHANGED reader

\* Mutant of WaitReturned: the last url decides alone.
WaitReturnedForLast ==
  /\ test = "wait" /\ Returned
  /\ IF Complete \/ reader.node < N THEN GoOn("compare") ELSE Fail
  /\ UNCHANGED <<faults, tokens, steps, eventCids, written, nodeVars>>

\* The loop of waitForEventCount.
WaitReturned ==
  /\ test = "wait" /\ Returned
  /\ IF Complete THEN GoOn("compare") ELSE Fail
  /\ UNCHANGED <<faults, tokens, steps, eventCids, written, nodeVars>>

\* Mutant of AsWritten: only the numbers of events are compared.
AsManyAsWritten == Cardinality(Counted) = Cardinality(eventCids)

\* expect(events).toEqual(sortedModelEvents)
AsWritten ==
  \A e \in eventCids : Cardinality({i \in Counted : feed[reader.node][i] = e}) = 1

CompareReturned ==
  /\ test = "compare" /\ Returned
  /\ IF AsWritten THEN GoOn("passed") ELSE Fail
  /\ UNCHANGED <<faults, tokens, steps, eventCids, written, nodeVars>>

\* A request is refused or lost: the expectation on its status fails.
RequestFails ==
  /\ "refused" \in faults
  /\ Running
  /\ Fail
  /\ UNCHANGED <<faults, tokens, steps, eventCids, written, nodeVars>>

-----------------------------------------------------------------------------
Step ==
  \/ TakeToken \/ RegisterInterest \/ WriteEvent \/ WritesDone
  \/ StartWait \/ ReadPage \/ WaitReturned \/ CompareReturned

Next ==
  \/ Step \/ ReadTimesOut \/ RequestFails
  \/ \E n \in Nodes : DeliverExtra(n) \/ \E e \in eventCids : Synchronise(n, e)

\* The test goes on and its timer fires; nodes synchronise unless they are
\* slow.
Fairness ==
  /\ WF_vars(Step)
  /\ WF_vars(ReadTimesOut)
  /\ WF_vars("slow" \notin faults /\ \E n \in Nodes : \E e \in eventCids : Synchronise(n, e))

Spec == Init /\ [][Next]_vars /\ Fairness

-----------------------------------------------------------------------------
(* Properties.                                                             *)

TypeOK ==
  /\ faults \in Faults
  /\ test \in {"tokens", "script", "wait", "compare", "passed", "failed"}
  /\ tokens \in Seq(Nat) /\ Len(tokens) <= N
  /\ steps \in Seq(Steps)
  /\ eventCids \subseteq Models \X Nat
  /\ written \subseteq eventCids
  /\ reader \in [node : Nodes, from : Nat, resume : Nat, over : BOOLEAN]
  /\ interests \in [Nodes -> SUBSET Models]
  /\ feed \in [Nodes -> Seq(eventCids \cup {Foreign})]

\* A test that passes has seen every node deliver every event, in all of the
\* scenarios and although it waits and compares through counts and through two
\* separate reads, also when feeds repeat events (sync-events.test.ts:163-170).
PassedIsSynced == test = "passed" => \A n \in Nodes : eventCids \subseteq Delivered(n)

\* "Wait ... for all urls to have at least count events" (sync-events.test.ts:114):
\* when the wait is over all nodes have all events, unless feeds repeat them,
\* since readEvents counts an event as often as it is delivered.
WaitMeansSynced ==
  test = "compare" /\ "repeated" \notin faults =>
    \A n \in Nodes : eventCids \subseteq Delivered(n)

\* Neither the order of registrations and writes, nor pages, events of other
\* tests or the second read fail a test: where no request is refused and no
\* event repeated, a test that fails has run out of time.
FailsForCause ==
  test = "failed" /\ faults \cap {"refused", "repeated"} = {} => reader.over

\* When nothing goes wrong the test passes, whatever other tests write: every
\* scenario brings all events to all nodes, after the tokens of the test.
Passes == faults \subseteq {"foreign"} => <>(test = "passed")

\* Whatever goes wrong, the test ends.
Ends == <>(test \in {"passed", "failed"})

=============================================================================
