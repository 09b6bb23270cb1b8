-------------------------- MODULE WatchLoopProofs --------------------------
(***************************************************************************)
(* Safety of the driver's Kubernetes waits, for every timeout, every limit *)
(* on a single watch and every history of the watched object.              *)
(***************************************************************************)
EXTENDS WatchLoop, TLAPS

\* pc and outcome end together.
Ending == pc = "done" <=> outcome # "waiting"

\* The clock never runs ahead of the time the loop accounts for.
ClockBehind ==
  /\ pc = "loop" => now <= total
  /\ pc = "watching" => opened <= total /\ opened <= now /\ now <= opened + timeout

\* Nor, unless the server closes watches early, behind it.
ClockAhead ==
  ~EarlyClose =>
    /\ pc = "loop" => total <= now
    /\ pc = "watching" => total <= opened

\* A result in hand was read off a delivered version, and results only.
AnswerShown ==
  pc = "logs" \/ outcome = "found" =>
    \E i \in 1..(cursor - 1) : answer # {} /\ answer = PhaseResult(versions[i].phase)

\* The version before the cursor of a drained watch shows no result: either
\* the watch delivered it and went on, or it began after a deletion.
LastReadUnfinished ==
  \/ cursor = 1
  \/ pc \in {"logs", "done"} /\ outcome # "timeout"
  \/ pc = "watching" /\ ~Drained
  \/ LET v == versions[cursor - 1] IN v.deleted \/ PhaseResult(v.phase) = {}

Inv ==
  /\ TypeOK
  /\ Budget
  /\ Ending
  /\ ClockBehind
  /\ ClockAhead
  /\ outcome = "timeout" /\ ~EarlyClose => now >= TimeoutSeconds
  /\ AnswerShown
  /\ LastReadUnfinished

-----------------------------------------------------------------------------

\* PhaseResult yields at most one of the results.
LEMMA PhaseResultType ==
  ASSUME NEW phase
  PROVE  PhaseResult(phase) \in SUBSET Results
BY DEF PhaseResult, Results

\* What the closures take for a result of an event is the result its phase shows.
LEMMA EventResultShown ==
  ASSUME NEW v, EventResult(v) # {}
  PROVE  EventResult(v) = PhaseResult(v.phase)
BY DEF EventResult

\* An event that is no result is a deletion or a phase that shows none.
LEMMA NoEventResult ==
  ASSUME NEW v, EventResult(v) = {}
  PROVE  v.deleted \/ PhaseResult(v.phase) = {}
BY DEF EventResult

\* The object's history only grows.
LEMMA EnvironmentExtends ==
  ASSUME TypeOK, Environment
  PROVE  \E v \in Versions : versions' = Append(versions, v)
<1>1. CASE Update
  <2>1. PICK phase \in NextPhases(Latest.phase) : versions' = Append(versions, Version(phase))
    BY <1>1 DEF Update
  <2>2. phase \in Phases
    BY DEF NextPhases, Phases
  <2>3. Version(phase) \in Versions
    BY <2>2 DEF Version, Versions
  <2>. QED  BY <2>1, <2>3
<1>2. CASE Delete
  <2>1. Latest \in Versions
    BY <1>2 DEF Delete, Exists, Latest, TypeOK
  <2>2. [Latest EXCEPT !.deleted = TRUE] \in Versions
    BY <2>1 DEF Versions
  <2>. QED  BY <1>2, <2>2 DEF Delete
<1>3. CASE Create
  <2>1. Version("none") \in Versions
    BY DEF Version, Versions, Phases
  <2>. QED  BY <1>3, <2>1 DEF Create
<1>. QED  BY <1>1, <1>2, <1>3 DEF Environment

-----------------------------------------------------------------------------

LEMMA InitInv == Init => Inv
<1>. SUFFICES ASSUME Init PROVE Inv
  OBVIOUS
<1>. USE WatchLoopAssumption
<1>1. TypeOK
  <2>1. FirstVersions(kind) \in Seq(Versions) 
    <3>1. Version("none") \in Versions
      BY DEF Version, Versions, Phases
    <3>. QED  BY <3>1 DEF FirstVersions
  <2>. QED  BY <2>1 DEF Init, TypeOK, FirstVersions
<1>2. Budget /\ Ending /\ ClockBehind /\ ClockAhead
  BY DEF Init, Budget, Ending, ClockBehind, ClockAhead
<1>3. AnswerShown /\ LastReadUnfinished
  BY DEF Init, AnswerShown, LastReadUnfinished
<1>. QED  BY <1>1, <1>2, <1>3 DEF Inv, Init

\* The object may change under the driver at any moment.
LEMMA EnvironmentInv ==
  ASSUME Inv, Environment
  PROVE  Inv'
<1>. USE WatchLoopAssumption
<1>1. PICK v \in Versions : versions' = Append(versions, v)
  BY EnvironmentExtends DEF Inv
<1>2. /\ UNCHANGED <<kind, cursor, pc, total, timeout, opened, now, answer, outcome>>
      /\ TypeOK
  BY DEF Environment, Inv
<1>3. /\ Len(versions') = Len(versions) + 1
      /\ \A i \in 1..Len(versions) : versions'[i] = versions[i]
  BY <1>1, <1>2 DEF TypeOK
<1>4. TypeOK'
  BY <1>1, <1>2, <1>3 DEF TypeOK
<1>5. (Budget /\ Ending /\ ClockBehind /\ ClockAhead)'
  BY <1>2 DEF Inv, Budget, Ending, ClockBehind, ClockAhead
<1>6. AnswerShown'
  BY <1>2, <1>3 DEF Inv, TypeOK, AnswerShown
<1>7. LastReadUnfinished'
  BY <1>2, <1>3 DEF Inv, TypeOK, LastReadUnfinished, Drained
<1>. QED  BY <1>2, <1>4, <1>5, <1>6, <1>7 DEF Inv

LEMMA OpenWatchInv ==
  ASSUME Inv, OpenWatch
  PROVE  Inv'
<1>. USE WatchLoopAssumption
<1>1. TypeOK
  BY DEF Inv
<1>2. PICK k \in 0..Len(versions) : cursor' = StartOf(k)
  BY DEF OpenWatch
<1>3. TypeOK'
  BY <1>1, <1>2 DEF TypeOK, OpenWatch, object, StartOf, WatchTimeout, Min
<1>4. (Budget /\ Ending /\ ClockBehind /\ ClockAhead)'
  BY <1>1 DEF OpenWatch, Inv, TypeOK, WatchTimeout, Min, Budget, Ending,
              ClockBehind, ClockAhead, object
<1>5. AnswerShown'
  BY DEF OpenWatch, Inv, AnswerShown, Ending
<1>6. LastReadUnfinished'
  <2>1. CASE k = 0 \/ versions[k].deleted
    BY <1>1, <1>2, <2>1 DEF OpenWatch, object, StartOf, LastReadUnfinished, TypeOK
  <2>2. CASE ~(k = 0 \/ versions[k].deleted)
    BY <1>1, <1>2, <2>2 DEF OpenWatch, object, StartOf, LastReadUnfinished, Drained, TypeOK
  <2>. QED  BY <2>1, <2>2
<1>. QED  BY <1>3, <1>4, <1>5, <1>6 DEF Inv, OpenWatch, Ending

LEMMA WatchFailsInv ==
  ASSUME Inv, WatchFails
  PROVE  Inv'
<1>. USE WatchLoopAssumption
<1>1. TypeOK' /\ Ending' /\ ClockBehind' /\ ClockAhead' /\ LastReadUnfinished'
  BY DEF WatchFails, Finish, object, Inv, TypeOK, Ending, ClockBehind, ClockAhead,
         LastReadUnfinished
<1>2. Budget'
  BY DEF WatchFails, Finish, object, Inv, TypeOK, Budget
<1>3. AnswerShown'
  BY DEF WatchFails, Finish, AnswerShown
<1>. QED  BY <1>1, <1>2, <1>3 DEF WatchFails, Finish, Inv

LEMMA DeliverInv ==
  ASSUME Inv, Deliver
  PROVE  Inv'
<1>. USE WatchLoopAssumption
<1>. DEFINE v == versions[cursor]
            result == EventResult(v)
<1>1. /\ TypeOK
      /\ cursor \in 1..Len(versions)
      /\ cursor' = cursor + 1
      /\ answer' = result
      /\ UNCHANGED <<kind, versions, total, timeout, opened, now>>
  BY DEF Inv, Deliver, object, TypeOK, Drained
<1>2. outcome = "waiting"
  BY DEF Inv, Deliver, Ending
<1>3. CASE result = {} /\ UNCHANGED <<pc, outcome>>
  <2>1. TypeOK'
    BY <1>1, <1>3 DEF TypeOK
  <2>2. (Budget /\ Ending /\ ClockBehind /\ ClockAhead)'
    BY <1>1, <1>3 DEF Inv, Budget, Ending, ClockBehind, ClockAhead
  <2>3. AnswerShown'
    BY <1>2, <1>3 DEF Deliver, AnswerShown
  <2>4. LastReadUnfinished'
    <3>1. v.deleted \/ PhaseResult(v.phase) = {}
      BY <1>3, NoEventResult
    <3>. QED  BY <1>1, <3>1 DEF LastReadUnfinished, TypeOK
  <2>. QED  BY <1>1, <1>2, <1>3, <2>1, <2>2, <2>3, <2>4 DEF Inv
<1>4. CASE /\ result # {}
            /\ \/ pc' = "done" /\ outcome' = "found"
               \/ pc' = "logs" /\ outcome' = outcome
  <2>1. result = PhaseResult(v.phase)
    BY <1>4, EventResultShown
  <2>2. TypeOK'
    BY <1>1, <1>2, <1>4, <2>1, PhaseResultType DEF TypeOK
  <2>3. (Budget /\ Ending /\ ClockBehind /\ ClockAhead)'
    BY <1>1, <1>2, <1>4 DEF Inv, TypeOK, Budget, Ending, ClockBehind, ClockAhead, Deliver
  <2>4. AnswerShown'
    BY <1>1, <1>4, <2>1 DEF AnswerShown, TypeOK
  <2>5. LastReadUnfinished'
    BY <1>2, <1>4 DEF LastReadUnfinished
  <2>. QED  BY <1>1, <1>2, <1>4, <2>2, <2>3, <2>4, <2>5 DEF Inv
<1>. QED  BY <1>3, <1>4 DEF Deliver, Finish

LEMMA FetchLogsInv ==
  ASSUME Inv, FetchLogs
  PROVE  Inv'
BY DEF FetchLogs, Finish, object, Inv, TypeOK, Budget, Ending, ClockBehind, ClockAhead,
       AnswerShown, LastReadUnfinished, Drained

\* The loop adds the whole timeout of the watch: without an early close, at
\* least that much time has passed.
LEMMA CloseWatchInv ==
  ASSUME Inv, CloseWatch
  PROVE  Inv'
<1>. USE WatchLoopAssumption
<1>1. TypeOK' /\ Ending' /\ AnswerShown' /\ LastReadUnfinished'
  BY DEF CloseWatch, object, Inv, TypeOK, Ending, AnswerShown, LastReadUnfinished, Drained
<1>2. Budget' /\ ClockBehind' /\ ClockAhead'
  BY DEF CloseWatch, object, Inv, TypeOK, Budget, ClockBehind, ClockAhead
<1>. QED  BY <1>1, <1>2 DEF Inv, CloseWatch, Ending

LEMMA GiveUpInv ==
  ASSUME Inv, GiveUp
  PROVE  Inv'
<1>. USE WatchLoopAssumption
<1>1. TypeOK' /\ Budget' /\ Ending' /\ ClockBehind' /\ ClockAhead' /\ AnswerShown'
  BY DEF GiveUp, Finish, object, Inv, TypeOK, Budget, Ending, ClockBehind, ClockAhead,
         AnswerShown
<1>2. ~EarlyClose => now' >= TimeoutSeconds
  BY DEF GiveUp, object, Inv, TypeOK, ClockAhead
<1>3. LastReadUnfinished'
  BY DEF GiveUp, Finish, object, Inv, LastReadUnfinished, Ending
<1>. QED  BY <1>1, <1>2, <1>3 DEF Inv

LEMMA TickInv ==
  ASSUME Inv, Tick
  PROVE  Inv'
<1>. USE WatchLoopAssumption
<1>1. TypeOK' /\ Ending' /\ AnswerShown' /\ LastReadUnfinished'
  BY DEF Tick, object, Inv, TypeOK, Ending, AnswerShown, LastReadUnfinished, Drained
<1>2. Budget' /\ ClockBehind' /\ ClockAhead'
  BY DEF Tick, object, Inv, TypeOK, Budget, ClockBehind, ClockAhead
<1>. QED  BY <1>1, <1>2 DEF Inv, Tick, Ending

LEMMA NextInv ==
  ASSUME Inv, [Next]_vars
  PROVE  Inv'
<1>1. CASE UNCHANGED vars
  BY <1>1 DEF vars, Inv, TypeOK, Budget, Ending, ClockBehind, ClockAhead, AnswerShown,
              LastReadUnfinished, Drained
<1>. QED  BY <1>1, EnvironmentInv, OpenWatchInv, WatchFailsInv, DeliverInv, FetchLogsInv,
             CloseWatchInv, GiveUpInv, TickInv DEF Next, Driver, Done

LEMMA SpecInv == Spec => []Inv
<1>. QED  BY InitInv, NextInv, PTL DEF Spec

-----------------------------------------------------------------------------

\* The waits never mix up a version and a result, and the cursor stays in the
\* history, whatever the object does.
THEOREM TypeCorrect == Spec => []TypeOK
<1>1. Inv => TypeOK
  BY DEF Inv
<1>. QED  BY <1>1, SpecInv, PTL

\* loop_with_max_timeout never spends more than the caller's timeout, nor asks
\* for a longer watch than the server allows.
THEOREM BudgetKept == Spec => []Budget
<1>1. Inv => Budget
  BY DEF Inv
<1>. QED  BY <1>1, SpecInv, PTL

\* A result that is returned was shown by the object and delivered by a watch.
THEOREM VerdictsAreSound == Spec => []VerdictSound
<1>1. Inv => VerdictSound
  BY DEF Inv, AnswerShown, VerdictSound
<1>. QED  BY <1>1, SpecInv, PTL

\* A wait that gives up left behind an object without a result.
THEOREM NoResultMissed == Spec => []NoMissedResult
<1>1. Inv => NoMissedResult
  BY DEF Inv, LastReadUnfinished, NoMissedResult, Ending
<1>. QED  BY <1>1, SpecInv, PTL

\* When the server keeps every watch open for its timeout, giving up takes the
\* whole timeout of the caller.
THEOREM FullTimeoutWaited ==
  ASSUME ~EarlyClose
  PROVE  Spec => []NoPrematureTimeout
<1>1. Inv => NoPrematureTimeout
  BY DEF Inv, NoPrematureTimeout
<1>. QED  BY <1>1, SpecInv, PTL

-----------------------------------------------------------------------------
(* The loop ends: the part of Termination that needs no fairness.          *)

\* The watch in progress has the length the loop gave it.
LengthKept == pc = "watching" => timeout = WatchTimeout /\ total < TimeoutSeconds

LEMMA LengthAlways == Spec => []LengthKept
<1>1. Init => LengthKept
  BY DEF Init, LengthKept
<1>2. LengthKept /\ [Next]_vars => LengthKept'
  BY DEF LengthKept, WatchTimeout, vars, object, Next, Environment, Driver, OpenWatch, WatchFails,
         Deliver, FetchLogs, CloseWatch, GiveUp, Tick, Done, Finish
<1>. QED  BY <1>1, <1>2, PTL DEF Spec

\* Every watch that ends, on time or early, uses up a whole MaxTimeout or what is
\* left of the timeout: the loop never spins, and opens no more watches than
\* that takes.
WatchesAreUsedUp ==
  [][CloseWatch => /\ total < total' /\ total' <= TimeoutSeconds
                   /\ total' = total + MaxTimeout \/ total' = TimeoutSeconds]_vars

\* However early the server closes its watches, a wait for n seconds opens no more
\* of them than whole watches fit into n, and one (tester.rs:399-406).
THEOREM LoopAdvances == Spec => WatchesAreUsedUp
<1>1. Inv /\ LengthKept /\ CloseWatch =>
        /\ total < total' /\ total' <= TimeoutSeconds
        /\ total' = total + MaxTimeout \/ total' = TimeoutSeconds
  BY WatchLoopAssumption DEF CloseWatch, LengthKept, WatchTimeout, Min, Inv, TypeOK
<1>. QED  BY <1>1, SpecInv, LengthAlways, PTL DEF Spec, WatchesAreUsedUp

-----------------------------------------------------------------------------
(* The refinement of TimedWait.                                            *)

\* Results shown stay shown, and are results.
LEMMA ShownGrows ==
  ASSUME Inv, Environment
  PROVE  Shown \subseteq Shown' /\ Shown' \subseteq Results
<1>1. PICK v \in Versions : versions' = Append(versions, v)
  BY EnvironmentExtends DEF Inv
<1>2. /\ Len(versions) \in Nat
      /\ Len(versions') = Len(versions) + 1
      /\ \A i \in 1..Len(versions) : versions'[i] = versions[i]
  BY <1>1 DEF Inv, TypeOK
<1>3. Shown \subseteq Shown'
  BY <1>2 DEF Shown
<1>4. Shown' \subseteq Results
  BY PhaseResultType DEF Shown
<1>. QED  BY <1>3, <1>4

LEMMA InitImplements == Init => TW!Init
<1>. SUFFICES ASSUME Init PROVE TW!Init
  OBVIOUS
<1>1. Shown \in SUBSET Results
  BY PhaseResultType DEF Shown
<1>. QED  BY <1>1 DEF Init, TW!Init

\* Every step of the wait is a step of TimedWait or none.
LEMMA StepImplements ==
  ASSUME ~EarlyClose, Inv, Inv', [Next]_vars
  PROVE  [TW!Next]_TW!vars
<1>. USE DEF TW!vars, Shown
<1>1. CASE Environment
  <2>1. Shown \subseteq Shown' /\ Shown' \subseteq Results
    BY <1>1, ShownGrows
  <2>2. Shown' = Shown \cup Shown'
    BY <2>1
  <2>3. UNCHANGED <<now, answer, outcome>>
    BY <1>1 DEF Environment
  <2>. QED  BY <2>1, <2>2, <2>3 DEF TW!Next, TW!Environment
<1>2. CASE OpenWatch \/ CloseWatch \/ UNCHANGED vars
  BY <1>2 DEF OpenWatch, CloseWatch, object, vars
<1>3. CASE WatchFails
  BY <1>3 DEF WatchFails, Finish, object, Inv, Ending, TW!Next, TW!Fail
<1>4. ASSUME UNCHANGED <<versions, now>>, outcome = "waiting", outcome' = "found",
             \E i \in 1..Len(versions) :
               answer' # {} /\ answer' = PhaseResult(versions[i].phase)
      PROVE  TW!Return
  <2>1. PICK i \in 1..Len(versions) :
          answer' # {} /\ answer' = PhaseResult(versions[i].phase)
    BY <1>4
  <2>2. PICK r : answer' = {r}
    BY <2>1 DEF PhaseResult
  <2>3. r \in Shown
    BY <2>1, <2>2 DEF Shown
  <2>. QED  BY <1>4, <2>2, <2>3 DEF TW!Return
<1>5. CASE Deliver
  <2>1. /\ cursor \in 1..Len(versions)
        /\ UNCHANGED <<versions, now>>
        /\ outcome = "waiting"
    BY <1>5 DEF Deliver, Inv, TypeOK, Drained, object, Ending
  <2>2. CASE outcome' = outcome
    BY <2>1, <2>2
  <2>3. CASE outcome' = "found"
    <3>1. AnswerShown' /\ cursor' = cursor + 1
      BY <1>5 DEF Inv, Deliver
    <3>2. \E i \in 1..Len(versions) :
            answer' # {} /\ answer' = PhaseResult(versions[i].phase)
      BY <2>1, <2>3, <3>1 DEF AnswerShown
    <3>3. TW!Return
      BY <1>4, <2>1, <2>3, <3>2
    <3>. QED  BY <3>3 DEF TW!Next
  <2>. QED  BY <1>5, <2>2, <2>3 DEF Deliver, Finish
<1>6. CASE FetchLogs
  <2>1. /\ UNCHANGED <<versions, now, cursor, answer>>
        /\ outcome = "waiting"
    BY <1>6 DEF FetchLogs, Inv, object, Ending
  <2>2. CASE outcome' = "error"
    BY <2>1, <2>2 DEF TW!Next, TW!Fail
  <2>3. CASE outcome' = "found"
    <3>1. \E i \in 1..Len(versions) :
            answer' # {} /\ answer' = PhaseResult(versions[i].phase)
      BY <2>1, <2>3 DEF Inv, AnswerShown, TypeOK
    <3>2. TW!Return
      BY <1>4, <2>1, <2>3, <3>1
    <3>. QED  BY <3>2 DEF TW!Next
  <2>. QED  BY <1>6, <2>2, <2>3 DEF FetchLogs, Finish
<1>7. CASE GiveUp
  <2>1. now >= TimeoutSeconds
    BY <1>7 DEF GiveUp, Finish, Inv, object
  <2>. QED  BY <1>7, <2>1 DEF GiveUp, Finish, object, Inv, Ending, TW!Next, TW!GiveUp
<1>8. CASE Tick
  <2>1. Shown \subseteq Results
    BY PhaseResultType DEF Shown
  <2>2. now' = now + 1 /\ UNCHANGED <<versions, answer, outcome>>
    BY <1>8 DEF Tick, object
  <2>3. Shown' = Shown \cup {}
    BY <2>2
  <2>. QED  BY <2>2, <2>3 DEF TW!Next, TW!Environment
<1>. QED  BY <1>1, <1>2, <1>3, <1>5, <1>6, <1>7, <1>8 DEF Next, Driver, Done

\* When the server keeps every watch open for its timeout, the driver's wait
\* implements the bounded wait its comment promises.
THEOREM WaitImplementsTimedWait ==
  ASSUME ~EarlyClose
  PROVE  Spec => ImplementsTimedWait
<1>1. [Next]_vars /\ Inv /\ Inv' => [TW!Next]_TW!vars
  BY StepImplements
<1>. QED  BY <1>1, InitImplements, SpecInv, PTL DEF Spec, ImplementsTimedWait, TW!Spec
============================================================================
