----------------------------- MODULE WatchLoop -----------------------------
(***************************************************************************)
(* The three Kubernetes waits of the hermetic driver: wait_for_network,    *)
(* wait_for_job and wait_for_simulation, all of them closures run by       *)
(* loop_with_max_timeout (hermetic/src/cli/tester.rs).                     *)
(*                                                                         *)
(* The watched object is outside the driver.  It is kept as the history of *)
(* its versions; a watch is a cursor into that history.  Every watch asks  *)
(* for resource version "0": the API server answers with its cached copy   *)
(* of the object, which may be any earlier version, and goes on from       *)
(* there.  A watch ends when the server closes it after the seconds the    *)
(* client asked for, or earlier, when the connection goes away.            *)
(***************************************************************************)
EXTENDS Naturals, Sequences

CONSTANTS
  TimeoutSeconds,  \* timeout_seconds: the budget of the whole wait
  MaxTimeout,      \* MAX_KUBE_WATCH_TIMEOUT: the longest single watch
  MaxVersions,     \* bound: versions the watched object goes through
  EarlyClose       \* whether the server may close a watch before its timeout

ASSUME WatchLoopAssumption ==
  /\ TimeoutSeconds \in Nat
  /\ MaxTimeout \in Nat \ {0}
  /\ MaxVersions \in Nat
  /\ EarlyClose \in BOOLEAN

Kinds == {"network", "job", "simulation"}

\* "none": no status yet.  "unfinished": a Network whose ready_replicas differ
\* from its replicas, a Job without a true Failed or Complete condition, a Pod
\* in phase Pending or Running.
Phases == {"none", "unfinished", "ready", "succeeded", "failed"}
Versions == [phase : Phases, deleted : BOOLEAN]

\* What the wait returns: () for a network, else a JobResult.
Results == {"ready", "Pass", "Fail"}

VARIABLES
  kind,      \* which of the three waits this is
  versions,  \* history of the watched object
  cursor,    \* the version the open watch delivers next
  pc,        \* "loop" at the while, "watching", "logs", "done"
  total,     \* total_time
  timeout,   \* timeout of the current (or last) watch
  opened,    \* when that watch was opened
  now,       \* seconds since the wait began
  answer,    \* the result in hand, as a set of at most one element
  outcome    \* "waiting", "found", "timeout" or "error"

object == <<kind, versions>>
vars == <<kind, versions, cursor, pc, total, timeout, opened, now, answer, outcome>>

-----------------------------------------------------------------------------
(* What the closures take for a result.                                    *)

Version(phase) == [phase |-> phase, deleted |-> FALSE]

\* The network is ready, check_job_result, the phase of the simulate manager.
PhaseResult(phase) ==
  CASE phase = "ready"     -> {"ready"}
    [] phase = "succeeded" -> {"Pass"}
    [] phase = "failed"    -> {"Fail"}
    [] OTHER               -> {}

\* A Deleted event carries the last state of the object.  The network and the
\* job closures read it like any other event, the simulation one ignores it.
EventResult(v) ==
  IF v.deleted /\ kind = "simulation" THEN {} ELSE PhaseResult(v.phase)

-----------------------------------------------------------------------------
(* The watched object, external to the driver.                             *)

\* A network and a job exist when the wait begins, the driver created them;
\* the simulate manager is created later, by the operator.
FirstVersions(k) == IF k = "simulation" THEN <<>> ELSE <<Version("none")>>

\* Replicas come and go; a job or a pod runs and then ends once.
NextPhases(phase) ==
  IF kind = "network" THEN {"unfinished", "ready"}
  ELSE CASE phase = "none"       -> {"unfinished"}
         [] phase = "unfinished" -> {"succeeded", "failed"}
         [] OTHER                -> {}

Latest == versions[Len(versions)]
Exists == versions # <<>> /\ ~Latest.deleted

Update ==
  /\ Exists
  /\ \E phase \in NextPhases(Latest.phase) : versions' = Append(versions, Version(phase))

\* The network's TTL, the job's ttl_seconds_after_finished, a pod collected
\* with its job.
Delete ==
  /\ Exists
  /\ versions' = Append(versions, [Latest EXCEPT !.deleted = TRUE])

Create ==
  /\ kind = "simulation"
  /\ ~Exists
  /\ versions' = Append(versions, Version("none"))

Environment ==
  /\ Len(versions) < MaxVersions
  /\ Update \/ Delete \/ Create
  /\ UNCHANGED <<kind, cursor, pc, total, timeout, opened, now, answer, outcome>>

-----------------------------------------------------------------------------
(* The loop and its closures.                                              *)

Min(a, b) == IF a < b THEN a ELSE b

Init ==
  /\ kind \in Kinds
  /\ versions = FirstVersions(kind)
  /\ cursor = 1
  /\ pc = "loop"
  /\ total = 0 /\ timeout = 0 /\ opened = 0 /\ now = 0
  /\ answer = {}
  /\ outcome = "waiting"

Finish(how) ==
  /\ pc' = "done"
  /\ outcome' = how

\* Mutants of StartOf: the watch begins after the version the server has, so
\* that no Added event repeats the object; before it.
AfterCached(k) == k + 1
BeforeCached(k) == k

\* What a watch from resource version "0" starts with: the object as the
\* server's cache has it (version k, if it has it at all), as an Added event.
StartOf(k) == IF k = 0 \/ versions[k].deleted THEN k + 1 ELSE k

\* Mutant of WatchTimeout: every watch is as long as the server allows.
AlwaysMaxTimeout == MaxTimeout

WatchTimeout == Min(TimeoutSeconds - total, MaxTimeout)

\* Mutant of OpenWatch: while total_time <= timeout_seconds.
OpenWatchOnceMore ==
  /\ pc = "loop"
  /\ total <= TimeoutSeconds
  /\ timeout' = WatchTimeout
  /\ opened' = now
  /\ \E k \in 0..Len(versions) : cursor' = StartOf(k)
  /\ pc' = "watching"
  /\ UNCHANGED <<object, total, now, answer, outcome>>

OpenWatch ==
  /\ pc = "loop"
  /\ total < TimeoutSeconds
  /\ timeout' = WatchTimeout
  /\ opened' = now
  /\ \E k \in 0..Len(versions) : cursor' = StartOf(k)
  /\ pc' = "watching"
  /\ UNCHANGED <<object, total, now, answer, outcome>>

\* The watch cannot be opened, or delivers WatchEvent::Error: `?` ends the loop.
WatchFails ==
  /\ \/ pc = "loop" /\ total < TimeoutSeconds
     \/ pc = "watching"
  /\ Finish("error")
  /\ UNCHANGED <<object, cursor, total, timeout, opened, now, answer>>

Drained == cursor > Len(versions)

\* Consume one event; a result of a job or a simulation still needs its logs.
Deliver ==
  /\ pc = "watching"
  /\ ~Drained
  /\ cursor' = cursor + 1
  /\ LET result == EventResult(versions[cursor]) IN
     /\ answer' = result
     /\ \/ result = {} /\ UNCHANGED <<pc, outcome>>
        \/ result # {} /\ kind = "network" /\ Finish("found")
        \/ result # {} /\ kind # "network" /\ pc' = "logs" /\ UNCHANGED outcome
  /\ UNCHANGED <<object, total, timeout, opened, now>>

\* Mutant of FetchLogs: an error is swallowed and ends the wait as no result.
SwallowLogError ==
  /\ pc = "logs"
  /\ Finish("found") \/ Finish("timeout")
  /\ UNCHANGED <<object, cursor, total, timeout, opened, now, answer>>

\* List the pods and fetch their logs: any error replaces the result.
FetchLogs ==
  /\ pc = "logs"
  /\ Finish("found") \/ Finish("error")
  /\ UNCHANGED <<object, cursor, total, timeout, opened, now, answer>>

\* The stream ends: the closure returns Ok(None) and the loop adds the whole
\* timeout of the watch, however long the watch was open.
CloseWatch ==
  /\ pc = "watching"
  /\ Drained
  /\ now - opened >= timeout \/ EarlyClose
  /\ total' = total + timeout
  /\ pc' = "loop"
  /\ UNCHANGED <<object, cursor, timeout, opened, now, answer, outcome>>

\* Mutant of GiveUp: a remainder shorter than a whole watch is not waited for.
GiveUpOnRemainder ==
  /\ pc = "loop"
  /\ total + MaxTimeout > TimeoutSeconds
  /\ Finish("timeout")
  /\ UNCHANGED <<object, cursor, total, timeout, opened, now, answer>>

GiveUp ==
  /\ pc = "loop"
  /\ total >= TimeoutSeconds
  /\ Finish("timeout")
  /\ UNCHANGED <<object, cursor, total, timeout, opened, now, answer>>

\* Time passes only in an idle watch: requests and events take no time.
Tick ==
  /\ pc = "watching"
  /\ Drained
  /\ now - opened < timeout
  /\ now' = now + 1
  /\ UNCHANGED <<object, cursor, pc, total, timeout, opened, answer, outcome>>

Driver == OpenWatch \/ WatchFails \/ Deliver \/ FetchLogs \/ CloseWatch \/ GiveUp

Done == pc = "done" /\ UNCHANGED vars

Next == Environment \/ Driver \/ Tick \/ Done

Spec == Init /\ [][Next]_vars

\* The driver's task is always polled and the clock runs.  The object owes
\* nothing, and no watch has to fail.
Fairness ==
  /\ WF_vars(OpenWatch)
  /\ WF_vars(Deliver)
  /\ WF_vars(FetchLogs)
  /\ WF_vars(CloseWatch)
  /\ WF_vars(GiveUp)
  /\ WF_vars(Tick)

FairSpec == Spec /\ Fairness

-----------------------------------------------------------------------------
(* Properties.                                                             *)

TypeOK ==
  /\ kind \in Kinds
  /\ versions \in Seq(Versions)
  /\ cursor \in 1..(Len(versions) + 1)
  /\ pc \in {"loop", "watching", "logs", "done"}
  /\ total \in Nat /\ timeout \in Nat /\ opened \in Nat /\ now \in Nat
  /\ answer \in SUBSET Results
  /\ outcome \in {"waiting", "found", "timeout", "error"}

\* The watches of one wait never add up to more than the caller's timeout, and
\* none asks the server for more than its limit (loop_with_max_timeout): so
\* u32 total_time cannot overflow and timeout_seconds - total_time cannot
\* wrap, whatever the two numbers are.
Budget ==
  /\ timeout <= MaxTimeout
  /\ total + (IF pc = "watching" THEN timeout ELSE 0) <= TimeoutSeconds
  /\ now <= TimeoutSeconds

\* A wait that returns a result returns one its object has shown, over any
\* hand-over between watches and any stale start of one.
VerdictSound ==
  outcome = "found" =>
    \E i \in 1..(cursor - 1) : answer # {} /\ answer = PhaseResult(versions[i].phase)

\* A wait that gives up leaves an object that showed no result when its last
\* watch ended: resource version "0" repeats the object to every new watch, so
\* a result that came before the first watch, or between two, is not missed.
NoMissedResult ==
  outcome = "timeout" /\ cursor > 1 =>
    LET v == versions[cursor - 1] IN v.deleted \/ PhaseResult(v.phase) = {}

\* "Loop calling f with a timeout until timeout_seconds is reached"
\* (tester.rs:388): giving up takes the whole timeout.
NoPrematureTimeout == outcome = "timeout" => now >= TimeoutSeconds

\* Every wait ends: the object may never show a result, the loop still stops.
Termination == <>(pc = "done")

-----------------------------------------------------------------------------
(* The wait implements the abstract TimedWait.                             *)

Shown == UNION {PhaseResult(versions[i].phase) : i \in 1..Len(versions)}

TW == INSTANCE TimedWait WITH
        Timeout   <- TimeoutSeconds,
        elapsed   <- now,
        witnessed <- Shown,
        answer    <- IF outcome = "found" THEN answer ELSE {}

\* Return a result that was really shown, give up not before the timeout, or
\* pass an error on: what loop_with_max_timeout's comment promises, as one
\* abstract state machine.
ImplementsTimedWait == TW!Spec
=============================================================================
