------------------------------ MODULE TimedWait ------------------------------
(***************************************************************************)
(* What a bounded wait promises, whatever it waits for.                    *)
(*                                                                         *)
(* Both halves of the repository are made of waits: the hermetic driver    *)
(* watches Kubernetes objects through loop_with_max_timeout, the test      *)
(* suite polls Ceramic nodes through loadDocumentOrTimeout,                *)
(* waitForIndexingOrTimeout and waitForDocument.  All of them state the    *)
(* same contract in their comments: return a value that was really seen,   *)
(* or give up once the timeout is reached, or pass an error on.  This      *)
(* module is that contract.  WatchLoop is checked and proved to implement  *)
(* it; the waits of the other modules take its form (a result that is      *)
(* seen, or a timeout), without being checked against it.                  *)
(***************************************************************************)
EXTENDS Naturals

CONSTANTS
  Timeout,    \* the caller's timeout
  Results     \* the values the wait may return

VARIABLES
  elapsed,    \* time since the wait began
  witnessed,  \* results the awaited thing has shown so far
  outcome,    \* "waiting", or how the wait ended
  answer      \* the result it returned, as a set of at most one element

vars == <<elapsed, witnessed, outcome, answer>>

Init ==
  /\ elapsed = 0
  /\ witnessed \in SUBSET Results
  /\ outcome = "waiting"
  /\ answer = {}

\* Time passes and the awaited thing changes, without asking the waiter.
Environment ==
  /\ elapsed' \in {elapsed, elapsed + 1}
  /\ \E new \in SUBSET Results : witnessed' = witnessed \cup new
  /\ UNCHANGED <<outcome, answer>>

\* Return a result, which must have been shown.
Return ==
  /\ outcome = "waiting"
  /\ \E r \in witnessed : answer' = {r}
  /\ outcome' = "found"
  /\ UNCHANGED <<elapsed, witnessed>>

\* Give up, not before the timeout.
GiveUp ==
  /\ outcome = "waiting"
  /\ elapsed >= Timeout
  /\ outcome' = "timeout"
  /\ UNCHANGED <<elapsed, witnessed, answer>>

\* Hand an error of the awaited service to the caller.
Fail ==
  /\ outcome = "waiting"
  /\ outcome' = "error"
  /\ UNCHANGED <<elapsed, witnessed, answer>>

Next == Environment \/ Return \/ GiveUp \/ Fail

Spec == Init /\ [][Next]_vars
==============================================================================
