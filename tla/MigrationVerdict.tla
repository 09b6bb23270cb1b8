-------------------------- MODULE MigrationVerdict --------------------------
(***************************************************************************)
(* What the migration test is for, without clocks, versions and restarts:  *)
(* everything is written and anchored, then the node is migrated, then the *)
(* test says whether the migration kept it.                                *)
(*                                                                         *)
(* MigrationTest implements this module whenever the pod of the test, the  *)
(* anchors and the migration are in time for the two timers.               *)
(***************************************************************************)
CONSTANT Kinds   \* kinds of events written

VARIABLES
  written,   \* kinds that are written and anchored
  migrated,  \* whether the node has migrated
  lost,      \* kinds the migration dropped something of
  verdict    \* "none", "passed" or "failed"

vars == <<written, migrated, lost, verdict>>

Init == written = {} /\ migrated = FALSE /\ lost = {} /\ verdict = "none"

Write(k) ==
  /\ ~migrated
  /\ written' = written \cup {k}
  /\ UNCHANGED <<migrated, lost, verdict>>

\* One migration, of everything.
Migrate ==
  /\ ~migrated /\ written = Kinds
  /\ migrated' = TRUE
  /\ lost' \in SUBSET Kinds
  /\ UNCHANGED <<written, verdict>>

Decide ==
  /\ migrated /\ verdict = "none"
  /\ verdict' = IF lost = {} THEN "passed" ELSE "failed"
  /\ UNCHANGED <<written, migrated, lost>>

Next == Migrate \/ Decide \/ \E k \in Kinds : Write(k)

Spec == Init /\ [][Next]_vars
=============================================================================
