---------------------------- MODULE AnchorLedger ----------------------------
(***************************************************************************)
(* What the table of anchor requests promises to the suite, without scans, *)
(* pages, clocks and requests that fail: a stream is on the books once, it *)
(* is taken off them only for a reason, and never comes back.              *)
(*                                                                         *)
(* The reasons are the comments' (dynamoDbHelpers.ts:33-37,                *)
(* anchor.test.ts:50-51): the stream is anchored, a test has failed for    *)
(* it, or it is old.  AnchorRequests implements this module.               *)
(***************************************************************************)
CONSTANT Streams

VARIABLES
  life,      \* life[s]: "new", "asked", "recorded" or "settled"
  anchored,  \* streams the anchor service has anchored
  doubted,   \* streams that a test has found unanchored and not yet judged
  failed,    \* streams a test has failed for
  old        \* streams whose record is older than it has to be kept

vars == <<life, anchored, doubted, failed, old>>

Init ==
  /\ life = [s \in Streams |-> "new"]
  /\ anchored = {} /\ doubted = {} /\ failed = {} /\ old = {}

Becomes(s, stage) ==
  /\ life' = [life EXCEPT ![s] = stage]
  /\ UNCHANGED <<anchored, doubted, failed, old>>

OnceRecorded == {s \in Streams : life[s] \in {"recorded", "settled"}}

\* The last write of the stream asks for an anchor.
Ask(s) == life[s] = "new" /\ Becomes(s, "asked")

\* Its record is stored, or never will be.
Record(s) == life[s] = "asked" /\ Becomes(s, "recorded")
Abandon(s) == life[s] = "asked" /\ Becomes(s, "settled")

\* The stream is taken off the books.
Settle(s) ==
  /\ life[s] = "recorded"
  /\ s \in anchored \cup failed \cup old
  /\ Becomes(s, "settled")

Anchor(s) ==
  /\ life[s] # "new"
  /\ anchored' = anchored \cup {s}
  /\ UNCHANGED <<life, doubted, failed, old>>

\* A test finds a stream that was recorded unanchored.  When it has looked at the
\* clock it lets it be or fails for it, though the stream may be anchored by then;
\* another test may still doubt the stream.
Doubt(s) ==
  /\ s \in OnceRecorded \ anchored
  /\ doubted' = doubted \cup {s}
  /\ UNCHANGED <<life, anchored, failed, old>>

Clear(s) ==
  /\ doubted' = doubted \ {s}
  /\ UNCHANGED <<life, anchored, failed, old>>

Fail(s) ==
  /\ s \in doubted
  /\ failed' = failed \cup {s}
  /\ doubted' \in {doubted, doubted \ {s}}
  /\ UNCHANGED <<life, anchored, old>>

\* Time passes, for all of them.
Age ==
  /\ \E grown \in SUBSET OnceRecorded : old' = old \cup grown
  /\ UNCHANGED <<life, anchored, doubted, failed>>

Next ==
  \/ Age
  \/ \E s \in Streams :
       Ask(s) \/ Record(s) \/ Abandon(s) \/ Settle(s) \/ Anchor(s)
         \/ Doubt(s) \/ Clear(s) \/ Fail(s)

Spec == Init /\ [][Next]_vars
=============================================================================
