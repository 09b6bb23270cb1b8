--------------------------- MODULE AnchoredStream ---------------------------
(***************************************************************************)
(* What the update test promises of its streams, without jest, groups and  *)
(* timeouts: a stream is written on one node, each time with new content,  *)
(* until a write asks for an anchor; other nodes only follow; and a record *)
(* for the anchor test is made once another node has that last write.      *)
(*                                                                         *)
(* A stream has the name of the node it is written on.  StreamUpdate       *)
(* implements this module; what becomes of the records is AnchorLedger.    *)
(***************************************************************************)
EXTENDS Integers

CONSTANTS
  Nodes,
  Versions   \* versions of a stream: natural numbers, in their order

Nothing == -1

VARIABLES
  held,      \* held[s][n]: the version of stream s that node n has
  asked,     \* streams an anchor has been requested for
  recorded   \* streams a record has been stored for

vars == <<held, asked, recorded>>

Init ==
  /\ held = [s \in Nodes |-> [n \in Nodes |-> Nothing]]
  /\ asked = {} /\ recorded = {}

\* A write is newer than all before it, and none follows the anchor request.
New(s) ==
  /\ s \notin asked
  /\ \E v \in Versions : v > held[s][s] /\ held' = [held EXCEPT ![s][s] = v]
  /\ UNCHANGED recorded

Write(s) == New(s) /\ UNCHANGED asked
WriteLast(s) == New(s) /\ asked' = asked \cup {s}

\* A node gets a version that is newer than its own.
Follow(s, n) ==
  /\ n # s
  /\ \E v \in Versions :
       /\ held[s][n] < v /\ v <= held[s][s]
       /\ held' = [held EXCEPT ![s][n] = v]
  /\ UNCHANGED <<asked, recorded>>

Record(s) ==
  /\ s \in asked
  /\ \E n \in Nodes \ {s} : held[s][n] = held[s][s]
  /\ recorded' = recorded \cup {s}
  /\ UNCHANGED <<held, asked>>

Next ==
  \E s \in Nodes :
    Write(s) \/ WriteLast(s) \/ Record(s) \/ \E n \in Nodes : Follow(s, n)

Spec == Init /\ [][Next]_vars
=============================================================================
