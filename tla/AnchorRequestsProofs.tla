------------------------ MODULE AnchorRequestsProofs ------------------------
(***************************************************************************)
(* What AnchorRequests promises for any number of streams, runs and nodes, *)
(* pages and limits of any size, and every interval and TTL.               *)
(***************************************************************************)
EXTENDS AnchorRequests, FiniteSetTheorems, TLAPS

-----------------------------------------------------------------------------
(* The inductive invariant.                                                *)

CheckerStates ==
  [pc : {"idle", "scan", "load", "judge", "mark", "delete"}, queue : SUBSET Streams,
   doc : Streams \cup {None}, cursor : Streams \cup {0}, before : SUBSET Streams]

CollectorStates ==
  [pc : {"idle", "scan", "next", "unpin", "delete"}, queue : SUBSET Streams,
   doc : Streams \cup {None}, cursor : Streams \cup {0}, asOf : Time, unpinned : SUBSET Nodes]

\* Streams whose update test is over: nothing stores their record any more.
Done == {s \in Streams : writer[s] = "done"}

\* Records, and whatever the other tests work on or have decided, are of streams
\* whose update test is over.
Written ==
  /\ \A s \in Streams : /\ writer[s] = "idle" => status[s] = "none"
                        /\ table[s] # "absent" \/ storedAt[s] # Never => s \in Done
  /\ late \cup dropped \cup collected \subseteq Done

\* What an anchor test knows of the records it found and of the one in hand,
\* and where its scan is.
CheckerKnows(state) ==
  /\ state.queue \cup state.before \subseteq Done
  /\ state.pc \in {"judge", "mark", "delete"} => state.doc \in Done
  /\ state.pc = "mark" => status[state.doc] = "anchored"
  /\ state.pc = "delete" => state.doc \in late \/ status[state.doc] = "anchored"
  /\ state.pc = "scan" =>
       /\ Cardinality(state.queue) < MaxScanResults
       /\ \A s \in state.before : table[s] = "unanchored" /\ s <= state.cursor => s \in state.queue

\* What a garbage collection knows of the records it found and of the one in hand.
CollectorKnows(state) ==
  /\ state.asOf <= now
  /\ state.queue \subseteq Done
  /\ \A s \in state.queue : storedAt[s] + StreamTTL < now
  /\ state.pc \in {"unpin", "delete"} => /\ state.doc \in Done
                                         /\ storedAt[state.doc] + StreamTTL < now
                                         /\ pins[state.doc] \cap state.unpinned = {}
  /\ state.pc = "delete" => state.unpinned = Nodes
  /\ state.pc \in {"scan", "next"} => state.unpinned = {}

Knowledge ==
  /\ \A c \in Checkers : CheckerKnows(checker[c])
  /\ \A g \in Collectors : CollectorKnows(collector[g])

Promises == MarkedIsAnchored /\ NotForgotten /\ FailsOnce /\ CollectedIsUnpinned

RequestInv == TypeOK /\ Written /\ Knowledge /\ Promises

-----------------------------------------------------------------------------
(* Pages.                                                                  *)

\* A set that is not empty has an element, and without it fewer elements.
LEMMA SmallestCounterexample ==
  ASSUME NEW S, IsFiniteSet(S), NEW T \in SUBSET SUBSET S, T # {}
  PROVE  \E U \in T : \A x \in U : U \ {x} \notin T
<1>1. IsWellFoundedOn(StrictSubsetOrdering(S), SUBSET S)
  BY FS_StrictSubsetOrderingWellFounded, FS_FiniteSubsetsOfFinite
<1>2. PICK U \in T : \A V \in T : <<V, U>> \notin StrictSubsetOrdering(S)
  BY <1>1, WFMin
<1>3. ASSUME NEW x \in U PROVE U \ {x} \notin T
  BY <1>2, <1>3 DEF StrictSubsetOrdering
<1> QED
  BY <1>3

\* A finite set of numbers has a greatest and a least element.
LEMMA Extremes ==
  ASSUME NEW S \in SUBSET Nat, IsFiniteSet(S), S # {}
  PROVE  /\ Max(S) \in S /\ \A y \in S : y <= Max(S)
         /\ \E x \in S : \A y \in S : x <= y
<1>1. \E x \in S : \A y \in S : x >= y
  <2> DEFINE T == {U \in SUBSET S : U # {} /\ ~ \E x \in U : \A y \in U : x >= y}
  <2>1. SUFFICES ASSUME T # {} PROVE FALSE
    OBVIOUS
  <2>2. PICK U \in T : \A x \in U : U \ {x} \notin T
    BY <2>1, SmallestCounterexample
  <2>3. PICK x \in U : TRUE
    OBVIOUS
  <2>4. \/ \A y \in U : y = x
        \/ \E z \in U \ {x} : \A y \in U \ {x} : z >= y
    BY <2>2, <2>3
  <2> QED
    BY <2>4, <2>3
<1>2. \E x \in S : \A y \in S : x <= y
  <2> DEFINE T == {U \in SUBSET S : U # {} /\ ~ \E x \in U : \A y \in U : x <= y}
  <2>1. SUFFICES ASSUME T # {} PROVE FALSE
    OBVIOUS
  <2>2. PICK U \in T : \A x \in U : U \ {x} \notin T
    BY <2>1, SmallestCounterexample
  <2>3. PICK x \in U : TRUE
    OBVIOUS
  <2>4. \/ \A y \in U : y = x
        \/ \E z \in U \ {x} : \A y \in U \ {x} : z <= y
    BY <2>2, <2>3
  <2> QED
    BY <2>4, <2>3
<1> QED
  BY <1>1, <1>2 DEF Max

\* A page is the beginning of what is behind the cursor, without gaps; it is
\* empty only at the end of the table, and never longer than PageSize.
LEMMA PageIsPrefix ==
  ASSUME NEW cursor
  PROVE  /\ IsFiniteSet(Page(cursor)) /\ Page(cursor) \subseteq Behind(cursor)
         /\ Page(cursor) = {} => Behind(cursor) = {}
         /\ Page(cursor) # {} =>
              /\ Max(Page(cursor)) \in Page(cursor)
              /\ \A s \in Behind(cursor) : s <= Max(Page(cursor)) => s \in Page(cursor)
         /\ Cardinality(Page(cursor)) <= PageSize
<1> DEFINE behind == Behind(cursor)
           page == Page(cursor)
           before(s) == {r \in behind : r < s}
<1>1. /\ IsFiniteSet(behind) /\ behind \subseteq Nat
      /\ page = {s \in behind : Cardinality(before(s)) < PageSize}
  BY AnchorRequestsAssumption, FS_Subset DEF Behind, Page
<1>2. \A s : IsFiniteSet(before(s)) /\ Cardinality(before(s)) \in Nat
  BY <1>1, FS_Subset, FS_CardinalityType
<1>3. IsFiniteSet(page) /\ page \subseteq behind
  BY <1>1, FS_Subset
<1>4. ASSUME behind # {} PROVE page # {}
  <2>1. PICK x \in behind : \A y \in behind : x <= y
    BY <1>1, <1>4, Extremes
  <2>2. before(x) = {}
    BY <1>1, <2>1
  <2> QED
    BY <1>1, <2>2, FS_EmptySet, AnchorRequestsAssumption
<1>5. ASSUME page # {}
      PROVE  /\ Max(page) \in page
             /\ \A s \in behind : s <= Max(page) => s \in page
             /\ page \subseteq before(Max(page)) \cup {Max(page)}
  <2>1. PICK m \in page : m = Max(page) /\ \A s \in page : s <= m
    BY <1>1, <1>3, <1>5, Extremes
  <2>2. ASSUME NEW s \in behind, s <= m PROVE s \in page
    <3>1. s \in Nat /\ m \in behind /\ m \in Nat
      BY <1>1, <1>3
    <3>2. before(s) \subseteq before(m)
      <4> SUFFICES ASSUME NEW r \in behind, r < s PROVE r < m
        OBVIOUS
      <4>1. r \in Nat
        BY <1>1
      <4> QED
        BY <2>2, <3>1, <4>1
    <3>3. Cardinality(before(s)) <= Cardinality(before(m)) /\ Cardinality(before(m)) < PageSize
      BY <1>1, <1>2, <3>2, FS_Subset
    <3>4. Cardinality(before(s)) < PageSize
      BY <1>2, <3>3, AnchorRequestsAssumption
    <3> QED
      BY <1>1, <3>4
  <2>3. page \subseteq before(m) \cup {m}
    <3> SUFFICES ASSUME NEW r \in page, r # m PROVE r < m
      BY <1>3
    <3>1. r \in Nat /\ m \in Nat /\ r <= m
      BY <1>1, <1>3, <2>1
    <3> QED
      BY <3>1
  <2> HIDE DEF behind, page
  <2> QED
    BY <2>1, <2>2, <2>3
<1>6. Cardinality(page) <= PageSize
  <2>1. CASE page = {}
    BY <2>1, FS_EmptySet, AnchorRequestsAssumption
  <2>2. CASE page # {}
    <3> DEFINE m == Max(page)
    <3>1. Cardinality(before(m)) < PageSize /\ m \notin before(m)
      BY <1>1, <1>5, <2>2
    <3>2. /\ IsFiniteSet(before(m) \cup {m})
          /\ Cardinality(before(m) \cup {m}) = Cardinality(before(m)) + 1
      BY <1>2, <3>1, FS_AddElement
    <3>3. Cardinality(page) <= Cardinality(before(m) \cup {m})
      BY <1>5, <2>2, <3>2, FS_Subset
    <3>4. Cardinality(page) \in Nat
      BY <1>3, FS_CardinalityType
    <3> HIDE DEF m, page
    <3> QED
      BY <1>2, <3>1, <3>2, <3>3, <3>4, AnchorRequestsAssumption
  <2> QED
    BY <2>1, <2>2
<1> QED
  BY <1>3, <1>4, <1>5, <1>6

-----------------------------------------------------------------------------
(* The steps.                                                              *)

LEMMA InitRequests == Init => RequestInv
<1> SUFFICES ASSUME Init PROVE RequestInv
  OBVIOUS
<1> USE AnchorRequestsAssumption DEF Init
<1>1. TypeOK
  BY DEF TypeOK, Time, Never, Records, Resting, CollectorResting
<1>2. Written /\ Promises
  BY DEF Written, Promises, MarkedIsAnchored, NotForgotten, FailsOnce,
         CollectedIsUnpinned
<1>3. Knowledge
  BY DEF Knowledge, CheckerKnows, CollectorKnows, Resting, CollectorResting
<1> QED
  BY <1>1, <1>2, <1>3 DEF RequestInv

\* What no step takes back: time, ends of tests, anchors and verdicts; and a
\* record is stored, and its stream pinned, only before its test is over.
Progress ==
  /\ now <= now'
  /\ Done \subseteq Done'
  /\ \A s \in Done : /\ status[s] = "anchored" => status'[s] = "anchored"
                     /\ table'[s] = "unanchored" => table[s] = "unanchored"
                     /\ storedAt'[s] = storedAt[s]
                     /\ pins'[s] \subseteq pins[s]
  /\ late \subseteq late'

\* What a test knows stays true.
LEMMA KnowledgeKept ==
  ASSUME TypeOK, now' \in Time, Progress
  PROVE  /\ \A state \in CheckerStates : CheckerKnows(state) => CheckerKnows(state)'
         /\ \A state \in CollectorStates : CollectorKnows(state) => CollectorKnows(state)'
<1>1. ASSUME NEW state \in CheckerStates, CheckerKnows(state) PROVE CheckerKnows(state)'
  BY <1>1 DEF CheckerKnows, CheckerStates, Progress
<1>2. ASSUME NEW state \in CollectorStates, CollectorKnows(state) PROVE CollectorKnows(state)'
  <2>1. state.asOf <= now'
    BY <1>2, AnchorRequestsAssumption DEF CollectorKnows, CollectorStates, Progress, TypeOK, Time
  <2>2. ASSUME NEW s \in Done, storedAt[s] + StreamTTL < now PROVE storedAt'[s] + StreamTTL < now'
    BY <2>2, AnchorRequestsAssumption DEF Done, Progress, TypeOK, Time, Never
  <2> QED
    BY <1>2, <2>1, <2>2 DEF CollectorKnows, CollectorStates, Progress
<1> QED
  BY <1>1, <1>2

\* A step of an anchor test that changes nothing but what the test knows.
LEMMA CheckerSteps ==
  ASSUME RequestInv, NEW c \in Checkers, NEW state \in CheckerStates, CheckerKnows(state)',
         CheckerGoes(c, state),
         TypeOK /\ Progress /\ now' \in Time, UNCHANGED collector
  PROVE  checker' \in [Checkers -> CheckerStates] /\ Knowledge'
<1>1. \A d \in Checkers : checker[d] \in CheckerStates
  BY DEF TypeOK, CheckerStates
<1>2. \A g \in Collectors : collector[g] \in CollectorStates
  BY DEF TypeOK, CollectorStates
<1>3. \A d \in Checkers : (checker[d] \in CheckerStates /\ CheckerKnows(checker[d]))'
  BY <1>1, KnowledgeKept DEF RequestInv, Knowledge, CheckerGoes, TypeOK
<1> QED
  BY <1>2, <1>3, KnowledgeKept DEF RequestInv, Knowledge, CheckerGoes, TypeOK

LEMMA QuietCheckerSteps ==
  ASSUME RequestInv, NEW c \in Checkers, NEW state \in CheckerStates, CheckerKnows(state),
         CheckerGoes(c, state),
         UNCHANGED <<now, streamVars, pins, writer, tableVars, late, dropped, collector, collected>>
  PROVE  RequestInv'
<1> USE DEF RequestInv, streamVars, tableVars
<1>1. TypeOK /\ now \in Nat
  BY AnchorRequestsAssumption DEF TypeOK, Time
<1>2. Progress /\ now' \in Time
  BY <1>1 DEF Progress, Done, TypeOK
<1>3. CheckerKnows(state)'
  BY DEF CheckerKnows, Done
<1>4. checker' \in [Checkers -> CheckerStates] /\ Knowledge'
  BY <1>1, <1>2, <1>3, CheckerSteps
<1>5. TypeOK'
  BY <1>1, <1>4 DEF TypeOK, CheckerStates
<1>6. Written' /\ Promises'
  BY DEF Written, Done, Promises, MarkedIsAnchored, NotForgotten, FailsOnce,
         CollectedIsUnpinned
<1> QED
  BY <1>4, <1>5, <1>6

LEMMA RestingKnows == Resting \in CheckerStates /\ CheckerKnows(Resting)
BY DEF Resting, CheckerStates, CheckerKnows

\* What a page adds to the matches of a scan, if it goes on and if it ends.
LEMMA ScannedPage ==
  ASSUME RequestInv, NEW c \in Checkers, checker[c].pc = "scan",
         NEW new \in dynamoScan(checker[c], Unanchored, "load")
  PROVE  /\ new \in CheckerStates /\ CheckerKnows(new) /\ new.pc \in {"scan", "load"}
         /\ new.pc = "load" =>
              \/ checker[c].before \cap Unanchored \subseteq new.queue
              \/ ~(Cardinality(new.queue) < MaxScanResults)
         /\ Cardinality(new.queue) < MaxScanResults + PageSize
<1> DEFINE state == checker[c]
           page == Page(state.cursor)
           found == state.queue \cup (page \cap Unanchored)
<1>1. state \in CheckerStates /\ CheckerKnows(state) /\ state.pc = "scan"
  BY DEF RequestInv, TypeOK, CheckerStates, Knowledge
<1>2. Unanchored \subseteq Done /\ Behind(state.cursor) \subseteq Streams
  BY DEF RequestInv, Written, Unanchored, Done, Behind
<1>3. /\ page \subseteq Behind(state.cursor) /\ IsFiniteSet(page)
      /\ Cardinality(page) <= PageSize
  BY PageIsPrefix
<1>4. found \subseteq Done /\ found \subseteq Streams
  BY <1>1, <1>2 DEF CheckerKnows, Done
<1>5. Cardinality(found) < MaxScanResults + PageSize
  <2>1. IsFiniteSet(state.queue) /\ Cardinality(state.queue) < MaxScanResults
    BY <1>1, FS_Subset, AnchorRequestsAssumption DEF CheckerStates, CheckerKnows
  <2> DEFINE matches == page \cap Unanchored
  <2>2. IsFiniteSet(matches) /\ Cardinality(matches) <= Cardinality(page)
    BY <1>3, FS_Subset
  <2>3. /\ IsFiniteSet(state.queue \cap matches)
        /\ Cardinality(found) =
             Cardinality(state.queue) + Cardinality(matches) - Cardinality(state.queue \cap matches)
    BY <2>1, <2>2, FS_Union, FS_Subset
  <2>4. /\ Cardinality(state.queue) \in Nat /\ Cardinality(matches) \in Nat
        /\ Cardinality(page) \in Nat /\ Cardinality(state.queue \cap matches) \in Nat
    BY <1>3, <2>1, <2>2, <2>3, FS_CardinalityType
  <2> HIDE DEF state, page, found, matches
  <2> QED
    BY <1>3, <2>1, <2>2, <2>3, <2>4, AnchorRequestsAssumption
<1>6. ASSUME NEW s \in state.before \cap Unanchored, s \in page \/ s <= state.cursor
      PROVE  s \in found
  BY <1>1, <1>6 DEF CheckerKnows, Unanchored
<1>7. ASSUME NEW s \in state.before \cap Unanchored, s \in Behind(state.cursor) => s \in page
      PROVE  s \in found
  <2>1. s \in Nat /\ state.cursor \in Nat /\ s \in Streams /\ table[s] # "absent"
    BY <1>1, AnchorRequestsAssumption DEF CheckerStates, Unanchored
  <2> QED
    BY <1>6, <1>7, <2>1 DEF Behind
<1>8. CASE /\ new = [state EXCEPT !.queue = found, !.cursor = Max(page)]
           /\ page # {} /\ Cardinality(found) < MaxScanResults
  <2>1. Max(page) \in Streams /\ \A s \in Behind(state.cursor) : s <= Max(page) => s \in page
    BY <1>2, <1>3, <1>8, PageIsPrefix
  <2>2. ASSUME NEW s \in state.before, table[s] = "unanchored", s <= Max(page) PROVE s \in found
    <3>1. s \in state.before \cap Unanchored
      BY <1>1, <2>2 DEF CheckerStates, Unanchored
    <3> QED
      BY <1>7, <2>1, <2>2, <3>1
  <2>3. new \in CheckerStates /\ new.pc = "scan" /\ new.queue = found
    BY <1>1, <1>4, <1>8, <2>1 DEF CheckerStates
  <2>4. CheckerKnows(new)
    BY <1>1, <1>4, <1>8, <2>2, <2>3 DEF CheckerKnows, CheckerStates
  <2> QED
    BY <1>5, <2>3, <2>4
<1>9. CASE /\ new = [state EXCEPT !.queue = found, !.cursor = 0, !.pc = "load"]
           /\ page = Behind(state.cursor) \/ ~(Cardinality(found) < MaxScanResults)
  <2>1. new \in CheckerStates /\ new.pc = "load" /\ new.queue = found /\ new.before = state.before
    BY <1>1, <1>4, <1>9 DEF CheckerStates
  <2>2. CheckerKnows(new)
    BY <1>1, <1>4, <2>1 DEF CheckerKnows
  <2>3. page = Behind(state.cursor) => state.before \cap Unanchored \subseteq found
    BY <1>7
  <2> QED
    BY <1>5, <1>9, <2>1, <2>2, <2>3
<1>10. \/ /\ new = [state EXCEPT !.queue = found, !.cursor = Max(page)]
          /\ page # {} /\ Cardinality(found) < MaxScanResults
       \/ /\ new = [state EXCEPT !.queue = found, !.cursor = 0, !.pc = "load"]
          /\ page = Behind(state.cursor) \/ ~(Cardinality(found) < MaxScanResults)
  <2>1. PICK more \in MoreAfter(state.cursor) :
          new = IF more /\ Cardinality(found) < MaxScanResults
                THEN [state EXCEPT !.queue = found, !.cursor = Max(page)]
                ELSE [state EXCEPT !.queue = found, !.cursor = 0, !.pc = "load"]
    BY DEF dynamoScan
  <2>2. more \in BOOLEAN /\ IF more THEN page # {} ELSE page = Behind(state.cursor)
    BY PageIsPrefix, FS_EmptySet, AnchorRequestsAssumption DEF MoreAfter
  <2> HIDE DEF page, found
  <2> QED
    BY <2>1, <2>2
<1> HIDE DEF page, found
<1> QED
  BY <1>8, <1>9, <1>10, Zenon

LEMMA CheckerRequests ==
  ASSUME RequestInv, NEW c \in Checkers, Check(c) \/ MarkFails(c) \/ CheckerFails(c)
  PROVE  RequestInv'
<1> DEFINE state == checker[c]
<1> USE DEF RequestInv
<1>1. state \in CheckerStates /\ CheckerKnows(state)
  BY DEF TypeOK, CheckerStates, Knowledge
<1>2. CASE FetchUnanchored(c)
  <2> DEFINE new == [Resting EXCEPT !.pc = "scan", !.before = Unanchored]
  <2>1. Unanchored \subseteq Done
    BY DEF Written, Unanchored
  <2>2. /\ new \in CheckerStates
        /\ new.pc = "scan" /\ new.queue = {} /\ new.cursor = 0 /\ new.before = Unanchored
    BY RestingKnows DEF CheckerStates, Resting, Unanchored
  <2>3. Cardinality({}) < MaxScanResults /\ \A s \in Unanchored : ~(s <= 0)
    BY FS_EmptySet, AnchorRequestsAssumption DEF Unanchored
  <2>4. new \in CheckerStates /\ CheckerKnows(new)
    BY <2>1, <2>2, <2>3 DEF CheckerStates, CheckerKnows, Unanchored
  <2> QED
    BY <1>2, <2>4, QuietCheckerSteps DEF FetchUnanchored
<1>3. CASE ScanUnanchored(c)
  <2>1. PICK new \in dynamoScan(state, Unanchored, "load") :
          CheckerGoes(c, IF new.pc = "load" THEN [new EXCEPT !.before = {}] ELSE new)
    BY <1>3 DEF ScanUnanchored
  <2>2. new \in CheckerStates /\ CheckerKnows(new)
    BY <1>3, ScannedPage DEF ScanUnanchored
  <2> DEFINE last == [new EXCEPT !.before = {}]
  <2>3. last \in CheckerStates /\ (new.pc = "load" => CheckerKnows(last))
    BY <2>2 DEF CheckerStates, CheckerKnows
  <2> QED
    BY <1>3, <2>1, <2>2, <2>3, QuietCheckerSteps DEF ScanUnanchored
<1>4. CASE EndOfQueue(c) \/ CheckerFails(c)
  BY <1>4, RestingKnows, QuietCheckerSteps DEF EndOfQueue, CheckerFails
<1>5. ASSUME NEW s \in Streams, LoadAnchored(c, s) PROVE RequestInv'
  <2> DEFINE new == [state EXCEPT !.pc = "mark", !.doc = s]
  <2>1. new \in CheckerStates /\ CheckerKnows(new)
    BY <1>1, <1>5 DEF LoadAnchored, CheckerStates, CheckerKnows
  <2> QED
    BY <1>5, <2>1, QuietCheckerSteps DEF LoadAnchored
<1>6. ASSUME NEW s \in Streams, LoadUnanchored(c, s) PROVE RequestInv'
  <2> DEFINE new == [state EXCEPT !.pc = "judge", !.doc = s]
  <2>1. new \in CheckerStates /\ CheckerKnows(new)
    BY <1>1, <1>6 DEF LoadUnanchored, CheckerStates, CheckerKnows
  <2> QED
    BY <1>6, <2>1, QuietCheckerSteps DEF LoadUnanchored
<1>7. CASE StillPending(c)
  <2> DEFINE new == [state EXCEPT !.pc = "load", !.queue = @ \ {state.doc}, !.doc = None]
  <2>1. new \in CheckerStates /\ CheckerKnows(new)
    BY <1>1, <1>7 DEF StillPending, CheckerStates, CheckerKnows
  <2> QED
    BY <1>7, <2>1, QuietCheckerSteps DEF StillPending, Proceed
<1>8. CASE MarkFails(c)
  <2> DEFINE new == [state EXCEPT !.pc = "delete"]
  <2>1. new \in CheckerStates /\ CheckerKnows(new)
    BY <1>1, <1>8 DEF MarkFails, CheckerStates, CheckerKnows
  <2> QED
    BY <1>8, <2>1, QuietCheckerSteps DEF MarkFails
<1> USE DEF streamVars, tableVars
<1>9. CASE TooLate(c)
  <2>0. PICK new \in CheckerStates : new = [state EXCEPT !.pc = "delete"]
    BY <1>1 DEF CheckerStates
  <2>1. PICK s \in Done : s = state.doc /\ late' = late \cup {s}
    BY <1>1, <1>9 DEF TooLate, CheckerKnows
  <2>2. UNCHANGED <<now, status, anchoredAt, pins, writer, table, storedAt, dropped, collector, collected>>
    BY <1>9 DEF TooLate
  <2>3. TypeOK /\ Progress /\ now' \in Time
    BY <2>1, <2>2, AnchorRequestsAssumption DEF Progress, Done, TypeOK, Time
  <2>4. CheckerKnows(new)'
    BY <1>1, <2>0, <2>1, <2>2 DEF CheckerStates, CheckerKnows, Done
  <2>5. checker' \in [Checkers -> CheckerStates] /\ Knowledge'
    BY <1>9, <2>0, <2>2, <2>3, <2>4, CheckerSteps DEF TooLate
  <2>6. TypeOK'
    BY <2>1, <2>2, <2>5 DEF TypeOK, CheckerStates, Done
  <2>7. Written'
    BY <2>1, <2>2 DEF Written, Done
  <2>8. Promises'
    BY <2>1, <2>2 DEF Promises, MarkedIsAnchored, NotForgotten, FailsOnce, CollectedIsUnpinned
  <2> QED
    BY <2>5, <2>6, <2>7, <2>8
<1>10. CASE MarkStreamReqAsAnchored(c)
  <2>0. PICK new \in CheckerStates :
          new = [state EXCEPT !.pc = "load", !.queue = @ \ {state.doc}, !.doc = None]
    BY <1>1 DEF CheckerStates
  <2>1. PICK s \in Done : /\ s = state.doc /\ status[s] = "anchored"
                          /\ table' = [table EXCEPT ![s] = Marked(@)]
    BY <1>1, <1>10 DEF MarkStreamReqAsAnchored, CheckerKnows
  <2>2. UNCHANGED <<now, status, anchoredAt, pins, writer, storedAt, late, dropped, collector, collected>>
    BY <1>10 DEF MarkStreamReqAsAnchored
  <2>3. TypeOK /\ Progress /\ now' \in Time
    BY <2>1, <2>2, AnchorRequestsAssumption DEF Progress, Done, TypeOK, Time, Marked
  <2>4. CheckerKnows(new)'
    BY <1>1, <2>2, <2>0 DEF CheckerStates, CheckerKnows, Done
  <2>5. checker' \in [Checkers -> CheckerStates] /\ Knowledge'
    BY <1>10, <2>2, <2>3, <2>4, <2>0, CheckerSteps DEF MarkStreamReqAsAnchored, Proceed
  <2>6. TypeOK'
    BY <2>1, <2>2, <2>5 DEF TypeOK, CheckerStates, Marked, Records
  <2>7. Written'
    BY <2>1, <2>2 DEF Written, Done, TypeOK
  <2>8. Promises'
    BY <2>1, <2>2 DEF Promises, MarkedIsAnchored, NotForgotten, FailsOnce,
                      CollectedIsUnpinned, Marked, TypeOK, Done
  <2> QED
    BY <2>5, <2>6, <2>7, <2>8
<1>11. CASE DeleteStreamReq(c)
  <2>1. PICK s \in Done : /\ s = state.doc /\ (s \in late \/ status[s] = "anchored")
                          /\ table' = [table EXCEPT ![s] = "absent"]
                          /\ dropped' = dropped \cup {s}
    BY <1>1, <1>11 DEF DeleteStreamReq, CheckerKnows
  <2>2. UNCHANGED <<now, status, anchoredAt, pins, writer, storedAt, late, collector, collected>>
    BY <1>11 DEF DeleteStreamReq
  <2>3. TypeOK /\ Progress /\ now' \in Time
    BY <2>1, <2>2, AnchorRequestsAssumption DEF Progress, Done, TypeOK, Time
  <2>4. Resting \in CheckerStates /\ CheckerKnows(Resting)'
    BY RestingKnows DEF CheckerKnows, Resting
  <2>5. checker' \in [Checkers -> CheckerStates] /\ Knowledge'
    BY <1>11, <2>2, <2>3, <2>4, CheckerSteps DEF DeleteStreamReq
  <2>6. TypeOK'
    BY <2>1, <2>2, <2>5 DEF TypeOK, CheckerStates, Records, Done
  <2>7. Written'
    BY <2>1, <2>2 DEF Written, Done, TypeOK
  <2>8. Promises'
    BY <2>1, <2>2 DEF Promises, MarkedIsAnchored, NotForgotten, FailsOnce,
                      CollectedIsUnpinned, TypeOK, Done
  <2> QED
    BY <2>5, <2>6, <2>7, <2>8
<1> QED
  BY <1>2, <1>3, <1>4, <1>5, <1>6, <1>7, <1>8, <1>9, <1>10, <1>11 DEF Check

\* A step of a garbage collection that changes at most the pins and the record of
\* the stream in hand.
LEMMA CollectorSteps ==
  ASSUME RequestInv, NEW g \in Collectors, NEW state \in CollectorStates, CollectorKnows(state)',
         CollectorGoes(g, state),
         TypeOK /\ Progress /\ now' \in Time, UNCHANGED checker
  PROVE  collector' \in [Collectors -> CollectorStates] /\ Knowledge'
<1>1. \A d \in Checkers : checker[d] \in CheckerStates
  BY DEF TypeOK, CheckerStates
<1>2. \A h \in Collectors : collector[h] \in CollectorStates
  BY DEF TypeOK, CollectorStates
<1>3. \A h \in Collectors : (collector[h] \in CollectorStates /\ CollectorKnows(collector[h]))'
  BY <1>2, KnowledgeKept DEF RequestInv, Knowledge, CollectorGoes, TypeOK
<1> QED
  BY <1>1, <1>3, KnowledgeKept DEF RequestInv, Knowledge, CollectorGoes, TypeOK

LEMMA QuietCollectorSteps ==
  ASSUME RequestInv, NEW g \in Collectors, NEW state \in CollectorStates, CollectorKnows(state),
         CollectorGoes(g, state),
         UNCHANGED <<now, streamVars, pins, writer, tableVars, checker, late, dropped, collected>>
  PROVE  RequestInv'
<1> USE DEF RequestInv, streamVars, tableVars
<1>1. TypeOK /\ now \in Nat
  BY AnchorRequestsAssumption DEF TypeOK, Time
<1>2. Progress /\ now' \in Time
  BY <1>1 DEF Progress, Done, TypeOK
<1>3. CollectorKnows(state)'
  BY DEF CollectorKnows, Done
<1>4. collector' \in [Collectors -> CollectorStates] /\ Knowledge'
  BY <1>1, <1>2, <1>3, CollectorSteps
<1>5. TypeOK'
  BY <1>1, <1>4 DEF TypeOK, CollectorStates
<1>6. Written' /\ Promises'
  BY DEF Written, Done, Promises, MarkedIsAnchored, NotForgotten, FailsOnce,
         CollectedIsUnpinned
<1> QED
  BY <1>4, <1>5, <1>6

\* The scan for expired records: they stay expired.
LEMMA ExpiredPage ==
  ASSUME RequestInv, NEW g \in Collectors, collector[g].pc = "scan",
         NEW new \in dynamoScan(collector[g], Expired(collector[g].asOf), "next")
  PROVE  new \in CollectorStates /\ CollectorKnows(new)
<1> DEFINE state == collector[g]
           page == Page(state.cursor)
           matches == Expired(state.asOf)
           found == state.queue \cup (page \cap matches)
<1>1. state \in CollectorStates /\ CollectorKnows(state) /\ state.pc = "scan"
  BY DEF RequestInv, TypeOK, CollectorStates, Knowledge
<1>2. ASSUME NEW s \in matches PROVE s \in Done /\ storedAt[s] + StreamTTL < now
  <2>1. s \in Done /\ storedAt[s] + StreamTTL < state.asOf /\ state.asOf <= now
    BY <1>1, <1>2 DEF RequestInv, Written, Done, Expired, CollectorKnows
  <2> QED
    BY <1>1, <2>1, AnchorRequestsAssumption
       DEF RequestInv, TypeOK, CollectorStates, Done, Time, Never
<1>3. /\ found \subseteq Done /\ found \subseteq Streams
      /\ \A s \in found : storedAt[s] + StreamTTL < now
  BY <1>1, <1>2 DEF CollectorKnows, Done
<1>4. \/ /\ new = [state EXCEPT !.queue = found, !.cursor = Max(page)]
         /\ Max(page) \in Streams
      \/ new = [state EXCEPT !.queue = found, !.cursor = 0, !.pc = "next"]
  <2>1. PICK more \in MoreAfter(state.cursor) :
          new = IF more /\ Cardinality(found) < MaxScanResults
                THEN [state EXCEPT !.queue = found, !.cursor = Max(page)]
                ELSE [state EXCEPT !.queue = found, !.cursor = 0, !.pc = "next"]
    BY DEF dynamoScan
  <2>2. more \in BOOLEAN /\ (more => page # {})
    BY PageIsPrefix, FS_EmptySet, AnchorRequestsAssumption DEF MoreAfter
  <2>3. page # {} => Max(page) \in Streams
    BY PageIsPrefix DEF Behind
  <2> HIDE DEF page, found
  <2> QED
    BY <2>1, <2>2, <2>3
<1> HIDE DEF page, found
<1> QED
  BY <1>1, <1>3, <1>4 DEF CollectorStates, CollectorKnows

LEMMA CollectorRequests ==
  ASSUME RequestInv, NEW g \in Collectors, Collect(g) \/ CollectorFails(g)
  PROVE  RequestInv'
<1> DEFINE state == collector[g]
<1> USE DEF RequestInv
<1>1. state \in CollectorStates /\ CollectorKnows(state)
  BY DEF TypeOK, CollectorStates, Knowledge
<1>2. CollectorResting \in CollectorStates /\ CollectorKnows(CollectorResting)
  BY AnchorRequestsAssumption DEF CollectorResting, CollectorStates, CollectorKnows, TypeOK, Time
<1>3. CASE FetchExpired(g)
  <2> DEFINE new == [CollectorResting EXCEPT !.pc = "scan", !.asOf = now]
  <2>1. /\ new \in CollectorStates
        /\ new.pc = "scan" /\ new.queue = {} /\ new.asOf = now /\ new.unpinned = {}
    BY <1>2 DEF CollectorStates, CollectorResting, TypeOK
  <2>2. CollectorKnows(new)
    BY <2>1, AnchorRequestsAssumption DEF CollectorKnows, TypeOK, Time
  <2> QED
    BY <1>3, <2>1, <2>2, QuietCollectorSteps DEF FetchExpired
<1>4. CASE ScanExpired(g)
  <2>1. PICK new \in dynamoScan(state, Expired(state.asOf), "next") :
          CollectorGoes(g, IF new.pc = "next" THEN [new EXCEPT !.asOf = 0] ELSE new)
    BY <1>4 DEF ScanExpired
  <2>2. new \in CollectorStates /\ CollectorKnows(new)
    BY <1>4, ExpiredPage DEF ScanExpired
  <2> DEFINE last == [new EXCEPT !.asOf = 0]
  <2>3. last \in CollectorStates
    BY <2>2, AnchorRequestsAssumption DEF CollectorStates, Time
  <2>4. CollectorKnows(last)
    <3>1. /\ last.pc = new.pc /\ last.queue = new.queue /\ last.doc = new.doc
          /\ last.unpinned = new.unpinned /\ last.asOf = 0
      BY <2>2 DEF CollectorStates
    <3>2. 0 <= now
      BY AnchorRequestsAssumption DEF TypeOK, Time
    <3> HIDE DEF last
    <3> QED
      BY <2>2, <3>1, <3>2 DEF CollectorKnows
  <2> QED
    BY <1>4, <2>1, <2>2, <2>3, <2>4, QuietCollectorSteps DEF ScanExpired
<1>5. CASE NextExpired(g)
  <2>1. CASE state.queue = {}
    BY <1>2, <1>5, <2>1, QuietCollectorSteps DEF NextExpired
  <2>2. ASSUME NEW s \in state.queue,
               CollectorGoes(g, [state EXCEPT !.pc = "unpin", !.queue = @ \ {s}, !.doc = s])
        PROVE  RequestInv'
    <3> DEFINE new == [state EXCEPT !.pc = "unpin", !.queue = @ \ {s}, !.doc = s]
    <3>1. new \in CollectorStates /\ CollectorKnows(new)
      BY <1>1, <1>5 DEF NextExpired, CollectorStates, CollectorKnows
    <3> QED
      BY <1>5, <2>2, <3>1, QuietCollectorSteps DEF NextExpired
  <2> QED
    BY <1>5, <2>1, <2>2 DEF NextExpired
<1>6. CASE CollectorFails(g)
  BY <1>2, <1>6, QuietCollectorSteps DEF CollectorFails
<1> USE DEF streamVars, tableVars
<1>7. CASE Unpin(g)
  <2>1. PICK n \in Nodes \ state.unpinned, done \in SUBSET Nodes :
          /\ done = state.unpinned \cup {n}
          /\ pins' = [pins EXCEPT ![state.doc] = @ \ {n}]
          /\ CollectorGoes(g, [state EXCEPT !.unpinned = done,
                                            !.pc = IF done = Nodes THEN "delete" ELSE "unpin"])
    BY <1>1, <1>7 DEF Unpin, CollectorStates
  <2>2. PICK new \in CollectorStates :
          new = [state EXCEPT !.unpinned = done, !.pc = IF done = Nodes THEN "delete" ELSE "unpin"]
    BY <1>1 DEF CollectorStates
  <2>3. UNCHANGED <<now, status, anchoredAt, writer, table, storedAt, checker, late, dropped, collected>>
    BY <1>7 DEF Unpin
  <2>4. state.pc = "unpin" /\ state.doc \in Done /\ state.doc \in Streams
    BY <1>1, <1>7 DEF Unpin, CollectorKnows, Done
  <2>5. TypeOK /\ Progress /\ now' \in Time
    BY <2>1, <2>3, <2>4, AnchorRequestsAssumption DEF Progress, Done, TypeOK, Time
  <2>6. CollectorKnows(new)'
    BY <1>1, <2>1, <2>2, <2>3, <2>4 DEF CollectorKnows, CollectorStates, Done, TypeOK
  <2>7. collector' \in [Collectors -> CollectorStates] /\ Knowledge'
    BY <2>1, <2>2, <2>3, <2>5, <2>6, CollectorSteps
  <2>8. TypeOK'
    BY <2>1, <2>3, <2>4, <2>7 DEF TypeOK, CollectorStates
  <2>9. Written' /\ Promises'
    BY <2>1, <2>3, <2>4 DEF Written, Done, Promises, MarkedIsAnchored, NotForgotten,
                            FailsOnce, CollectedIsUnpinned, TypeOK
  <2> QED
    BY <2>7, <2>8, <2>9
<1>8. CASE DeleteExpired(g)
  <2>1. PICK s \in Done : /\ s = state.doc /\ s \in Streams
                          /\ storedAt[s] + StreamTTL < now /\ pins[s] = {}
                          /\ table' = [table EXCEPT ![s] = "absent"]
                          /\ collected' = collected \cup {s}
    BY <1>1, <1>8 DEF DeleteExpired, CollectorKnows, Done, TypeOK
  <2>2. PICK new \in CollectorStates :
          new = [state EXCEPT !.pc = "next", !.doc = None, !.unpinned = {}]
    BY <1>1 DEF CollectorStates
  <2>3. UNCHANGED <<now, status, anchoredAt, pins, writer, storedAt, checker, late, dropped>>
    BY <1>8 DEF DeleteExpired
  <2>4. ~(now <= storedAt[s] + StreamTTL)
    BY <2>1, AnchorRequestsAssumption DEF TypeOK, Time, Never
  <2>5. TypeOK /\ Progress /\ now' \in Time
    BY <2>1, <2>3, AnchorRequestsAssumption DEF Progress, Done, TypeOK, Time
  <2>6. CollectorKnows(new)'
    BY <1>1, <2>2, <2>3 DEF CollectorKnows, CollectorStates, Done
  <2>7. collector' \in [Collectors -> CollectorStates] /\ Knowledge'
    BY <1>8, <2>2, <2>3, <2>5, <2>6, CollectorSteps DEF DeleteExpired
  <2>8. TypeOK'
    BY <2>1, <2>3, <2>7 DEF TypeOK, CollectorStates, Records
  <2>9. Written' /\ Promises'
    BY <2>1, <2>3, <2>4 DEF Written, Done, Promises, MarkedIsAnchored, NotForgotten,
                            FailsOnce, CollectedIsUnpinned, TypeOK
  <2> QED
    BY <2>7, <2>8, <2>9
<1> QED
  BY <1>3, <1>4, <1>5, <1>6, <1>7, <1>8 DEF Collect

\* The clock, the anchor service, the TTL of the table and the update test leave
\* the other tests where they are.
LEMMA OthersKnow ==
  ASSUME RequestInv, now' \in Time, Progress, UNCHANGED <<checker, collector>>
  PROVE  Knowledge'
<1>1. \A c \in Checkers : checker[c] \in CheckerStates /\ CheckerKnows(checker[c])
  BY DEF RequestInv, TypeOK, CheckerStates, Knowledge
<1>2. \A g \in Collectors : collector[g] \in CollectorStates /\ CollectorKnows(collector[g])
  BY DEF RequestInv, TypeOK, CollectorStates, Knowledge
<1> QED
  BY <1>1, <1>2, KnowledgeKept DEF RequestInv, Knowledge

LEMMA ServiceRequests ==
  ASSUME RequestInv, Tick \/ \E s \in Streams : Anchor(s) \/ Expire(s)
  PROVE  RequestInv'
<1> USE DEF RequestInv, streamVars, tableVars
<1>1. CASE Tick
  <2>1. /\ now \in Nat /\ now' = now + 1 /\ now' \in Time
        /\ UNCHANGED <<status, anchoredAt, pins, writer, table, storedAt, checker, late, dropped,
                       collector, collected>>
    BY <1>1, AnchorRequestsAssumption DEF Tick, TypeOK, Time
  <2>2. Progress
    BY <2>1 DEF Progress, Done
  <2>3. Knowledge'
    BY <2>1, <2>2, OthersKnow
  <2>4. TypeOK' /\ Written'
    BY <2>1 DEF TypeOK, Written, Done
  <2>5. NotForgotten'
    <3>1. \A s \in Streams : storedAt[s] \in Nat
      BY AnchorRequestsAssumption DEF TypeOK, Time, Never
    <3> QED
      BY <2>1, <3>1, AnchorRequestsAssumption DEF Promises, NotForgotten
  <2>6. Promises'
    BY <2>1, <2>5 DEF Promises, MarkedIsAnchored, FailsOnce, CollectedIsUnpinned
  <2> QED
    BY <2>3, <2>4, <2>5, <2>6
<1>2. ASSUME NEW s \in Streams, Anchor(s) PROVE RequestInv'
  <2>1. /\ status[s] = "pending" /\ now \in Nat /\ now' \in Time
        /\ status' = [status EXCEPT ![s] = "anchored"]
        /\ anchoredAt' = [anchoredAt EXCEPT ![s] = now]
        /\ UNCHANGED <<now, pins, writer, table, storedAt, checker, late, dropped, collector, collected>>
    BY <1>2, AnchorRequestsAssumption DEF Anchor, TypeOK, Time
  <2>2. Progress
    BY <2>1 DEF Progress, Done, TypeOK
  <2>3. Knowledge'
    BY <2>1, <2>2, OthersKnow
  <2>4. TypeOK' /\ Written'
    BY <2>1 DEF TypeOK, Written, Done
  <2>5. Promises'
    BY <2>1 DEF Promises, MarkedIsAnchored, NotForgotten, FailsOnce, CollectedIsUnpinned, TypeOK
  <2> QED
    BY <2>3, <2>4, <2>5
<1>3. ASSUME NEW s \in Streams, Expire(s) PROVE RequestInv'
  <2>1. /\ table[s] \in {"unanchored", "anchored"} /\ now >= storedAt[s] + DatabaseTTL
        /\ table' = [table EXCEPT ![s] = "absent"] /\ now \in Nat /\ now' \in Time
        /\ UNCHANGED <<now, status, anchoredAt, pins, writer, storedAt, checker, late, dropped,
                       collector, collected>>
    BY <1>3, AnchorRequestsAssumption DEF Expire, TypeOK, Time
  <2>2. Progress
    BY <2>1 DEF Progress, Done, TypeOK
  <2>3. Knowledge'
    BY <2>1, <2>2, OthersKnow
  <2>4. TypeOK' /\ Written'
    BY <2>1 DEF TypeOK, Written, Done, Records
  <2>5. ~(now <= storedAt[s] + StreamTTL)
    BY <2>1, AnchorRequestsAssumption DEF TypeOK, Time, Never, DatabaseTTL
  <2>6. Promises'
    BY <2>1, <2>5 DEF Promises, MarkedIsAnchored, NotForgotten, FailsOnce,
                      CollectedIsUnpinned, TypeOK
  <2> QED
    BY <2>3, <2>4, <2>6
<1> QED
  BY <1>1, <1>2, <1>3

LEMMA WriterRequests ==
  ASSUME RequestInv, NEW s \in Streams, RequestAnchor(s) \/ StoreStreamReq(s) \/ WriterFails(s)
  PROVE  RequestInv'
<1> USE DEF RequestInv, streamVars, tableVars
<1>1. now \in Nat /\ now' = now /\ now' \in Time /\ UNCHANGED <<checker, collector>>
  BY AnchorRequestsAssumption DEF RequestAnchor, StoreStreamReq, WriterFails, TypeOK, Time
<1>2. writer[s] # "done" /\ s \notin late \cup dropped \cup collected
  BY DEF RequestAnchor, StoreStreamReq, WriterFails, Written, Done
<1>3. CASE RequestAnchor(s)
  <2>1. /\ writer[s] = "idle" /\ status[s] = "none" /\ table[s] = "absent" /\ storedAt[s] = Never
        /\ writer' = [writer EXCEPT ![s] = "storing"] /\ status' = [status EXCEPT ![s] = "pending"]
        /\ pins' = [pins EXCEPT ![s] = Nodes]
        /\ UNCHANGED <<anchoredAt, table, storedAt, late, dropped, collected>>
    BY <1>2, <1>3 DEF RequestAnchor, Written, Done
  <2>2. Progress
    BY <1>1, <1>2, <2>1 DEF Progress, Done, TypeOK
  <2>3. Knowledge'
    BY <1>1, <2>2, OthersKnow
  <2>4. TypeOK'
    BY <1>1, <2>1 DEF TypeOK
  <2>5. Written'
    BY <1>1, <1>2, <2>1 DEF Written, Done, TypeOK
  <2>6. Promises'
    BY <1>1, <1>2, <2>1 DEF Promises, MarkedIsAnchored, NotForgotten, FailsOnce,
                            CollectedIsUnpinned, TypeOK
  <2> QED
    BY <2>3, <2>4, <2>5, <2>6
<1>4. CASE StoreStreamReq(s)
  <2>1. /\ writer[s] = "storing" /\ writer' = [writer EXCEPT ![s] = "done"]
        /\ table' = [table EXCEPT ![s] = "unanchored"] /\ storedAt' = [storedAt EXCEPT ![s] = now]
        /\ UNCHANGED <<status, anchoredAt, pins, late, dropped, collected>>
    BY <1>4 DEF StoreStreamReq
  <2>2. Progress
    BY <1>1, <1>2, <2>1 DEF Progress, Done, TypeOK
  <2>3. Knowledge'
    BY <1>1, <2>2, OthersKnow
  <2>4. TypeOK'
    BY <1>1, <2>1 DEF TypeOK, Records
  <2>5. Written'
    BY <1>1, <1>2, <2>1 DEF Written, Done, TypeOK
  <2>6. Promises'
    BY <1>1, <1>2, <2>1 DEF Promises, MarkedIsAnchored, NotForgotten, FailsOnce,
                            CollectedIsUnpinned, TypeOK
  <2> QED
    BY <2>3, <2>4, <2>5, <2>6
<1>5. CASE WriterFails(s)
  <2>1. /\ writer[s] = "storing" /\ writer' = [writer EXCEPT ![s] = "done"]
        /\ UNCHANGED <<status, anchoredAt, pins, table, storedAt, late, dropped, collected>>
    BY <1>5 DEF WriterFails
  <2>2. Progress
    BY <1>1, <2>1 DEF Progress, Done, TypeOK
  <2>3. Knowledge'
    BY <1>1, <2>2, OthersKnow
  <2>4. TypeOK' /\ Written'
    BY <1>1, <1>2, <2>1 DEF TypeOK, Written, Done
  <2>5. Promises'
    BY <1>1, <2>1 DEF Promises, MarkedIsAnchored, NotForgotten, FailsOnce, CollectedIsUnpinned
  <2> QED
    BY <2>3, <2>4, <2>5
<1> QED
  BY <1>3, <1>4, <1>5

LEMMA IdleRequests == RequestInv /\ UNCHANGED vars => RequestInv'
BY DEF vars, streamVars, tableVars, RequestInv, TypeOK, Written, Done, Knowledge, CheckerKnows,
       CollectorKnows, Promises, MarkedIsAnchored, NotForgotten, FailsOnce, CollectedIsUnpinned

LEMMA NextRequests == RequestInv /\ [Next]_vars => RequestInv'
<1> SUFFICES ASSUME RequestInv, [Next]_vars PROVE RequestInv'
  OBVIOUS
<1> QED
  BY CheckerRequests, CollectorRequests, ServiceRequests, WriterRequests, IdleRequests DEF Next

-----------------------------------------------------------------------------
(* The results.                                                            *)

LEMMA RequestsInvariant == Spec => []RequestInv
BY InitRequests, NextRequests, PTL DEF Spec

\* The variables keep their types: a scan's cursor is always a record's number,
\* and a garbage collection's stream always one of the table.
THEOREM TypeCorrect == Spec => []TypeOK
BY RequestsInvariant, PTL DEF RequestInv

\* A record that says Anchored belongs to a stream that is anchored, whatever
\* other runs did between the load and the update.
THEOREM MarksAreTrue == Spec => []MarkedIsAnchored
<1>1. RequestInv => MarkedIsAnchored
  BY DEF RequestInv, Promises
<1> QED
  BY <1>1, RequestsInvariant, PTL

\* For StreamTTL at least, a stored record is there, unanchored, until its stream
\* is anchored or a test has failed for it, whichever runs are killed.
THEOREM RecordsAreKept == Spec => []NotForgotten
<1>1. RequestInv => NotForgotten
  BY DEF RequestInv, Promises
<1> QED
  BY <1>1, RequestsInvariant, PTL

\* A record an anchor test has deleted is never unanchored again, although tests
\* that overlap may still write it.
THEOREM FailuresAreOnce == Spec => []FailsOnce
<1>1. RequestInv => FailsOnce
  BY DEF RequestInv, Promises
<1> QED
  BY <1>1, RequestsInvariant, PTL

\* Where a garbage collection has deleted the record, no node pins the stream.
THEOREM CollectedAreUnpinned == Spec => []CollectedIsUnpinned
<1>1. RequestInv => CollectedIsUnpinned
  BY DEF RequestInv, Promises
<1> QED
  BY <1>1, RequestsInvariant, PTL

\* A scan returns every record that is unanchored from its beginning to its end,
\* unless it has found the limit, and never a whole page more than the limit, for
\* every table, page and limit.
THEOREM ScansReturn == Spec => ScanReturns
<1> DEFINE returned(c) ==
      LET found == checker'[c].queue IN
      /\ checker[c].before \cap Unanchored \subseteq found \/ Cardinality(found) >= MaxScanResults
      /\ Cardinality(found) < MaxScanResults + PageSize
<1>1. ASSUME RequestInv, Next, NEW c \in Checkers, checker[c].pc = "scan", checker'[c].pc = "load"
      PROVE  returned(c)
  <2>1. PICK d \in Checkers : Check(d) \/ MarkFails(d) \/ CheckerFails(d)
    BY <1>1 DEF Next, Tick, Anchor, Expire, RequestAnchor, StoreStreamReq, WriterFails, Collect,
                FetchExpired, ScanExpired, NextExpired, Unpin, DeleteExpired, CollectorFails
  <2>2. \E state : CheckerGoes(d, state)
    BY <2>1 DEF Check, FetchUnanchored, ScanUnanchored, EndOfQueue, LoadAnchored, LoadUnanchored, Proceed, TooLate, StillPending,
                MarkStreamReqAsAnchored, DeleteStreamReq, MarkFails, CheckerFails
  <2>3. ScanUnanchored(c)
    <3>1. d = c
      BY <1>1, <2>2 DEF CheckerGoes, RequestInv, TypeOK
    <3>2. ~CheckerFails(c)
      BY <1>1 DEF CheckerFails, CheckerGoes, Resting, RequestInv, TypeOK
    <3>3. Check(c)
      BY <1>1, <2>1, <3>1, <3>2 DEF MarkFails
    <3> QED
      BY <1>1, <3>3 DEF Check, FetchUnanchored, EndOfQueue, LoadAnchored, LoadUnanchored, Proceed, TooLate, StillPending,
                        MarkStreamReqAsAnchored, DeleteStreamReq
  <2>4. PICK new \in dynamoScan(checker[c], Unanchored, "load") :
          CheckerGoes(c, IF new.pc = "load" THEN [new EXCEPT !.before = {}] ELSE new)
    BY <2>3 DEF ScanUnanchored
  <2>5. /\ new \in CheckerStates /\ new.pc \in {"scan", "load"}
        /\ new.pc = "load" =>
             \/ checker[c].before \cap Unanchored \subseteq new.queue
             \/ ~(Cardinality(new.queue) < MaxScanResults)
        /\ Cardinality(new.queue) < MaxScanResults + PageSize
    BY <1>1, ScannedPage
  <2>6. new.pc = "load" /\ checker'[c].queue = new.queue
    BY <1>1, <2>4, <2>5 DEF CheckerGoes, CheckerStates, RequestInv, TypeOK
  <2>7. Cardinality(new.queue) \in Nat
    BY <2>5, FS_Subset, FS_CardinalityType, AnchorRequestsAssumption DEF CheckerStates
  <2> QED
    BY <2>5, <2>6, <2>7, AnchorRequestsAssumption
<1>2. RequestInv /\ [Next]_vars =>
        [\A c \in Checkers : checker[c].pc = "scan" /\ checker'[c].pc = "load" => returned(c)]_vars
  BY <1>1
<1> QED
  BY <1>2, RequestsInvariant, PTL DEF Spec, ScanReturns

-----------------------------------------------------------------------------
(* Scans end: the loop of dynamoScan has no bound of its own.              *)

\* The next request of a scan starts behind the page of the last one.
LEMMA NextPage ==
  ASSUME NEW state \in CheckerStates \cup CollectorStates, state.pc = "scan",
         NEW matches, NEW next, next # "scan",
         NEW new \in dynamoScan(state, matches, next), new.pc = "scan"
  PROVE  new.cursor \in Streams /\ state.cursor < new.cursor
<1> DEFINE page == Page(state.cursor)
           found == state.queue \cup (page \cap matches)
<1>1. PICK more \in MoreAfter(state.cursor) :
        new = IF more /\ Cardinality(found) < MaxScanResults
              THEN [state EXCEPT !.queue = found, !.cursor = Max(page)]
              ELSE [state EXCEPT !.queue = found, !.cursor = 0, !.pc = next]
  BY DEF dynamoScan
<1>2. more \in BOOLEAN /\ (more => page # {})
  BY PageIsPrefix, FS_EmptySet, AnchorRequestsAssumption DEF MoreAfter
<1>3. page # {} => Max(page) \in Streams /\ state.cursor < Max(page)
  BY PageIsPrefix, AnchorRequestsAssumption DEF Behind, CheckerStates, CollectorStates
<1> HIDE DEF page, found
<1>4. more /\ new = [state EXCEPT !.queue = found, !.cursor = Max(page)]
  BY <1>1 DEF CheckerStates, CollectorStates
<1>5. new.cursor = Max(page)
  BY <1>4 DEF CheckerStates, CollectorStates
<1> QED
  BY <1>2, <1>3, <1>4, <1>5

\* A scan that goes on has moved on by at least one record, of anchor tests and
\* of garbage collections.
ScansGoOn ==
  [][/\ \A c \in Checkers : checker[c].pc = "scan" /\ checker'[c].pc = "scan" =>
          checker'[c] = checker[c] \/ checker[c].cursor < checker'[c].cursor
     /\ \A g \in Collectors : collector[g].pc = "scan" /\ collector'[g].pc = "scan" =>
          collector'[g] = collector[g] \/ collector[g].cursor < collector'[g].cursor]_vars

LEMMA CheckersScan ==
  RequestInv /\ Next =>
    \A c \in Checkers : checker[c].pc = "scan" /\ checker'[c].pc = "scan" =>
      checker'[c] = checker[c] \/ checker[c].cursor < checker'[c].cursor
<1>1. ASSUME RequestInv, Next, NEW c \in Checkers, checker[c].pc = "scan",
             checker'[c].pc = "scan", checker'[c] # checker[c]
      PROVE  checker[c].cursor < checker'[c].cursor
  <2>0. checker' # checker
    BY <1>1, Zenon
  <2>1. PICK d \in Checkers : Check(d) \/ MarkFails(d) \/ CheckerFails(d)
    BY <1>1, <2>0, Zenon DEF Next, Tick, Anchor, Expire, RequestAnchor, StoreStreamReq, WriterFails, Collect,
                FetchExpired, ScanExpired, NextExpired, Unpin, DeleteExpired, CollectorFails
  <2>2. \E state : CheckerGoes(d, state)
    BY <2>1 DEF Check, FetchUnanchored, ScanUnanchored, EndOfQueue, LoadAnchored, LoadUnanchored, Proceed, TooLate, StillPending,
                MarkStreamReqAsAnchored, DeleteStreamReq, MarkFails, CheckerFails
  <2>3. d = c
    BY <1>1, <2>2 DEF CheckerGoes, RequestInv, TypeOK
  <2>4. ~CheckerFails(c)
    BY <1>1 DEF CheckerFails, CheckerGoes, Resting, RequestInv, TypeOK
  <2>5. Check(c)
    BY <1>1, <2>1, <2>3, <2>4 DEF MarkFails
  <2>6. ScanUnanchored(c)
    BY <1>1, <2>5 DEF Check, FetchUnanchored, EndOfQueue, LoadAnchored, LoadUnanchored, Proceed, TooLate, StillPending,
                      MarkStreamReqAsAnchored, DeleteStreamReq
  <2>7. PICK new \in dynamoScan(checker[c], Unanchored, "load") :
          CheckerGoes(c, IF new.pc = "load" THEN [new EXCEPT !.before = {}] ELSE new)
    BY <2>6 DEF ScanUnanchored
  <2>8. new \in CheckerStates
    BY <1>1, <2>7, ScannedPage
  <2>9. checker[c] \in CheckerStates
    BY <1>1 DEF RequestInv, TypeOK, CheckerStates
  <2>10. checker'[c] = IF new.pc = "load" THEN [new EXCEPT !.before = {}] ELSE new
    <3>1. checker \in [Checkers -> CheckerStates]
      BY <1>1, Zenon DEF RequestInv, TypeOK, CheckerStates
    <3> QED
      BY <2>7, <3>1, Zenon DEF CheckerGoes
  <2>11. new.pc # "load"
    BY <1>1, <2>8, <2>10 DEF CheckerStates
  <2> QED
    BY <1>1, <2>7, <2>9, <2>10, <2>11, NextPage
<1> QED
  BY <1>1

LEMMA CollectorsScan ==
  RequestInv /\ Next =>
    \A g \in Collectors : collector[g].pc = "scan" /\ collector'[g].pc = "scan" =>
      collector'[g] = collector[g] \/ collector[g].cursor < collector'[g].cursor
<1>1. ASSUME RequestInv, Next, NEW g \in Collectors, collector[g].pc = "scan",
             collector'[g].pc = "scan", collector'[g] # collector[g]
      PROVE  collector[g].cursor < collector'[g].cursor
  <2>1. PICK h \in Collectors : Collect(h) \/ CollectorFails(h)
    BY <1>1 DEF Next, Tick, Anchor, Expire, RequestAnchor, StoreStreamReq, WriterFails, Check,
                FetchUnanchored, ScanUnanchored, EndOfQueue, LoadAnchored, LoadUnanchored, Proceed, TooLate, StillPending,
                MarkStreamReqAsAnchored, DeleteStreamReq, MarkFails, CheckerFails
  <2>2. \E state : CollectorGoes(h, state)
    BY <2>1 DEF Collect, FetchExpired, ScanExpired, NextExpired, Unpin, DeleteExpired, CollectorFails
  <2>3. h = g
    BY <1>1, <2>2 DEF CollectorGoes, RequestInv, TypeOK
  <2>4. ~CollectorFails(g)
    BY <1>1 DEF CollectorFails, CollectorGoes, CollectorResting, RequestInv, TypeOK
  <2>5. ScanExpired(g)
    <3>1. Collect(g)
      BY <2>1, <2>3, <2>4
    <3> QED
      BY <1>1, <3>1 DEF Collect, FetchExpired, NextExpired, Unpin, DeleteExpired
  <2>6. PICK new \in dynamoScan(collector[g], Expired(collector[g].asOf), "next") :
          CollectorGoes(g, IF new.pc = "next" THEN [new EXCEPT !.asOf = 0] ELSE new)
    BY <2>5 DEF ScanExpired
  <2>7. new \in CollectorStates
    BY <1>1, <2>6, ExpiredPage
  <2>8. collector[g] \in CollectorStates
    BY <1>1 DEF RequestInv, TypeOK, CollectorStates
  <2>9. collector'[g] = IF new.pc = "next" THEN [new EXCEPT !.asOf = 0] ELSE new
    <3>1. collector \in [Collectors -> CollectorStates]
      BY <1>1, Zenon DEF RequestInv, TypeOK, CollectorStates
    <3> QED
      BY <2>6, <3>1, Zenon DEF CollectorGoes
  <2>10. new.pc # "next"
    BY <1>1, <2>7, <2>9 DEF CollectorStates
  <2> QED
    BY <1>1, <2>6, <2>8, <2>9, <2>10, NextPage
<1> QED
  BY <1>1

\* However records come and go between its pages, a scan makes no more requests
\* than there are streams, and one: each but the last finds a key behind all
\* keys before (dynamoDbHelpers.ts:209-237).
THEOREM ScansAdvance == Spec => ScansGoOn
<1>1. RequestInv /\ Next =>
        /\ \A c \in Checkers : checker[c].pc = "scan" /\ checker'[c].pc = "scan" =>
             checker'[c] = checker[c] \/ checker[c].cursor < checker'[c].cursor
        /\ \A g \in Collectors : collector[g].pc = "scan" /\ collector'[g].pc = "scan" =>
             collector'[g] = collector[g] \/ collector[g].cursor < collector'[g].cursor
  BY CheckersScan, CollectorsScan
<1> QED
  BY <1>1, RequestsInvariant, PTL DEF Spec, ScansGoOn

-----------------------------------------------------------------------------
(* The refinement: the requests are a ledger.                              *)

Bookings == [s \in Streams |-> Life(s)]
AnchoredStreams == {s \in Streams : status[s] = "anchored"}

\* The ledger changes in at most one stream's life.
LEMMA OneBooking ==
  ASSUME NEW s \in Streams, NEW stage,
         \A r \in Streams : Life(r)' = IF r = s THEN stage ELSE Life(r),
         UNCHANGED <<AnchoredStreams, Doubted, late, OverTTL>>
  PROVE  Ledger!Becomes(s, stage)
<1>1. Bookings' = [Bookings EXCEPT ![s] = stage]
  BY DEF Bookings
<1> QED
  BY <1>1 DEF Ledger!Becomes, Bookings, AnchoredStreams

LEMMA LedgerUnchanged ==
  ASSUME \A r \in Streams : Life(r)' = Life(r), UNCHANGED <<AnchoredStreams, Doubted, late, OverTTL>>
  PROVE  UNCHANGED Ledger!vars
<1>1. Bookings' = Bookings
  BY DEF Bookings
<1> QED
  BY <1>1 DEF Ledger!vars, Bookings, AnchoredStreams

\* A step that changes neither the records nor what they are judged by.
LEMMA OffTheBooks ==
  ASSUME UNCHANGED <<now, status, writer, table, storedAt, late, Doubted>>
  PROVE  UNCHANGED Ledger!vars
<1>1. \A r \in Streams : Life(r)' = Life(r)
  BY DEF Life
<1>2. UNCHANGED <<AnchoredStreams, OverTTL>>
  BY DEF AnchoredStreams, OverTTL
<1> QED
  BY <1>1, <1>2, LedgerUnchanged

\* A record that stops being unanchored, or goes on not being it.
LEMMA TakenOff ==
  ASSUME RequestInv, NEW s \in Done, NEW record, record # "unanchored",
         table' = [table EXCEPT ![s] = record],
         UNCHANGED <<now, status, writer, storedAt, late, Doubted>>,
         status[s] = "anchored" \/ s \in late \/ storedAt[s] + StreamTTL < now
  PROVE  Ledger!Settle(s) \/ UNCHANGED Ledger!vars
<1>1. s \in Streams /\ writer[s] = "done"
  BY DEF Done
<1>2. UNCHANGED <<AnchoredStreams, Doubted, late, OverTTL>>
  BY DEF AnchoredStreams, OverTTL
<1>3. \A r \in Streams : Life(r)' = IF r = s THEN "settled" ELSE Life(r)
  BY <1>1 DEF Life, RequestInv, TypeOK
<1>4. s \in AnchoredStreams \cup late \cup OverTTL
  BY <1>1, AnchorRequestsAssumption
     DEF AnchoredStreams, OverTTL, RequestInv, TypeOK, Time, Never
<1>5. CASE Life(s) = "recorded"
  BY <1>1, <1>2, <1>3, <1>4, <1>5, OneBooking DEF Ledger!Settle, AnchoredStreams
<1>6. CASE Life(s) # "recorded"
  <2>1. Life(s) = "settled"
    BY <1>1, <1>6 DEF Life
  <2> QED
    BY <1>2, <1>3, <2>1, LedgerUnchanged
<1> QED
  BY <1>5, <1>6

LEMMA LedgerInit == Init => Ledger!Init
<1> SUFFICES ASSUME Init PROVE Ledger!Init
  OBVIOUS
<1>1. \A s \in Streams : Life(s) = "new"
  BY DEF Init, Life
<1>2. OverTTL = {} /\ AnchoredStreams = {} /\ Doubted = {} /\ late = {}
  BY DEF Init, OverTTL, AnchoredStreams, Doubted, Resting
<1> QED
  BY <1>1, <1>2 DEF Ledger!Init, AnchoredStreams

\* A test that neither takes a doubtful stream into its hands nor lays one down
\* leaves the doubts as they are, and one that lays it down at most takes its own
\* doubt back.
LEMMA OutOfDoubt ==
  ASSUME RequestInv, NEW c \in Checkers, NEW state, CheckerGoes(c, state), state.pc # "judge"
  PROVE  /\ checker[c].pc # "judge" => UNCHANGED Doubted
         /\ Doubted' \in {Doubted, Doubted \ {checker[c].doc}}
<1>1. checker \in [Checkers -> CheckerStates]
  BY DEF RequestInv, TypeOK, CheckerStates
<1>2. /\ checker'[c] = state
      /\ \A d \in Checkers \ {c} : checker'[d] = checker[d]
  BY <1>1 DEF CheckerGoes
<1>3. \A s \in Streams : s \in Doubted' => s \in Doubted
  BY <1>2 DEF Doubted
<1>4. \A s \in Doubted : s \in Doubted' \/ (checker[c].pc = "judge" /\ checker[c].doc = s)
  BY <1>2 DEF Doubted
<1>5. Doubted \subseteq Streams /\ Doubted' \subseteq Streams
  BY DEF Doubted
<1> QED
  BY <1>3, <1>4, <1>5

\* A test that goes on to the next record lays the one in hand down.
LEMMA Proceeds ==
  ASSUME RequestInv, NEW c \in Checkers, Proceed(c)
  PROVE  \E new : CheckerGoes(c, new) /\ new.pc # "judge"
<1> DEFINE new == [checker[c] EXCEPT !.pc = "load", !.queue = @ \ {checker[c].doc}, !.doc = None]
<1>1. checker[c] \in CheckerStates
  BY DEF RequestInv, TypeOK, CheckerStates
<1>2. new.pc = "load"
  BY <1>1 DEF CheckerStates
<1>3. CheckerGoes(c, new)
  BY DEF Proceed
<1> HIDE DEF new
<1> QED
  BY <1>2, <1>3

LEMMA CheckerBooks ==
  ASSUME RequestInv, NEW c \in Checkers, Check(c) \/ MarkFails(c) \/ CheckerFails(c)
  PROVE  [Ledger!Next]_(Ledger!vars)
<1> DEFINE state == checker[c]
<1> USE DEF streamVars, tableVars
<1>1. state \in CheckerStates /\ CheckerKnows(state) /\ RequestInv
  BY DEF RequestInv, TypeOK, CheckerStates, Knowledge
<1>2. CASE \/ FetchUnanchored(c) \/ ScanUnanchored(c) \/ EndOfQueue(c) \/ MarkFails(c)
           \/ \E s \in Streams : LoadAnchored(c, s)
  <2>1. UNCHANGED <<now, status, writer, table, storedAt, late>>
    BY <1>2, Zenon DEF FetchUnanchored, ScanUnanchored, EndOfQueue, MarkFails, LoadAnchored
  <2>2. PICK new : CheckerGoes(c, new) /\ new.pc # "judge" /\ state.pc # "judge"
    <3>1. CASE ScanUnanchored(c)
      <4>1. PICK new \in dynamoScan(state, Unanchored, "load") :
              CheckerGoes(c, IF new.pc = "load" THEN [new EXCEPT !.before = {}] ELSE new)
        BY <3>1 DEF ScanUnanchored
      <4>2. state.pc = "scan" /\ new \in CheckerStates /\ new.pc \in {"scan", "load"}
        BY <3>1, <4>1, ScannedPage DEF ScanUnanchored
      <4>3. new.pc = "load" => [new EXCEPT !.before = {}].pc = "load"
        BY <4>2 DEF CheckerStates
      <4> QED
        BY <4>1, <4>2, <4>3
    <3>2. CASE FetchUnanchored(c) \/ EndOfQueue(c)
      BY <3>2 DEF FetchUnanchored, EndOfQueue, Resting
    <3>3. CASE MarkFails(c) \/ \E s \in Streams : LoadAnchored(c, s)
      BY <1>1, <3>3 DEF MarkFails, LoadAnchored, CheckerStates
    <3> QED
      BY <1>2, <3>1, <3>2, <3>3
  <2> QED
    BY <1>1, <2>1, <2>2, OutOfDoubt, OffTheBooks
<1>3. ASSUME NEW s \in Streams, LoadUnanchored(c, s) PROVE [Ledger!Next]_(Ledger!vars)
  <2>1. /\ s \in Done /\ status[s] # "anchored"
        /\ UNCHANGED <<now, status, writer, table, storedAt, late>>
    BY <1>1, <1>3 DEF LoadUnanchored, CheckerKnows
  <2>2. /\ checker'[c].pc = "judge" /\ checker'[c].doc = s /\ state.pc # "judge"
        /\ \A d \in Checkers \ {c} : checker'[d] = checker[d]
    <3>1. checker \in [Checkers -> CheckerStates]
      BY <1>1 DEF RequestInv, TypeOK, CheckerStates
    <3> QED
      BY <1>3, <3>1 DEF LoadUnanchored, CheckerGoes, CheckerStates
  <2>3. Doubted' = Doubted \cup {s}
    BY <2>2 DEF Doubted
  <2>4. UNCHANGED <<Bookings, AnchoredStreams, OverTTL>>
    BY <2>1 DEF Bookings, Life, AnchoredStreams, OverTTL
  <2>5. Life(s) \in {"recorded", "settled"}
    BY <2>1 DEF Life, Done
  <2>6. Ledger!Doubt(s)
    BY <2>1, <2>3, <2>4, <2>5
       DEF Ledger!Doubt, Ledger!OnceRecorded, Bookings, AnchoredStreams
  <2> QED
    BY <2>6 DEF Ledger!Next
<1>4. CASE StillPending(c) \/ CheckerFails(c)
  <2>1. PICK new : CheckerGoes(c, new) /\ new.pc # "judge"
    <3>1. CASE StillPending(c)
      BY <1>1, <3>1, Proceeds DEF StillPending
    <3>2. CASE CheckerFails(c)
      BY <3>2 DEF CheckerFails, Resting
    <3> QED
      BY <1>4, <3>1, <3>2
  <2>2. UNCHANGED <<now, status, writer, table, storedAt, late>>
    BY <1>4 DEF StillPending, CheckerFails
  <2>3. UNCHANGED <<Bookings, AnchoredStreams, OverTTL>>
    BY <2>2 DEF Bookings, Life, AnchoredStreams, OverTTL
  <2>4. CASE UNCHANGED Doubted
    BY <2>2, <2>4, OffTheBooks
  <2>5. CASE state.pc = "judge" /\ Doubted' = Doubted \ {state.doc}
    <3>1. state.doc \in Streams
      BY <1>1, <2>5 DEF CheckerKnows, Done
    <3>2. Ledger!Clear(state.doc)
      BY <2>2, <2>3, <2>5 DEF Ledger!Clear, Bookings, AnchoredStreams
    <3> QED
      BY <3>1, <3>2 DEF Ledger!Next
  <2> QED
    BY <1>1, <2>1, <2>4, <2>5, OutOfDoubt
<1>5. CASE TooLate(c)
  <2>1. /\ state.doc \in Done /\ late' = late \cup {state.doc} /\ state.pc = "judge"
        /\ UNCHANGED <<now, status, writer, table, storedAt>>
    BY <1>1, <1>5 DEF TooLate, CheckerKnows
  <2>2. PICK new : CheckerGoes(c, new) /\ new.pc # "judge"
    BY <1>1, <1>5 DEF TooLate, CheckerStates
  <2>3. Doubted' \in {Doubted, Doubted \ {state.doc}} /\ state.doc \in Doubted
    BY <1>1, <2>1, <2>2, OutOfDoubt DEF Doubted, Done
  <2>4. UNCHANGED <<Bookings, AnchoredStreams, OverTTL>>
    BY <2>1 DEF Bookings, Life, AnchoredStreams, OverTTL
  <2>5. Ledger!Fail(state.doc)
    BY <2>1, <2>3, <2>4 DEF Ledger!Fail, Bookings, AnchoredStreams
  <2> QED
    BY <2>1, <2>5 DEF Ledger!Next, Done
<1>6. CASE MarkStreamReqAsAnchored(c)
  <2>1. PICK s \in Done : /\ s = state.doc /\ status[s] = "anchored"
                          /\ table' = [table EXCEPT ![s] = Marked(table[s])]
    BY <1>1, <1>6 DEF MarkStreamReqAsAnchored, CheckerKnows
  <2>2. Marked(table[s]) # "unanchored" /\ UNCHANGED <<now, status, writer, storedAt, late>>
    BY <1>6 DEF MarkStreamReqAsAnchored, Marked
  <2>3. UNCHANGED Doubted
    BY <1>1, <1>6, Proceeds, OutOfDoubt DEF MarkStreamReqAsAnchored
  <2>4. Ledger!Settle(s) \/ UNCHANGED Ledger!vars
    BY <2>1, <2>2, <2>3, TakenOff
  <2> QED
    BY <2>4 DEF Ledger!Next, Done
<1>7. CASE DeleteStreamReq(c)
  <2>1. PICK s \in Done : /\ s = state.doc /\ (s \in late \/ status[s] = "anchored")
                          /\ table' = [table EXCEPT ![s] = "absent"]
    BY <1>1, <1>7 DEF DeleteStreamReq, CheckerKnows
  <2>2. UNCHANGED <<now, status, writer, storedAt, late>>
    BY <1>7 DEF DeleteStreamReq
  <2>3. UNCHANGED Doubted
    BY <1>1, <1>7, OutOfDoubt DEF DeleteStreamReq, Resting
  <2>4. Ledger!Settle(s) \/ UNCHANGED Ledger!vars
    BY <2>1, <2>2, <2>3, TakenOff
  <2> QED
    BY <2>4 DEF Ledger!Next, Done
<1> QED
  BY <1>2, <1>3, <1>4, <1>5, <1>6, <1>7 DEF Check

LEMMA CollectorBooks ==
  ASSUME RequestInv, NEW g \in Collectors, Collect(g) \/ CollectorFails(g)
  PROVE  [Ledger!Next]_(Ledger!vars)
<1> USE DEF streamVars, tableVars
<1>1. CASE FetchExpired(g) \/ ScanExpired(g) \/ NextExpired(g) \/ Unpin(g) \/ CollectorFails(g)
  <2>1. UNCHANGED <<now, status, writer, table, storedAt, checker, late>>
    BY <1>1, Zenon DEF FetchExpired, ScanExpired, NextExpired, Unpin, CollectorFails
  <2> QED
    BY <2>1, OffTheBooks DEF Doubted
<1>2. CASE DeleteExpired(g)
  <2>1. CollectorKnows(collector[g])
    BY DEF RequestInv, Knowledge
  <2>2. PICK s \in Done : /\ table' = [table EXCEPT ![s] = "absent"]
                          /\ storedAt[s] + StreamTTL < now
    BY <1>2, <2>1 DEF DeleteExpired, CollectorKnows
  <2>3. UNCHANGED <<now, status, writer, storedAt, checker, late>>
    BY <1>2 DEF DeleteExpired
  <2>4. Ledger!Settle(s) \/ UNCHANGED Ledger!vars
    BY <2>2, <2>3, TakenOff DEF Doubted
  <2> QED
    BY <2>4 DEF Ledger!Next, Done
<1> QED
  BY <1>1, <1>2 DEF Collect

LEMMA ServiceBooks ==
  ASSUME RequestInv, RequestInv', Tick \/ \E s \in Streams : Anchor(s) \/ Expire(s)
  PROVE  [Ledger!Next]_(Ledger!vars)
<1> USE DEF streamVars, tableVars
<1>1. CASE Tick
  <2>1. now' = now + 1 /\ UNCHANGED <<status, writer, table, storedAt, checker, late>>
    BY <1>1 DEF Tick
  <2>2. \A r \in Streams : Life(r)' = Life(r)
    BY <2>1 DEF Life
  <2>3. UNCHANGED <<Bookings, AnchoredStreams, Doubted>>
    BY <2>1, <2>2 DEF Bookings, AnchoredStreams, Doubted
  <2>4. OverTTL \subseteq OverTTL'
    <3>1. \A r \in Streams : storedAt[r] \in Nat
      BY AnchorRequestsAssumption DEF RequestInv, TypeOK, Time, Never
    <3>2. now \in Nat /\ StreamTTL \in Nat
      BY AnchorRequestsAssumption DEF RequestInv, TypeOK, Time
    <3> QED
      BY <2>1, <3>1, <3>2 DEF OverTTL
  <2>5. \A r \in OverTTL' : r \in Streams /\ Life(r) \in {"recorded", "settled"}
    BY <2>1 DEF OverTTL, Life, RequestInv, Written, Done
  <2>6. PICK grown : /\ \A r \in grown : r \in Streams /\ Life(r) \in {"recorded", "settled"}
                     /\ OverTTL' = OverTTL \cup grown
    BY <2>4, <2>5
  <2>7. grown \in SUBSET Ledger!OnceRecorded
    BY <2>6 DEF Ledger!OnceRecorded
  <2>8. Ledger!Age
    BY <2>1, <2>3, <2>6, <2>7 DEF Ledger!Age, Bookings, AnchoredStreams
  <2> QED
    BY <2>8 DEF Ledger!Next
<1>2. ASSUME NEW s \in Streams, Anchor(s) PROVE [Ledger!Next]_(Ledger!vars)
  <2>1. /\ status[s] = "pending" /\ status' = [status EXCEPT ![s] = "anchored"]
        /\ UNCHANGED <<now, writer, table, storedAt, checker, late>>
    BY <1>2 DEF Anchor
  <2>2. \A r \in Streams : Life(r)' = Life(r)
    BY <2>1 DEF Life
  <2>3. UNCHANGED <<Bookings, Doubted, OverTTL>>
    BY <2>1, <2>2 DEF Bookings, Doubted, OverTTL
  <2>4. AnchoredStreams' = AnchoredStreams \cup {s}
    BY <2>1 DEF AnchoredStreams, RequestInv, TypeOK
  <2>5. Life(s) # "new"
    BY <2>1 DEF Life, RequestInv, TypeOK, Written
  <2>6. Ledger!Anchor(s)
    BY <2>1, <2>3, <2>4, <2>5 DEF Ledger!Anchor, Bookings, AnchoredStreams
  <2> QED
    BY <2>6 DEF Ledger!Next
<1>3. ASSUME NEW s \in Streams, Expire(s) PROVE [Ledger!Next]_(Ledger!vars)
  <2>1. /\ table[s] \in {"unanchored", "anchored"} /\ now >= storedAt[s] + DatabaseTTL
        /\ table' = [table EXCEPT ![s] = "absent"]
        /\ UNCHANGED <<now, status, writer, storedAt, checker, late>>
    BY <1>3 DEF Expire
  <2>2. s \in Done
    BY <2>1 DEF RequestInv, Written
  <2>3. storedAt[s] + StreamTTL < now
    BY <2>1, AnchorRequestsAssumption DEF DatabaseTTL, RequestInv, TypeOK, Time, Never
  <2>4. Ledger!Settle(s) \/ UNCHANGED Ledger!vars
    BY <2>1, <2>2, <2>3, TakenOff DEF Doubted
  <2> QED
    BY <2>4 DEF Ledger!Next
<1> QED
  BY <1>1, <1>2, <1>3

LEMMA WriterBooks ==
  ASSUME RequestInv, NEW s \in Streams, RequestAnchor(s) \/ StoreStreamReq(s) \/ WriterFails(s)
  PROVE  [Ledger!Next]_(Ledger!vars)
<1> USE DEF streamVars, tableVars
<1>1. writer \in [Streams -> {"idle", "storing", "done"}] /\ table \in [Streams -> Records]
  BY DEF RequestInv, TypeOK
<1>2. writer[s] # "done" => table[s] = "absent" /\ storedAt[s] = Never
  BY DEF RequestInv, Written, Done
<1>3. CASE RequestAnchor(s)
  <2>1. /\ writer[s] = "idle" /\ writer' = [writer EXCEPT ![s] = "storing"]
        /\ status[s] = "none" /\ status' = [status EXCEPT ![s] = "pending"]
        /\ UNCHANGED <<now, table, storedAt, checker, late>>
    BY <1>3 DEF RequestAnchor, RequestInv, Written
  <2>2. Life(s) = "new" /\ \A r \in Streams : Life(r)' = IF r = s THEN "asked" ELSE Life(r)
    BY <1>1, <2>1 DEF Life
  <2>3. UNCHANGED <<AnchoredStreams, Doubted, late, OverTTL>>
    BY <2>1 DEF AnchoredStreams, Doubted, OverTTL, RequestInv, TypeOK
  <2>4. Ledger!Ask(s)
    BY <2>2, <2>3, OneBooking DEF Ledger!Ask
  <2> QED
    BY <2>4 DEF Ledger!Next
<1>4. CASE StoreStreamReq(s)
  <2>1. /\ writer[s] = "storing" /\ writer' = [writer EXCEPT ![s] = "done"]
        /\ table' = [table EXCEPT ![s] = "unanchored"] /\ storedAt' = [storedAt EXCEPT ![s] = now]
        /\ UNCHANGED <<now, status, checker, late>>
    BY <1>4 DEF StoreStreamReq
  <2>2. Life(s) = "asked" /\ \A r \in Streams : Life(r)' = IF r = s THEN "recorded" ELSE Life(r)
    BY <1>1, <2>1 DEF Life
  <2>3. UNCHANGED <<AnchoredStreams, Doubted>>
    BY <2>1 DEF AnchoredStreams, Doubted
  <2>4. OverTTL' = OverTTL
    BY <1>2, <2>1, AnchorRequestsAssumption DEF OverTTL, RequestInv, TypeOK, Time, Never
  <2>5. Ledger!Record(s)
    BY <2>1, <2>2, <2>3, <2>4, OneBooking DEF Ledger!Record
  <2> QED
    BY <2>5 DEF Ledger!Next
<1>5. CASE WriterFails(s)
  <2>1. /\ writer[s] = "storing" /\ writer' = [writer EXCEPT ![s] = "done"]
        /\ table[s] = "absent" /\ UNCHANGED <<now, status, table, storedAt, checker, late>>
    BY <1>2, <1>5 DEF WriterFails
  <2>2. Life(s) = "asked" /\ \A r \in Streams : Life(r)' = IF r = s THEN "settled" ELSE Life(r)
    BY <1>1, <2>1 DEF Life
  <2>3. UNCHANGED <<AnchoredStreams, Doubted, late, OverTTL>>
    BY <2>1 DEF AnchoredStreams, Doubted, OverTTL
  <2>4. Ledger!Abandon(s)
    BY <2>2, <2>3, OneBooking DEF Ledger!Abandon
  <2> QED
    BY <2>4 DEF Ledger!Next
<1> QED
  BY <1>3, <1>4, <1>5

\* For any overlap of runs, refused and killed anywhere, a stream is recorded
\* once, taken off the books only for a reason, and never put back on them.
THEOREM RequestsAreALedger == Spec => ImplementsLedger
<1>1. RequestInv /\ RequestInv' /\ [Next]_vars => [Ledger!Next]_(Ledger!vars)
  <2> SUFFICES ASSUME RequestInv, RequestInv', [Next]_vars PROVE [Ledger!Next]_(Ledger!vars)
    OBVIOUS
  <2>1. CASE UNCHANGED vars
    BY <2>1, OffTheBooks DEF vars, streamVars, tableVars, Doubted
  <2>2. CASE Next
    BY <2>2, CheckerBooks, CollectorBooks, ServiceBooks, WriterBooks DEF Next
  <2> QED
    BY <2>1, <2>2
<1> QED
  BY <1>1, LedgerInit, RequestsInvariant, PTL DEF Spec, ImplementsLedger, Ledger!Spec
=============================================================================
