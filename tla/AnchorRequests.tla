--------------------------- MODULE AnchorRequests ---------------------------
(***************************************************************************)
(* The life of an anchor request in the DynamoDB table that all suite runs *)
(* of a stage share (suite/src/utils/dynamoDbHelpers.ts).                  *)
(*                                                                         *)
(*   update.test.ts           asks for an anchor of a new stream, then     *)
(*                            stores a record of the request               *)
(*   anchor.test.ts           in later runs, reads the unanchored records, *)
(*                            loads each stream and marks or deletes it    *)
(*   garbage-collect.test.ts  unpins and deletes the records that are old  *)
(*                            (skipped at present)                         *)
(*                                                                         *)
(* Runs overlap: a durable run is scheduled every few hours and can be     *)
(* started by hand.  Each request is an await, and between two of them the *)
(* other runs, the anchor service and the clock go on.                     *)
(***************************************************************************)
EXTENDS Naturals, FiniteSetsExt

CONSTANTS
  Streams,         \* streams created by the update test, one record each; numbered
                   \*   in the order in which a scan of the table returns them
  Checkers,        \* anchor tests that may run at the same time
  Collectors,      \* garbage collections that may run at the same time
  Nodes,           \* the Ceramic nodes streams are pinned on
  AnchorInterval,  \* AnchorInterval
  Second,          \* units of the clock in a second
  StreamTTL,       \* StreamTTL
  PageSize,        \* records a request of a scan looks at
  MaxScanResults,  \* MAX_SCAN_RESULTS
  Faults,          \* whether requests may fail and runs be killed
  MaxTime,         \* bound: the clock stops here
  None             \* no stream

DatabaseTTL == StreamTTL + StreamTTL

ASSUME AnchorRequestsAssumption ==
  /\ Streams \subseteq Nat \ {0} /\ IsFiniteSet(Streams)
  /\ PageSize \in Nat \ {0} /\ MaxScanResults \in Nat \ {0}
  /\ AnchorInterval \in Nat \ {0} /\ Second \in Nat \ {0}
  /\ StreamTTL \in Nat /\ StreamTTL >= AnchorInterval
  /\ MaxTime \in Nat /\ MaxTime >= AnchorInterval
  /\ Faults \in BOOLEAN
  /\ None \notin Streams

Time == 0..MaxTime
Never == MaxTime + 1

\* A record without Creation and Expiration: what updateItem makes of an item
\* that is not there.
Records == {"absent", "unanchored", "anchored", "bare"}

VARIABLES
  now,         \* the clock
  status,      \* status[s]: "none", "pending" or "anchored", as nodes report it
  anchoredAt,  \* when s was anchored
  pins,        \* pins[s]: the nodes that pin s
  writer,      \* writer[s]: where the update test of s is
  table,       \* table[s]: its record
  storedAt,    \* storedAt[s]: Creation of the record, as it was stored
  checker,     \* checker[c]: the anchor test c: request, records found and not yet
               \*   checked, stream; where its scan is, what was unanchored before it
  late,        \* streams a test failed for because they were not anchored in time
  dropped,     \* streams whose record an anchor test deleted
  collector,   \* collector[g]: the garbage collection g; asOf: when it began
  collected    \* streams whose record a garbage collection deleted

streamVars == <<status, anchoredAt>>
tableVars == <<table, storedAt>>
vars == <<now, streamVars, pins, writer, tableVars, checker, late, dropped, collector, collected>>

Resting == [pc |-> "idle", queue |-> {}, doc |-> None, cursor |-> 0, before |-> {}]
CollectorResting ==
  [pc |-> "idle", queue |-> {}, doc |-> None, cursor |-> 0, asOf |-> 0, unpinned |-> {}]

Init ==
  /\ now = 0
  /\ status = [s \in Streams |-> "none"]
  /\ anchoredAt = [s \in Streams |-> Never]
  /\ pins = [s \in Streams |-> {}]
  /\ writer = [s \in Streams |-> "idle"]
  /\ table = [s \in Streams |-> "absent"]
  /\ storedAt = [s \in Streams |-> Never]
  /\ checker = [c \in Checkers |-> Resting]
  /\ late = {} /\ dropped = {}
  /\ collector = [g \in Collectors |-> CollectorResting]
  /\ collected = {}

-----------------------------------------------------------------------------
(* Outside the suite: the clock, the anchor service, the table's TTL.      *)

Tick ==
  /\ now < MaxTime
  /\ now' = now + 1
  /\ UNCHANGED <<streamVars, pins, writer, tableVars, checker, late, dropped, collector, collected>>

Anchor(s) ==
  /\ status[s] = "pending"
  /\ status' = [status EXCEPT ![s] = "anchored"]
  /\ anchoredAt' = [anchoredAt EXCEPT ![s] = now]
  /\ UNCHANGED <<now, pins, writer, tableVars, checker, late, dropped, collector, collected>>

\* DynamoDB deletes an item some time after its Expiration, if it has one.
Expire(s) ==
  /\ table[s] \in {"unanchored", "anchored"}
  /\ now >= storedAt[s] + DatabaseTTL
  /\ table' = [table EXCEPT ![s] = "absent"]
  /\ UNCHANGED <<now, streamVars, pins, writer, storedAt, checker, late, dropped, collector, collected>>

-----------------------------------------------------------------------------
(* The update test: the final write asks for an anchor, its record follows *)
(* once the write has reached the other node.                              *)

\* Bound: early enough for the record to be checked before the clock stops.
EarlyEnough == now + AnchorInterval <= MaxTime

RequestAnchor(s) ==
  /\ writer[s] = "idle"
  /\ EarlyEnough
  /\ writer' = [writer EXCEPT ![s] = "storing"]
  /\ status' = [status EXCEPT ![s] = "pending"]
  /\ pins' = [pins EXCEPT ![s] = Nodes]
  /\ UNCHANGED <<now, anchoredAt, tableVars, checker, late, dropped, collector, collected>>

\* Mutant of StoreStreamReq: Creation gets the value of Expiration.
StoreExpirationAsCreation(s) ==
  /\ writer[s] = "storing"
  /\ EarlyEnough
  /\ writer' = [writer EXCEPT ![s] = "done"]
  /\ table' = [table EXCEPT ![s] = "unanchored"]
  /\ storedAt' = [storedAt EXCEPT ![s] = now + DatabaseTTL]
  /\ UNCHANGED <<now, streamVars, pins, checker, late, dropped, collector, collected>>

StoreStreamReq(s) ==
  /\ writer[s] = "storing"
  /\ EarlyEnough
  /\ writer' = [writer EXCEPT ![s] = "done"]
  /\ table' = [table EXCEPT ![s] = "unanchored"]
  /\ storedAt' = [storedAt EXCEPT ![s] = now]
  /\ UNCHANGED <<now, streamVars, pins, checker, late, dropped, collector, collected>>

\* The write does not arrive, putItem fails or the run is killed: no record.
WriterFails(s) ==
  /\ Faults
  /\ writer[s] = "storing"
  /\ writer' = [writer EXCEPT ![s] = "done"]
  /\ UNCHANGED <<now, streamVars, pins, tableVars, checker, late, dropped, collector, collected>>

-----------------------------------------------------------------------------
(* The scan of the table, page by page; the table changes between pages.   *)

Behind(cursor) == {s \in Streams : s > cursor /\ table[s] # "absent"}

\* The limit of a request counts the records it looks at, whether they match.
Page(cursor) ==
  {s \in Behind(cursor) : Cardinality({r \in Behind(cursor) : r < s}) < PageSize}

\* Whether LastEvaluatedKey is returned: if something follows, and perhaps if
\* the page is full.
MoreAfter(cursor) ==
  IF Page(cursor) # Behind(cursor) THEN {TRUE}
  ELSE IF Cardinality(Page(cursor)) = PageSize THEN {TRUE, FALSE} ELSE {FALSE}

\* Mutant of dynamoScan: a page without a match is taken for the end.
StopAtEmptyPage(state, matches, next) ==
  LET page == Page(state.cursor)
      found == state.queue \cup (page \cap matches)
  IN {IF more /\ page \cap matches # {} /\ Cardinality(found) < MaxScanResults
      THEN [state EXCEPT !.queue = found, !.cursor = Max(page)]
      ELSE [state EXCEPT !.queue = found, !.cursor = 0, !.pc = next] :
        more \in MoreAfter(state.cursor)}

\* The states after one page: the next page is asked for, from the last key on,
\* or the scan is over, having found the limit or come to the end.
dynamoScan(state, matches, next) ==
  LET page == Page(state.cursor)
      found == state.queue \cup (page \cap matches)
  IN {IF more /\ Cardinality(found) < MaxScanResults
      THEN [state EXCEPT !.queue = found, !.cursor = Max(page)]
      ELSE [state EXCEPT !.queue = found, !.cursor = 0, !.pc = next] :
        more \in MoreAfter(state.cursor)}

-----------------------------------------------------------------------------
(* The anchor test.                                                        *)

CheckerGoes(c, state) == checker' = [checker EXCEPT ![c] = state]

Unanchored == {s \in Streams : table[s] = "unanchored"}

\* fetchUnanchoredStreamReqs.
FetchUnanchored(c) ==
  /\ checker[c].pc = "idle"
  /\ CheckerGoes(c, [Resting EXCEPT !.pc = "scan", !.before = Unanchored])
  /\ UNCHANGED <<now, streamVars, pins, writer, tableVars, late, dropped, collector, collected>>

ScanUnanchored(c) ==
  /\ checker[c].pc = "scan"
  /\ \E state \in dynamoScan(checker[c], Unanchored, "load") :
       CheckerGoes(c, IF state.pc = "load" THEN [state EXCEPT !.before = {}] ELSE state)
  /\ UNCHANGED <<now, streamVars, pins, writer, tableVars, late, dropped, collector, collected>>

\* deltaMinutes >= configMinutes, from the Creation the scan returned, of which
\* parseInt keeps whole seconds.
TimedOut(s) == now - (storedAt[s] - (storedAt[s] % Second)) >= AnchorInterval

\* loadStream.  What it returned is tested when the clock has been read.
LoadAnchored(c, s) ==
  /\ checker[c].pc = "load" /\ s \in checker[c].queue
  /\ status[s] = "anchored"
  /\ CheckerGoes(c, [checker[c] EXCEPT !.pc = "mark", !.doc = s])
  /\ UNCHANGED <<now, streamVars, pins, writer, tableVars, late, dropped, collector, collected>>

LoadUnanchored(c, s) ==
  /\ checker[c].pc = "load" /\ s \in checker[c].queue
  /\ status[s] # "anchored"
  /\ CheckerGoes(c, [checker[c] EXCEPT !.pc = "judge", !.doc = s])
  /\ UNCHANGED <<now, streamVars, pins, writer, tableVars, late, dropped, collector, collected>>

\* The stream in hand is done with; the loop goes on.
Proceed(c) ==
  CheckerGoes(c, [checker[c] EXCEPT !.pc = "load", !.queue = @ \ {checker[c].doc}, !.doc = None])

\* Mutants of TooLate: an overdue stream is left for the next run; the end of the
\* interval ends the wait, without a test of the status.
LeaveLate(c) ==
  /\ checker[c].pc = "judge" /\ TimedOut(checker[c].doc)
  /\ Proceed(c)
  /\ UNCHANGED <<now, streamVars, pins, writer, tableVars, late, dropped, collector, collected>>

MarkLate(c) ==
  /\ checker[c].pc = "judge" /\ TimedOut(checker[c].doc)
  /\ CheckerGoes(c, [checker[c] EXCEPT !.pc = "mark"])
  /\ UNCHANGED <<now, streamVars, pins, writer, tableVars, late, dropped, collector, collected>>

\* expect(deltaMinutes).toBeLessThan(configMinutes) throws, whether or not the
\* anchor has arrived since the load.
TooLate(c) ==
  /\ checker[c].pc = "judge" /\ TimedOut(checker[c].doc)
  /\ late' = late \cup {checker[c].doc}
  /\ CheckerGoes(c, [checker[c] EXCEPT !.pc = "delete"])
  /\ UNCHANGED <<now, streamVars, pins, writer, tableVars, dropped, collector, collected>>

\* Neither anchored nor late: left to the next run.
StillPending(c) ==
  /\ checker[c].pc = "judge" /\ ~TimedOut(checker[c].doc)
  /\ Proceed(c)
  /\ UNCHANGED <<now, streamVars, pins, writer, tableVars, late, dropped, collector, collected>>

EndOfQueue(c) ==
  /\ checker[c].pc = "load" /\ checker[c].queue = {}
  /\ CheckerGoes(c, Resting)
  /\ UNCHANGED <<now, streamVars, pins, writer, tableVars, late, dropped, collector, collected>>

\* Mutant of Marked: the request is stored again if its record is gone.
MarkedAnew(record) == IF record \in {"absent", "bare"} THEN "unanchored" ELSE "anchored"

\* updateItem changes the item or, if it is gone, creates one.
Marked(record) == IF record \in {"absent", "bare"} THEN "bare" ELSE "anchored"

MarkStreamReqAsAnchored(c) ==
  /\ checker[c].pc = "mark"
  /\ table' = [table EXCEPT ![checker[c].doc] = Marked(@)]
  /\ Proceed(c)
  /\ UNCHANGED <<now, streamVars, pins, writer, storedAt, late, dropped, collector, collected>>

\* The catch is around the update as well: its failure deletes the record too.
MarkFails(c) ==
  /\ Faults
  /\ checker[c].pc = "mark"
  /\ CheckerGoes(c, [checker[c] EXCEPT !.pc = "delete"])
  /\ UNCHANGED <<now, streamVars, pins, writer, tableVars, late, dropped, collector, collected>>

\* Delete the record and rethrow: the test ends, its other records unchecked.
DeleteStreamReq(c) ==
  /\ checker[c].pc = "delete"
  /\ table' = [table EXCEPT ![checker[c].doc] = "absent"]
  /\ dropped' = dropped \cup {checker[c].doc}
  /\ CheckerGoes(c, Resting)
  /\ UNCHANGED <<now, streamVars, pins, writer, storedAt, late, collector, collected>>

\* The scan, a load or the delete fails, or the run is killed: the test ends,
\* what it had not written stays as it is.
CheckerFails(c) ==
  /\ Faults
  /\ checker[c].pc # "idle"
  /\ CheckerGoes(c, Resting)
  /\ UNCHANGED <<now, streamVars, pins, writer, tableVars, late, dropped, collector, collected>>

Check(c) ==
  \/ FetchUnanchored(c) \/ ScanUnanchored(c) \/ EndOfQueue(c)
  \/ \E s \in Streams : LoadAnchored(c, s) \/ LoadUnanchored(c, s)
  \/ TooLate(c) \/ StillPending(c) \/ MarkStreamReqAsAnchored(c) \/ DeleteStreamReq(c)

-----------------------------------------------------------------------------
(* The garbage collection.                                                 *)

CollectorGoes(g, state) == collector' = [collector EXCEPT ![g] = state]

\* Mutant of Expired: the wrong interval.
ExpiredAfterInterval(since) ==
  {s \in Streams : table[s] \in {"unanchored", "anchored"} /\ storedAt[s] + AnchorInterval < since}

\* Creation < now - StreamTTL: a record without Creation does not match.
Expired(since) ==
  {s \in Streams : table[s] \in {"unanchored", "anchored"} /\ storedAt[s] + StreamTTL < since}

\* A collection that begins when no record is old enough finds none.
FetchExpired(g) ==
  /\ collector[g].pc = "idle"
  /\ Expired(now) # {}
  /\ CollectorGoes(g, [CollectorResting EXCEPT !.pc = "scan", !.asOf = now])
  /\ UNCHANGED <<now, streamVars, pins, writer, tableVars, checker, late, dropped, collected>>

ScanExpired(g) ==
  /\ collector[g].pc = "scan"
  /\ \E state \in dynamoScan(collector[g], Expired(collector[g].asOf), "next") :
       CollectorGoes(g, IF state.pc = "next" THEN [state EXCEPT !.asOf = 0] ELSE state)
  /\ UNCHANGED <<now, streamVars, pins, writer, tableVars, checker, late, dropped, collected>>

NextExpired(g) ==
  /\ collector[g].pc = "next"
  /\ IF collector[g].queue = {}
     THEN CollectorGoes(g, CollectorResting)
     ELSE \E s \in collector[g].queue :
            CollectorGoes(g, [collector[g] EXCEPT !.pc = "unpin", !.queue = @ \ {s}, !.doc = s])
  /\ UNCHANGED <<now, streamVars, pins, writer, tableVars, checker, late, dropped, collected>>

\* Mutant of Unpin: the first node is enough.
UnpinOnce(g) ==
  /\ collector[g].pc = "unpin"
  /\ \E n \in Nodes \ collector[g].unpinned :
       /\ pins' = [pins EXCEPT ![collector[g].doc] = @ \ {n}]
       /\ CollectorGoes(g, [collector[g] EXCEPT !.pc = "delete"])
  /\ UNCHANGED <<now, streamVars, writer, tableVars, checker, late, dropped, collected>>

\* pin.rm on one node after the other.
Unpin(g) ==
  /\ collector[g].pc = "unpin"
  /\ \E n \in Nodes \ collector[g].unpinned :
       /\ pins' = [pins EXCEPT ![collector[g].doc] = @ \ {n}]
       /\ LET done == collector[g].unpinned \cup {n} IN
          CollectorGoes(g, [collector[g] EXCEPT !.unpinned = done,
                                                !.pc = IF done = Nodes THEN "delete" ELSE "unpin"])
  /\ UNCHANGED <<now, streamVars, writer, tableVars, checker, late, dropped, collected>>

DeleteExpired(g) ==
  /\ collector[g].pc = "delete"
  /\ table' = [table EXCEPT ![collector[g].doc] = "absent"]
  /\ collected' = collected \cup {collector[g].doc}
  /\ CollectorGoes(g, [collector[g] EXCEPT !.pc = "next", !.doc = None, !.unpinned = {}])
  /\ UNCHANGED <<now, streamVars, pins, writer, storedAt, checker, late, dropped>>

\* A request fails or the run is killed.
CollectorFails(g) ==
  /\ Faults
  /\ collector[g].pc # "idle"
  /\ CollectorGoes(g, CollectorResting)
  /\ UNCHANGED <<now, streamVars, pins, writer, tableVars, checker, late, dropped, collected>>

Collect(g) == FetchExpired(g) \/ ScanExpired(g) \/ NextExpired(g) \/ Unpin(g) \/ DeleteExpired(g)

-----------------------------------------------------------------------------

Next ==
  \/ Tick
  \/ \E s \in Streams :
       \/ Anchor(s) \/ Expire(s)
       \/ RequestAnchor(s) \/ StoreStreamReq(s) \/ WriterFails(s)
  \/ \E c \in Checkers : Check(c) \/ MarkFails(c) \/ CheckerFails(c)
  \/ \E g \in Collectors : Collect(g) \/ CollectorFails(g)

Spec == Init /\ [][Next]_vars

\* Runs keep being scheduled and go on.  Streams need not be anchored.
Fairness ==
  /\ WF_vars(Tick)
  /\ \A c \in Checkers : WF_vars(Check(c))

FairSpec == Spec /\ Fairness

-----------------------------------------------------------------------------
(* Properties.                                                             *)

TypeOK ==
  /\ now \in Time
  /\ status \in [Streams -> {"none", "pending", "anchored"}]
  /\ anchoredAt \in [Streams -> Time \cup {Never}]
  /\ pins \in [Streams -> SUBSET Nodes]
  /\ writer \in [Streams -> {"idle", "storing", "done"}]
  /\ table \in [Streams -> Records]
  /\ storedAt \in [Streams -> Time \cup {Never}]
  /\ checker \in [Checkers -> [pc : {"idle", "scan", "load", "judge", "mark", "delete"},
                               queue : SUBSET Streams, doc : Streams \cup {None},
                               cursor : Streams \cup {0}, before : SUBSET Streams]]
  /\ late \subseteq Streams /\ dropped \subseteq Streams
  /\ collector \in [Collectors -> [pc : {"idle", "scan", "next", "unpin", "delete"},
                                   queue : SUBSET Streams, doc : Streams \cup {None},
                                   cursor : Streams \cup {0}, asOf : Time, unpinned : SUBSET Nodes]]
  /\ collected \subseteq Streams

\* A record that says Anchored belongs to a stream that is anchored, whatever
\* happened between the load and the update (anchor.test.ts:27-40).
MarkedIsAnchored ==
  \A s \in Streams : table[s] \in {"anchored", "bare"} => status[s] = "anchored"

\* A record that was stored is there, unanchored, until the stream is anchored
\* or a test has failed for it, for StreamTTL at least: no crash, failure or
\* concurrent run makes the suite forget to check it.
NotForgotten ==
  \A s \in Streams :
    storedAt[s] # Never /\ now <= storedAt[s] + StreamTTL =>
      table[s] = "unanchored" \/ status[s] = "anchored" \/ s \in late

\* "we don't want to leave this stream in the database, as it will cause all
\* future test executions to fail as well" (anchor.test.ts:50-51): once deleted,
\* a record is not found by the scans of later runs, whatever concurrent runs
\* still write.
FailsOnce == \A s \in dropped : table[s] # "unanchored"

\* Garbage collection "involves unpinning them from all nodes, and removing the
\* corresponding entry": where the entry is gone, no pin is left behind, also
\* when a collection is killed half-way or two overlap.
CollectedIsUnpinned == \A s \in collected : pins[s] = {}

\* "if something slips through the cracks, we set a TTL at the database layer"
\* (dynamoDbHelpers.ts:36-37): every record has an Expiration.
RecordsExpire == \A s \in Streams : table[s] # "bare"

\* "failed requests can be retried and successful on subsequent attempts within
\* the configured interval" (anchor.test.ts:28-30), and only "if the anchoring
\* failed" the record must not stay (line 50): an anchor test deletes no record of
\* a stream that was anchored within the interval.
DroppedIsLate == \A s \in dropped : anchoredAt[s] >= storedAt[s] + AnchorInterval

\* Where a stream is in the life the ledger knows: from its anchor request to
\* its record, as long as that says unanchored, and to the end of its test's
\* interest in it.
Life(s) ==
  CASE writer[s] = "idle"                                -> "new"
    [] writer[s] = "storing"                             -> "asked"
    [] writer[s] = "done" /\ table[s] = "unanchored"     -> "recorded"
    [] writer[s] = "done" /\ table[s] # "unanchored"     -> "settled"

\* Streams in the hands of a test that has loaded them unanchored.
Doubted == {s \in Streams : \E c \in Checkers : checker[c].pc = "judge" /\ checker[c].doc = s}

OverTTL == {s \in Streams : storedAt[s] # Never /\ storedAt[s] + StreamTTL < now}

Ledger ==
  INSTANCE AnchorLedger WITH
    life <- [s \in Streams |-> Life(s)],
    anchored <- {s \in Streams : status[s] = "anchored"},
    doubted <- Doubted,
    failed <- late,
    old <- OverTTL

\* Whatever overlaps, fails or is killed, the requests are such a ledger: a
\* stream is recorded once, its record stops being unanchored only after an
\* anchor, a failed test or StreamTTL, no run that still holds the record brings
\* it back, and a test fails only for a stream that it found unanchored after its
\* record was stored (dynamoDbHelpers.ts:33-37, anchor.test.ts:20-54).
ImplementsLedger == Ledger!Spec

\* A scan returns every record that is unanchored from its beginning to its end,
\* whatever other runs write, mark and delete between its pages, unless it has
\* found the limit; and never a whole page more than the limit
\* (dynamoDbHelpers.ts:202-208).
ScanReturns ==
  [][\A c \in Checkers : checker[c].pc = "scan" /\ checker'[c].pc = "load" =>
       LET found == checker'[c].queue IN
       /\ checker[c].before \cap Unanchored \subseteq found \/ Cardinality(found) >= MaxScanResults
       /\ Cardinality(found) < MaxScanResults + PageSize]_vars

\* As long as runs are scheduled, every record is resolved: the stream is found
\* anchored, or a test fails for it.
Resolved ==
  \A s \in Streams : table[s] = "unanchored" ~> table[s] # "unanchored"
=============================================================================
