--------------------------- MODULE EventSyncProofs ---------------------------
(***************************************************************************)
(* What EventSync promises for every number of nodes and events, every     *)
(* scenario and every disturbance: a test that passes has seen every event *)
(* of its own in the feed of every node.                                   *)
(***************************************************************************)
EXTENDS EventSync, FiniteSetTheorems, SequenceTheorems, TLAPS

(* The strengthening.  Feeds only grow, so a node that was compared stays    *)
(* complete; and a read never gets past the end of the feed it reads, so     *)
(* what it compares has been delivered.                                      *)

Feeds ==
  /\ feed = [n \in Nodes |-> feed[n]]
  /\ \A n \in Nodes : Len(feed[n]) \in Nat /\ feed[n] \in [1..Len(feed[n]) -> Delivered(n)]

\* The tokens lie within the feeds, and are complete before the script.
TokensTaken ==
  /\ Len(tokens) \in 0..N /\ tokens \in [1..Len(tokens) -> Nat]
  /\ test = "tokens" => Len(tokens) < N
  /\ test \in {"script", "wait", "compare"} => Len(tokens) = N
  /\ \A i \in 1..Len(tokens) : tokens[i] <= Len(feed[i])

WithinFeed ==
  /\ reader \in [node : Nodes, from : Nat, resume : Nat, over : BOOLEAN]
  /\ reader.resume <= Len(feed[reader.node])

Compared ==
  test = "compare" => \A n \in Nodes : n < reader.node => eventCids \subseteq Delivered(n)

Inv == Feeds /\ TokensTaken /\ WithinFeed /\ Compared /\ PassedIsSynced

-----------------------------------------------------------------------------
LEMMA Bounds == N \in Nat /\ N >= 2 /\ PageSize \in Nat
<1>1. N \in Nat \ {0, 1} /\ PageSize \in Nat \ {0}
  BY EventSyncAssumption, Zenon
<1> QED
  BY <1>1

\* What Append does to a sequence, whatever is appended.
LEMMA AppendKeeps ==
  ASSUME NEW T, NEW s, Len(s) \in Nat, s \in [1..Len(s) -> T], NEW e
  PROVE  /\ Len(Append(s, e)) = Len(s) + 1
         /\ Append(s, e) \in [1..(Len(s) + 1) -> T \cup {e}]
         /\ \A i \in 1..Len(s) : Append(s, e)[i] = s[i]
         /\ Append(s, e)[Len(s) + 1] = e
<1>1. s \in [1..Len(s) -> T \cup {e}]
  OBVIOUS
<1>2. s \in Seq(T \cup {e})
  BY <1>1, SeqDef
<1>3. /\ Append(s, e) \in Seq(T \cup {e})
      /\ Len(Append(s, e)) = Len(s) + 1
      /\ \A i \in 1..Len(s) : Append(s, e)[i] = s[i]
      /\ Append(s, e)[Len(s) + 1] = e
  BY <1>2, AppendProperties
<1> QED
  BY <1>3, LenProperties

\* A delivery leaves feeds feeds, and takes nothing away.
LEMMA Grows ==
  ASSUME Feeds, NEW n, NEW e, Deliver(n, e)
  PROVE  /\ Feeds'
         /\ \A m \in Nodes : /\ Len(feed[m]) \in Nat /\ Len(feed[m])' \in Nat
                             /\ Len(feed[m]) <= Len(feed[m])'
                             /\ Delivered(m) \subseteq Delivered(m)'
<1>1. feed' = [m \in Nodes |-> IF m = n THEN Append(feed[m], e) ELSE feed[m]]
  BY DEF Deliver, Feeds
<1>2. ASSUME NEW m \in Nodes
      PROVE  /\ feed'[m] \in [1..Len(feed'[m]) -> Delivered(m)']
             /\ Len(feed[m]) \in Nat /\ Len(feed[m])' \in Nat /\ Len(feed[m]) <= Len(feed[m])'
             /\ Delivered(m) \subseteq Delivered(m)'
  <2>1. Len(feed[m]) \in Nat /\ feed[m] \in [1..Len(feed[m]) -> Delivered(m)]
    BY DEF Feeds
  <2>2. CASE m = n
    <3>1. feed'[m] = Append(feed[m], e)
      BY <1>1, <2>2
    <3>2. /\ Len(feed'[m]) = Len(feed[m]) + 1
          /\ feed'[m] \in [1..(Len(feed[m]) + 1) -> Delivered(m) \cup {e}]
          /\ \A i \in 1..Len(feed[m]) : feed'[m][i] = feed[m][i]
      BY <2>1, <3>1, AppendKeeps
    <3> HIDE <3>1
    <3>3. /\ DOMAIN feed[m] = 1..Len(feed[m])
          /\ DOMAIN feed'[m] = 1..(Len(feed[m]) + 1)
      BY <2>1, <3>2
    <3>4. Delivered(m) \subseteq Delivered(m)'
      BY <2>1, <3>2, <3>3 DEF Delivered
    <3>5. feed'[m] \in [1..(Len(feed[m]) + 1) -> Delivered(m)']
      BY <3>2, <3>3 DEF Delivered
    <3> QED
      BY <2>1, <3>2, <3>4, <3>5
  <2>3. CASE m # n
    <3>1. feed'[m] = feed[m]
      BY <1>1, <2>3
    <3> QED
      BY <2>1, <3>1 DEF Delivered
  <2> QED
    BY <2>2, <2>3
<1>3. feed' = [m \in Nodes |-> feed'[m]]
  BY <1>1
<1> QED
  BY <1>2, <1>3 DEF Feeds

\* A step that delivers an event keeps the rest.
LEMMA DeliveryInv ==
  ASSUME Inv, NEW n, NEW e, Deliver(n, e),
         UNCHANGED <<test, tokens, eventCids, reader>>
  PROVE  Inv'
<1>1. Feeds
  BY DEF Inv
<1>2. /\ Feeds'
      /\ \A m \in Nodes : /\ Len(feed[m]) \in Nat /\ Len(feed[m])' \in Nat
                          /\ Len(feed[m]) <= Len(feed[m])'
                          /\ Delivered(m) \subseteq Delivered(m)'
  BY <1>1, Grows
<1>3. TokensTaken'
  <2>1. ASSUME NEW i \in 1..Len(tokens) PROVE tokens[i] <= Len(feed[i])'
    <3>1. Len(tokens) \in 0..N /\ tokens \in [1..Len(tokens) -> Nat] /\ tokens[i] <= Len(feed[i])
      BY DEF Inv, TokensTaken
    <3>2. i \in Nodes /\ tokens[i] \in Nat
      BY <3>1, Bounds DEF Nodes
    <3> QED
      BY <1>2, <3>1, <3>2
  <2> QED
    BY <2>1 DEF Inv, TokensTaken
<1>4. WithinFeed'
  <2>1. reader.node \in Nodes /\ reader.resume \in Nat /\ reader.resume <= Len(feed[reader.node])
    BY DEF Inv, WithinFeed
  <2> QED
    BY <1>2, <2>1 DEF Inv, WithinFeed
<1>5. Compared' /\ PassedIsSynced'
  BY <1>2 DEF Inv, Compared, PassedIsSynced
<1> QED
  BY <1>2, <1>3, <1>4, <1>5 DEF Inv

\* A read that starts at a token starts within its feed.
LEMMA StartsWithinFeed ==
  ASSUME Inv, test \in {"script", "wait", "compare"}, NEW n \in Nodes
  PROVE  /\ ReadOf(n) \in [node : Nodes, from : Nat, resume : Nat, over : BOOLEAN]
         /\ ReadOf(n).node = n /\ ReadOf(n).resume <= Len(feed[n])
<1>1. n \in 1..Len(tokens)
  BY DEF Inv, TokensTaken, Nodes
<1>2. tokens[n] \in Nat /\ tokens[n] <= Len(feed[n])
  BY <1>1 DEF Inv, TokensTaken
<1> QED
  BY <1>2 DEF ReadOf, StartOf

\* What equals the written events has been delivered.
LEMMA AsWrittenIsDelivered ==
  ASSUME Inv, AsWritten
  PROVE  eventCids \subseteq Delivered(reader.node)
<1> SUFFICES ASSUME NEW e \in eventCids PROVE e \in Delivered(reader.node)
  OBVIOUS
<1> DEFINE found == {i \in Counted : feed[reader.node][i] = e}
<1>1. found # {}
  <2>1. Cardinality(found) = 1
    BY DEF AsWritten
  <2> QED
    BY <2>1, FS_EmptySet
<1>2. PICK i \in Counted : feed[reader.node][i] = e
  BY <1>1
<1>3. reader.from \in Nat /\ reader.resume \in Nat /\ reader.node \in Nodes
      /\ reader.resume <= Len(feed[reader.node])
  BY DEF Inv, WithinFeed
<1>4. DOMAIN feed[reader.node] = 1..Len(feed[reader.node]) /\ Len(feed[reader.node]) \in Nat
  BY <1>3 DEF Inv, Feeds
<1>5. i \in DOMAIN feed[reader.node]
  BY <1>2, <1>3, <1>4 DEF Counted
<1> QED
  BY <1>2, <1>5 DEF Delivered

-----------------------------------------------------------------------------
LEMMA InitInv == Init => Inv
<1> SUFFICES ASSUME Init PROVE Inv
  OBVIOUS
<1>1. Feeds
  BY DEF Init, Feeds, Delivered
<1>2. TokensTaken
  BY Bounds DEF Init, TokensTaken
<1>3. WithinFeed
  BY Bounds DEF Init, WithinFeed, Nodes
<1> QED
  BY <1>1, <1>2, <1>3 DEF Init, Inv, Compared, PassedIsSynced

LEMMA NextInv == Inv /\ [Next]_vars => Inv'
<1> SUFFICES ASSUME Inv, [Next]_vars PROVE Inv'
  OBVIOUS
<1> USE DEF testVars, nodeVars
<1>1. CASE TakeToken
  <2>1. Len(tokens) + 1 \in Nodes /\ Len(tokens) \in Nat /\ tokens \in [1..Len(tokens) -> Nat]
    BY <1>1, Bounds DEF TakeToken, Inv, TokensTaken, Nodes
  <2>2. Len(feed[Len(tokens) + 1]) \in Nat
    BY <2>1 DEF Inv, Feeds
  <2>3. tokens' = Append(tokens, Len(feed[Len(tokens) + 1])) /\ UNCHANGED feed
    BY <1>1 DEF TakeToken
  <2>4. /\ Len(tokens') = Len(tokens) + 1
        /\ tokens' \in [1..(Len(tokens) + 1) -> Nat]
        /\ \A i \in 1..Len(tokens) : tokens'[i] = tokens[i]
        /\ tokens'[Len(tokens) + 1] = Len(feed[Len(tokens) + 1])
    <3> DEFINE end == Len(feed[Len(tokens) + 1])
    <3>1. tokens' = Append(tokens, end) /\ Nat \cup {end} = Nat
      BY <2>2, <2>3
    <3> HIDE DEF end
    <3>2. /\ Len(Append(tokens, end)) = Len(tokens) + 1
          /\ Append(tokens, end) \in [1..(Len(tokens) + 1) -> Nat \cup {end}]
          /\ \A i \in 1..Len(tokens) : Append(tokens, end)[i] = tokens[i]
          /\ Append(tokens, end)[Len(tokens) + 1] = end
      BY <2>1, AppendKeeps
    <3> QED
      BY <3>1, <3>2 DEF end
  <2>5. \A i \in 1..Len(tokens') : tokens'[i] <= Len(feed[i])
    BY <2>1, <2>2, <2>4 DEF Inv, TokensTaken
  <2>6. TokensTaken'
    BY <1>1, <2>1, <2>4, <2>5, Bounds DEF TakeToken, Inv, TokensTaken, Nodes
  <2> QED
    BY <1>1, <2>6, Bounds
    DEF TakeToken, Inv, Feeds, WithinFeed, Compared, PassedIsSynced, Delivered
<1>2. CASE RegisterInterest \/ WritesDone
  BY <1>2 DEF RegisterInterest, WritesDone, InScript, Inv, Feeds, TokensTaken, WithinFeed,
              Compared, PassedIsSynced, Delivered
<1>3. CASE WriteEvent
  <2>1. PICK n, e : Deliver(n, e)
    BY <1>3 DEF WriteEvent
  <2> QED
    BY <1>3, <2>1, DeliveryInv DEF WriteEvent
<1>4. CASE StartWait
  <2>1. 1 \in Nodes
    BY Bounds DEF Nodes
  <2>2. WithinFeed'
    BY <1>4, <2>1, StartsWithinFeed DEF StartWait, WithinFeed
  <2> QED
    BY <1>4, <2>2 DEF StartWait, Inv, Feeds, TokensTaken, Compared, PassedIsSynced, Delivered
<1>5. CASE ReadPage
  <2>1. PICK to \in (reader.resume + 1)..(reader.resume + PageSize) :
          to <= Len(feed[reader.node]) /\ reader' = [reader EXCEPT !.resume = to]
    BY <1>5 DEF ReadPage
  <2>2. WithinFeed' /\ reader'.node = reader.node
    BY <1>5, <2>1, Bounds DEF ReadPage, Inv, WithinFeed
  <2> QED
    BY <1>5, <2>2 DEF ReadPage, Inv, Feeds, TokensTaken, Compared, PassedIsSynced, Delivered
<1>6. CASE ReadTimesOut
  <2>1. WithinFeed' /\ reader'.node = reader.node
    BY <1>6 DEF ReadTimesOut, Inv, WithinFeed
  <2> QED
    BY <1>6, <2>1 DEF ReadTimesOut, Inv, Feeds, TokensTaken, Compared, PassedIsSynced, Delivered
<1>7. CASE RequestFails
  BY <1>7 DEF RequestFails, Fail, Inv, Feeds, TokensTaken, WithinFeed, Compared,
              PassedIsSynced, Delivered
<1>8. ASSUME test \in {"wait", "compare"}, UNCHANGED <<tokens, eventCids, feed>>,
             NEW next \in {"compare", "passed"}, GoOn(next),
             reader.node < N => test' = test,
             next = "compare" => test = "wait",
             next = "passed" => test = "compare" /\ eventCids \subseteq Delivered(reader.node)
      PROVE  Inv'
  <2>1. reader.node \in Nodes /\ 1 \in Nodes
    BY Bounds DEF Inv, WithinFeed, Nodes
  <2>2. CASE reader.node < N
    <3>1. reader.node + 1 \in Nodes /\ reader' = ReadOf(reader.node + 1) /\ UNCHANGED test
      BY <1>8, <2>1, <2>2, Bounds DEF GoOn, Nodes
    <3>2. WithinFeed' /\ reader'.node = reader.node + 1
      BY <1>8, <3>1, StartsWithinFeed DEF WithinFeed
    <3>3. Compared'
      BY <1>8, <2>1, <3>1, <3>2 DEF Inv, Compared, Nodes, Delivered
    <3> QED
      BY <1>8, <3>1, <3>2, <3>3 DEF Inv, Feeds, TokensTaken, PassedIsSynced, Delivered
  <2>3. CASE ~(reader.node < N)
    <3>1. reader.node = N /\ test' = next
      BY <1>8, <2>1, <2>3, Bounds DEF GoOn, Nodes
    <3>2. CASE next = "compare"
      <4>1. WithinFeed' /\ reader'.node = 1
        BY <1>8, <2>1, <2>3, <3>2, StartsWithinFeed DEF GoOn, WithinFeed
      <4>2. Compared'
        BY <4>1, Bounds DEF Compared, Nodes
      <4>3. Feeds' /\ PassedIsSynced'
        BY <1>8, <3>1, <3>2 DEF Inv, Feeds, PassedIsSynced, Delivered
      <4>4. TokensTaken'
        BY <1>8, <3>1, <3>2 DEF Inv, TokensTaken
      <4> QED
        BY <4>1, <4>2, <4>3, <4>4 DEF Inv
    <3>3. CASE next = "passed"
      <4>1. UNCHANGED reader
        BY <1>8, <2>3, <3>3 DEF GoOn
      <4>2. PassedIsSynced'
        BY <1>8, <3>1, <3>3, Bounds DEF Inv, Compared, PassedIsSynced, Delivered, Nodes
      <4> QED
        BY <1>8, <3>1, <3>3, <4>1, <4>2
        DEF Inv, Feeds, TokensTaken, WithinFeed, Compared, Delivered
    <3> QED
      BY <1>8, <3>2, <3>3
  <2> QED
    BY <2>2, <2>3
<1>9. CASE WaitReturned \/ CompareReturned
  <2>1. CASE Fail
    BY <1>9, <2>1 DEF WaitReturned, CompareReturned, Fail, Inv, Feeds, TokensTaken, WithinFeed,
                      Compared, PassedIsSynced, Delivered
  <2>2. CASE WaitReturned /\ GoOn("compare")
    BY <1>8, <2>2 DEF WaitReturned, GoOn
  <2>3. CASE CompareReturned /\ AsWritten /\ GoOn("passed")
    BY <1>8, <2>3, AsWrittenIsDelivered DEF CompareReturned, GoOn
  <2> QED
    BY <1>9, <2>1, <2>2, <2>3 DEF WaitReturned, CompareReturned
<1>10. ASSUME NEW n \in Nodes,
              DeliverExtra(n) \/ \E e \in eventCids : Synchronise(n, e)
       PROVE  Inv'
  <2>1. PICK e : Deliver(n, e)
    BY <1>10 DEF DeliverExtra, Synchronise
  <2> QED
    BY <1>10, <2>1, DeliveryInv DEF DeliverExtra, Synchronise
<1>11. CASE UNCHANGED vars
  BY <1>11 DEF vars, Inv, Feeds, TokensTaken, WithinFeed, Compared, PassedIsSynced, Delivered
<1> QED
  BY <1>1, <1>2, <1>3, <1>4, <1>5, <1>6, <1>7, <1>9, <1>10, <1>11 DEF Next, Step

\* A sync test that passes has seen every event it wrote delivered by every
\* node, for any number of nodes, events, pages and repeated deliveries.
THEOREM PassesOnlySynced == Spec => []PassedIsSynced
<1>1. Inv => PassedIsSynced
  BY DEF Inv
<1> QED
  BY InitInv, NextInv, <1>1, PTL DEF Spec

=============================================================================
