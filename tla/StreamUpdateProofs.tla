------------------------- MODULE StreamUpdateProofs -------------------------
(***************************************************************************)
(* What StreamUpdate promises for any number of nodes, peers and tries,    *)
(* and whatever disturbs the job.                                          *)
(***************************************************************************)
EXTENDS StreamUpdate, FiniteSetTheorems, SequenceTheorems, TLAPS

-----------------------------------------------------------------------------
(* The URLs: nodes in the order of the peers file, each one once.          *)

Increasing(S, seq) ==
  /\ seq \in [1..Cardinality(S) -> S]
  /\ \A i, j \in 1..Cardinality(S) : i < j => seq[i] < seq[j]

\* A set of numbers has an order: the place of a number is the number of those
\* that are not greater.
LEMMA OrderExists ==
  ASSUME NEW S \in SUBSET Nat, IsFiniteSet(S)
  PROVE  \E seq : Increasing(S, seq)
<1> DEFINE upTo(n) == {m \in S : m <= n}
           c == Cardinality(S)
           place == [n \in S |-> Cardinality(upTo(n))]
<1>1. c \in Nat /\ IsFiniteSet(1..c) /\ Cardinality(1..c) = c
  <2>1. c \in Nat
    BY FS_CardinalityType
  <2>2. 1 \in Int /\ c \in Int
    BY <2>1
  <2>3. IsFiniteSet(1..c) /\ Cardinality(1..c) = IF 1 > c THEN 0 ELSE c - 1 + 1
    BY <2>2, FS_Interval, Zenon
  <2> QED
    BY <2>1, <2>3
<1>2. ASSUME NEW n \in S
      PROVE  /\ IsFiniteSet(upTo(n)) /\ Cardinality(upTo(n)) \in 1..c
  <2>1. upTo(n) \in SUBSET S /\ n \in upTo(n)
    OBVIOUS
  <2>2. IsFiniteSet(upTo(n)) /\ Cardinality(upTo(n)) <= c
    BY <2>1, FS_Subset, Zenon
  <2>3. Cardinality(upTo(n)) \in Nat /\ (Cardinality(upTo(n)) = 0 <=> upTo(n) = {})
    BY <2>2, FS_CardinalityType, FS_EmptySet, Zenon
  <2> QED
    BY <1>1, <2>1, <2>2, <2>3
<1>3. ASSUME NEW m \in S, NEW n \in S, m < n
      PROVE  Cardinality(upTo(m)) < Cardinality(upTo(n))
  <2>1. upTo(m) \in SUBSET upTo(n) /\ upTo(m) # upTo(n)
    <3>1. m \in Nat /\ n \in Nat /\ m < n
      BY <1>3
    <3>2. n \in upTo(n) /\ n \notin upTo(m)
      BY <3>1
    <3>3. \A k \in S : k \in Nat /\ (k <= m => k <= n)
      BY <3>1
    <3>4. upTo(m) \subseteq upTo(n)
      BY <3>3
    <3> QED
      BY <3>2, <3>4
  <2> HIDE DEF upTo
  <2>2. /\ Cardinality(upTo(m)) <= Cardinality(upTo(n))
        /\ Cardinality(upTo(m)) # Cardinality(upTo(n))
    BY <1>2, <2>1, FS_Subset, Zenon
  <2>3. Cardinality(upTo(m)) \in Nat /\ Cardinality(upTo(n)) \in Nat
    BY <1>1, <1>2
  <2> QED
    BY <2>2, <2>3
<1>4. place \in [S -> 1..c]
  BY <1>2
<1>5. \A m, n \in S : m < n => place[m] < place[n]
  BY <1>3
<1> HIDE DEF place, c
<1>6. place \in Injection(S, 1..c)
  <2> SUFFICES ASSUME NEW m \in S, NEW n \in S, place[m] = place[n] PROVE m = n
    BY <1>4 DEF Injection, IsInjective
  <2>1. m \in Nat /\ n \in Nat /\ place[m] \in Nat /\ place[n] \in Nat
    BY <1>1, <1>4
  <2>2. ~(m < n) /\ ~(n < m)
    BY <1>5, <2>1
  <2> QED
    BY <2>1, <2>2
<1>7. place \in Surjection(S, 1..c)
  BY <1>1, <1>6, FS_Injection, Zenon DEF c
<1> DEFINE seq == [i \in 1..c |-> CHOOSE n \in S : place[n] = i]
<1>8. \A i \in 1..c : seq[i] \in S /\ place[seq[i]] = i
  BY <1>7 DEF Surjection
<1>9. seq \in [1..c -> S]
  BY <1>8
<1> HIDE DEF seq
<1>10. ASSUME NEW i \in 1..c, NEW j \in 1..c, i < j PROVE seq[i] < seq[j]
  <2>1. seq[i] \in S /\ seq[j] \in S /\ i \in Nat /\ j \in Nat
    BY <1>1, <1>8
  <2>4. seq[i] \in Nat /\ seq[j] \in Nat
    BY <2>1
  <2>2. ~(seq[j] < seq[i])
    <3>1. seq[j] < seq[i] => j < i
      BY <1>5, <1>8, <2>1
    <3> QED
      BY <1>10, <2>1, <3>1
  <2>3. seq[i] # seq[j]
    BY <1>8, <1>10, <2>1
  <2> QED
    BY <2>4, <2>2, <2>3
<1> QED
  BY <1>9, <1>10 DEF Increasing, c

\* What InOrder chooses: every element, and each one once.
LEMMA InOrderOnce ==
  ASSUME NEW S \in SUBSET Nat, IsFiniteSet(S)
  PROVE  /\ InOrder(S) \in Seq(S) /\ Len(InOrder(S)) = Cardinality(S)
         /\ \A i, j \in 1..Len(InOrder(S)) : InOrder(S)[i] = InOrder(S)[j] => i = j
         /\ S \subseteq Range(InOrder(S))
<1> DEFINE c == Cardinality(S)
           seq == InOrder(S)
<1>1. c \in Nat
  BY FS_CardinalityType
<1>2. \E s \in [1..c -> S] : \A i, j \in DOMAIN s : i < j => s[i] < s[j]
  BY OrderExists DEF Increasing
<1>3. seq \in [1..c -> S] /\ \A i, j \in DOMAIN seq : i < j => seq[i] < seq[j]
  BY <1>2 DEF InOrder
<1> HIDE DEF seq, c
<1>4. seq \in Seq(S) /\ Len(seq) = c
  BY <1>1, <1>3, SeqDef
<1>5. ASSUME NEW i \in 1..c, NEW j \in 1..c, seq[i] = seq[j] PROVE i = j
  <2>1. i \in Nat /\ j \in Nat /\ seq[i] \in S
    BY <1>1, <1>3
  <2>4. seq[i] \in Nat
    BY <2>1
  <2>2. ~(i < j) /\ ~(j < i)
    <3>1. seq[i] = seq[j] /\ i \in DOMAIN seq /\ j \in DOMAIN seq
      BY <1>3, <1>5
    <3>2. /\ i < j => seq[i] < seq[j]
          /\ j < i => seq[j] < seq[i]
      BY <1>3, <3>1
    <3> QED
      BY <2>4, <3>1, <3>2
  <2> QED
    BY <2>1, <2>2
<1>6. S \subseteq Range(seq)
  <2>1. seq \in Injection(1..c, S)
    BY <1>3, <1>5 DEF Injection, IsInjective
  <2>2. Cardinality(1..c) = c
    <3>1. 1 \in Int /\ c \in Int
      BY <1>1
    <3>2. Cardinality(1..c) = IF 1 > c THEN 0 ELSE c - 1 + 1
      BY <3>1, FS_Interval, Zenon
    <3> QED
      BY <1>1, <3>2
  <2>3. seq \in Surjection(1..c, S)
    BY <2>1, <2>2, FS_Injection, Zenon DEF c
  <2> QED
    BY <2>3 DEF Surjection, Range
<1> QED
  BY <1>4, <1>5, <1>6 DEF seq, c

-----------------------------------------------------------------------------
(* The invariant: the script's part.                                       *)

Size == Len(env.urls)

ScriptTypes ==
  /\ faults \in FaultSets
  /\ readable \in BOOLEAN
  /\ peers \subseteq Nodes \cup Others
  /\ script \in {"count", "ceramic", "composedb", "done", "failed"}
  /\ looks \in 0..Tries
  /\ counted \subseteq Nodes \cup Others
  /\ env \in [rust : Seq(Nodes), urls : Seq(Nodes), seeds : 0..Cardinality(Nodes \cup Others)]

\* A file that can be read stays readable and keeps its peers, so the lists that
\* are read later have all that were counted.
Listed ==
  /\ script \in {"ceramic", "composedb"} =>
       counted \subseteq peers /\ (counted # {} => readable)
  /\ script # "done" => env.urls = <<>>
  /\ script = "done" => counted \cap Nodes \subseteq Range(env.urls)
  /\ \A i, j \in 1..Size : env.urls[i] = env.urls[j] => i = j
  /\ Size <= Cardinality(Nodes)

ScriptInv == ScriptTypes /\ Listed

LEMMA NodesFinite ==
  /\ IsFiniteSet(Nodes) /\ Cardinality(Nodes) \in Nat
  /\ IsFiniteSet(Nodes \cup Others) /\ Cardinality(Nodes \cup Others) \in Nat
<1>1. IsFiniteSet(Nodes) /\ IsFiniteSet(Others)
  BY InitScriptAssumption
<1>2. IsFiniteSet(Nodes \cup Others)
  BY <1>1, FS_Union, Zenon
<1> QED
  BY <1>1, <1>2, FS_CardinalityType, Zenon

\* The list of addresses that is read from the file.
LEMMA AddressesOnce ==
  ASSUME ScriptTypes
  PROVE  /\ Addresses \in Seq(Nodes) /\ Len(Addresses) \in 0..Cardinality(Nodes)
         /\ \A i, j \in 1..Len(Addresses) : Addresses[i] = Addresses[j] => i = j
         /\ readable => peers \cap Nodes \subseteq Range(Addresses)
<1> DEFINE S == peers \cap Nodes
<1>1. S \in SUBSET Nat /\ S \in SUBSET Nodes
  BY InitScriptAssumption
<1>2. /\ IsFiniteSet(S) /\ Cardinality(S) <= Cardinality(Nodes)
      /\ Cardinality(S) \in Nat /\ Cardinality(Nodes) \in Nat
  BY <1>1, NodesFinite, FS_Subset, FS_CardinalityType, Zenon
<1>3. CASE readable
  <2>1. Addresses = InOrder(S)
    BY <1>3 DEF Addresses
  <2>2. /\ InOrder(S) \in Seq(S) /\ Len(InOrder(S)) = Cardinality(S)
        /\ \A i, j \in 1..Len(InOrder(S)) : InOrder(S)[i] = InOrder(S)[j] => i = j
        /\ S \subseteq Range(InOrder(S))
    BY <1>1, <1>2, InOrderOnce, Zenon
  <2>3. InOrder(S) \in Seq(Nodes)
    BY <1>1, <2>2
  <2> HIDE DEF S
  <2>4. Len(InOrder(S)) \in 0..Cardinality(Nodes)
    BY <1>2, <2>2
  <2> QED
    BY <1>3, <2>1, <2>2, <2>3, <2>4 DEF S
<1>4. CASE ~readable
  <2>1. Addresses = <<>>
    BY <1>4 DEF Addresses
  <2> QED
    BY <1>2, <1>4, <2>1
<1> QED
  BY <1>3, <1>4

LEMMA InitScriptInv == Init => ScriptInv
<1> SUFFICES ASSUME Init PROVE ScriptInv
  OBVIOUS
<1>1. ScriptTypes
  BY NodesFinite, InitScriptAssumption DEF Init, ScriptInit, NoEnv, ScriptTypes
<1>2. Listed
  BY NodesFinite DEF Init, ScriptInit, NoEnv, Listed, Size
<1> QED
  BY <1>1, <1>2 DEF ScriptInv

LEMMA ScriptNext ==
  ASSUME ScriptInv, [Next]_vars
  PROVE  ScriptInv'
<1> USE DEF peerVars, scriptVars
<1>1. UNCHANGED faults
  BY DEF Next, vars
<1>2. CASE (PeerJoins \/ FileAppears) /\ UNCHANGED scriptVars
  <2>1. readable' \in BOOLEAN /\ (readable => readable')
    BY <1>2, Zenon DEF PeerJoins, FileAppears, ScriptInv, ScriptTypes
  <2>2. peers \subseteq peers' /\ peers' \subseteq Nodes \cup Others
    BY <1>2 DEF PeerJoins, FileAppears, ScriptInv, ScriptTypes
  <2>3. ScriptTypes'
    BY <1>1, <1>2, <2>1, <2>2 DEF ScriptInv, ScriptTypes
  <2>4. Listed'
    <3>1. UNCHANGED env /\ UNCHANGED script /\ UNCHANGED counted
      BY <1>2
    <3> QED
      BY <2>1, <2>2, <3>1, Zenon DEF ScriptInv, Listed, Size
  <2> QED
    BY <2>3, <2>4 DEF ScriptInv
<1>3. CASE LookAgain /\ UNCHANGED peerVars
  BY <1>1, <1>3, InitScriptAssumption DEF LookAgain, ScriptInv, ScriptTypes, Listed, Size
<1>4. CASE Count /\ UNCHANGED peerVars
  <2>1. counted' = IF readable THEN peers ELSE {}
    BY <1>4 DEF Count
  <2>2. Cardinality(counted') \in 0..Cardinality(Nodes \cup Others)
    <3>1. counted' \in SUBSET (Nodes \cup Others)
      BY <2>1 DEF ScriptInv, ScriptTypes
    <3>2. IsFiniteSet(counted') /\ Cardinality(counted') <= Cardinality(Nodes \cup Others)
      BY <3>1, NodesFinite, FS_Subset, Zenon
    <3>3. Cardinality(counted') \in Nat
      BY <3>2, FS_CardinalityType, Zenon
    <3> QED
      BY <3>2, <3>3, NodesFinite
  <2>3. env' = [env EXCEPT !.seeds = Cardinality(counted')]
    BY <1>4 DEF Count
  <2>4. ScriptTypes'
    BY <1>1, <1>4, <2>1, <2>2, <2>3 DEF Count, ScriptInv, ScriptTypes
  <2>5. Listed'
    BY <1>4, <2>1, <2>3 DEF Count, ScriptInv, ScriptTypes, Listed, Size
  <2> QED
    BY <2>4, <2>5 DEF ScriptInv
<1>5. CASE ReadCeramicUrls /\ UNCHANGED peerVars
  <2>1. Addresses \in Seq(Nodes)
    BY AddressesOnce DEF ScriptInv
  <2> HIDE DEF Addresses
  <2> QED
    BY <1>1, <1>5, <2>1 DEF ReadCeramicUrls, ScriptInv, ScriptTypes, Listed, Size
<1>6. CASE ReadComposeDbUrls /\ UNCHANGED peerVars
  <2>1. /\ Addresses \in Seq(Nodes) /\ Len(Addresses) <= Cardinality(Nodes)
        /\ \A i, j \in 1..Len(Addresses) : Addresses[i] = Addresses[j] => i = j
        /\ readable => peers \cap Nodes \subseteq Range(Addresses)
    BY AddressesOnce DEF ScriptInv
  <2>2. env' = [env EXCEPT !.urls = Addresses] /\ script' = "done" /\ UNCHANGED <<looks, counted>>
    BY <1>6 DEF ReadComposeDbUrls
  <2>3. env'.urls = Addresses
    BY <2>2 DEF ScriptInv, ScriptTypes
  <2>4. counted \cap Nodes \subseteq Range(Addresses)
    BY <1>6, <2>1 DEF ReadComposeDbUrls, ScriptInv, Listed
  <2>5. ScriptTypes'
    BY <1>1, <1>6, <2>1, <2>2 DEF ScriptInv, ScriptTypes
  <2>6. Listed'
    BY <2>1, <2>2, <2>3, <2>4 DEF Listed, Size
  <2> QED
    BY <2>5, <2>6 DEF ScriptInv
<1>7. CASE NoPeers /\ UNCHANGED peerVars
  BY <1>1, <1>7 DEF NoPeers, ScriptInv, ScriptTypes, Listed, Size
<1>8. CASE UNCHANGED <<peerVars, scriptVars>>
  BY <1>1, <1>8 DEF ScriptInv, ScriptTypes, Listed, Size
<1> QED
  BY <1>2, <1>3, <1>4, <1>5, <1>6, <1>7, <1>8 DEF Next, Script, vars

-----------------------------------------------------------------------------
(* The invariant: the suite's part.                                        *)

\* The position in the list of URLs of the i-th node in the order of group g.
Place(g, i) == IF g + i - 1 <= Size THEN g + i - 1 ELSE g + i - 1 - Size
Follower(g, i) == env.urls[Place(g, i)]
Tested(g, i) == held[env.urls[g]][Follower(g, i)] >= i

Indexing == {"loadModel", "startIndexing", "waitIndexed"}
Early == {"init", "describe", "createTable", "checkSeeds", "createModel"}

SuiteTypes ==
  /\ table \in {"absent", "creating", "active"}
  /\ suite \in {"init", "ended"} \cup BeforeAll \cup Tests
  /\ group \in 1..Length(env.urls)
  /\ idx \in 1..Length(env.urls)
  /\ doc \in Steps
  /\ held \in [Nodes -> [Nodes -> Steps]]
  /\ indexed \subseteq Nodes
  /\ anchored \subseteq Nodes
  /\ stored \subseteq Nodes
  /\ failed \in BOOLEAN

\* What has been done when the suite gets to a point.
SetUp ==
  /\ suite = "init" \/ script \in {"done", "failed"}
  /\ suite \in BeforeAll \cup Tests => script = "done"
  /\ suite \in {"checkSeeds", "createModel"} \cup Indexing \cup Tests => table = "active"
  /\ suite \in Indexing \cup Tests => Size # 0
  /\ suite \in Indexing => \A j \in 1..Size : j < idx => env.urls[j] \in indexed
  /\ suite \in Tests => \A j \in 1..Size : env.urls[j] \in indexed
  /\ suite \in Early \cup {"create", "update"} => idx = 1
  /\ suite \in LoadTest \cup SyncTest => idx # 1
  /\ suite \in Early \cup Indexing => group = 1

\* No node is ahead of the one that is written to, and the streams of the groups
\* to come do not exist.
Copies ==
  /\ \A s, n \in Nodes : held[s][n] <= held[s][s] /\ held[s][s] <= Size
  /\ suite \in Early \cup Indexing => \A s, n \in Nodes : held[s][n] = Absent
  /\ suite \in Tests =>
       /\ held[env.urls[group]][env.urls[group]] <= idx
       /\ \A g \in 1..Size : g > group \/ (g = group /\ suite = "create") =>
            \A n \in Nodes : held[env.urls[g]][n] = Absent

\* While no test has failed, the tests before the present one were good.
Works ==
  /\ suite \in Tests /\ ~failed =>
       \A g, i \in 1..Size : g < group \/ (g = group /\ i < idx) => Tested(g, i)
  /\ suite = "ended" /\ ~failed =>
       /\ script = "done" /\ Size # 0 /\ table = "active"
       /\ \A j \in 1..Size : env.urls[j] \in indexed
       /\ \A g, i \in 1..Size : Tested(g, i)

\* An anchor is requested by the last update of a group.
Anchoring ==
  /\ \A s \in anchored :
       \/ suite = "ended"
       \/ \E g \in 1..Size : g < group /\ s = env.urls[g]
       \/ s = env.urls[group] /\ idx = Size /\ suite \in {"waitSync", "compareSync", "store"}
  /\ suite \in {"waitSync", "compareSync"} /\ idx = Size => env.urls[group] \in anchored
  /\ suite = "store" =>
       /\ idx = Size /\ env.urls[group] \in anchored
       /\ held[env.urls[group]][Follower(group, idx)] = Size
  /\ \A s \in stored : s \in anchored /\ \E n \in Nodes \ {s} : held[s][n] = Size

SuiteInv == SuiteTypes /\ SetUp /\ Copies /\ Works /\ Anchoring
JobInv == ScriptInv /\ SuiteInv

-----------------------------------------------------------------------------
LEMMA StepsType == Steps \subseteq Int /\ Absent \in Steps /\ \A i \in 0..Cardinality(Nodes) : i \in Steps
BY NodesFinite DEF Steps, Absent

\* What holds while tests run.
LEMMA InTests ==
  ASSUME JobInv, suite \in Tests \cup Indexing
  PROVE  /\ Size \in Nat \ {0} /\ Size <= Cardinality(Nodes) /\ Cardinality(Nodes) \in Nat
         /\ group \in 1..Size /\ idx \in 1..Size
         /\ env.urls \in [1..Size -> Nodes]
         /\ \A i, j \in 1..Size : env.urls[i] = env.urls[j] => i = j
         /\ script = "done"
<1>1. env.urls \in Seq(Nodes)
  BY DEF JobInv, ScriptInv, ScriptTypes
<1>2. Size # 0 /\ script = "done"
  BY DEF JobInv, SuiteInv, SetUp, BeforeAll, Indexing
<1>3. env.urls # <<>> /\ Size \in Nat /\ env.urls \in [1..Size -> Nodes]
  BY <1>1, <1>2 DEF Size
<1>4. group \in 1..Size /\ idx \in 1..Size
  BY <1>3 DEF JobInv, SuiteInv, SuiteTypes, Length, Size
<1> QED
  BY <1>2, <1>3, <1>4, NodesFinite DEF JobInv, ScriptInv, Listed

LEMMA Places ==
  ASSUME Size \in Nat, NEW g \in 1..Size, NEW i \in 1..Size
  PROVE  Place(g, i) \in 1..Size /\ Place(g, 1) = g /\ (i # 1 => Place(g, i) # g)
BY DEF Place

\* The order of a group begins with its own node and goes round.
LEMMA OrderIs ==
  ASSUME JobInv, suite \in Tests
  PROVE  /\ First = env.urls[group] /\ First \in Nodes
         /\ Node = Follower(group, idx) /\ Node \in Nodes
         /\ idx # 1 => Node # First
         /\ idx = 1 => Node = First
<1>1. /\ Size \in Nat \ {0} /\ group \in 1..Size /\ idx \in 1..Size
      /\ env.urls \in [1..Size -> Nodes] /\ env.urls \in Seq(Nodes)
      /\ \A i, j \in 1..Size : env.urls[i] = env.urls[j] => i = j
  BY InTests DEF JobInv, ScriptInv, ScriptTypes
<1> DEFINE urls == env.urls
<1>2. Order = SubSeq(urls, group, Len(urls)) \o SubSeq(urls, 1, group - 1)
  BY <1>1 DEF Order, generateUrlCombinations, Size
<1>3. \A i \in 1..Size : Order[i] = Follower(group, i)
  <2> SUFFICES ASSUME NEW i \in 1..Size PROVE Order[i] = Follower(group, i)
    OBVIOUS
  <2>1. urls \in Seq(Nodes) /\ group \in 1..Len(urls) /\ i \in 1..Len(urls)
    BY <1>1 DEF Size
  <2> HIDE DEF urls
  <2>2. (SubSeq(urls, group, Len(urls)) \o SubSeq(urls, 1, group - 1))[i]
          = urls[IF group + i - 1 <= Len(urls) THEN group + i - 1 ELSE group + i - 1 - Len(urls)]
    BY <2>1
  <2> QED
    BY <1>2, <2>2 DEF Follower, Place, Size, urls
<1>4. First = env.urls[group]
  BY <1>1, <1>3, Places DEF First, Follower
<1>5. Node = Follower(group, idx)
  BY <1>1, <1>3 DEF Node
<1>6. Place(group, idx) \in 1..Size /\ (idx # 1 => Place(group, idx) # group)
      /\ (idx = 1 => Place(group, idx) = group)
  BY <1>1, Places
<1> QED
  BY <1>1, <1>4, <1>5, <1>6 DEF Follower

-----------------------------------------------------------------------------
(* A test that ends, well or not, with what its last request has changed.  *)

\* What a request of a test may do to the nodes: nobody falls back, nobody gets
\* ahead of the first node, and only the stream of the group changes.
Grown ==
  /\ held' \in [Nodes -> [Nodes -> Steps]]
  /\ \A s, n \in Nodes : held[s][n] <= held'[s][n] /\ held'[s][n] <= held'[s][s]
  /\ held'[env.urls[group]][env.urls[group]] <= idx
  /\ \A s \in Nodes : s # env.urls[group] => held'[s] = held[s]

LEMMA GrownCopies ==
  ASSUME JobInv, suite \in Tests, Grown
  PROVE  /\ \A s, n \in Nodes : /\ held[s][n] \in Int /\ held'[s][n] \in Int
                                /\ held'[s][n] <= held'[s][s] /\ held'[s][s] <= Size
         /\ \A g \in 1..Size : g > group =>
              \A n \in Nodes : held'[env.urls[g]][n] = Absent
         /\ \A g, i \in 1..Size : Tested(g, i) => held'[env.urls[g]][Follower(g, i)] >= i
         /\ \A s \in stored : \E n \in Nodes \ {s} : held'[s][n] = Size
<1>1. /\ Size \in Nat \ {0} /\ group \in 1..Size /\ idx \in 1..Size
      /\ env.urls \in [1..Size -> Nodes]
      /\ \A i, j \in 1..Size : env.urls[i] = env.urls[j] => i = j
  BY InTests
<1>2. \A s, n \in Nodes : held[s][n] \in Int /\ held'[s][n] \in Int
  BY StepsType DEF Grown, JobInv, SuiteInv, SuiteTypes
<1>3. ASSUME NEW s \in Nodes PROVE held'[s][s] <= Size
  <2>1. held[s][s] <= Size
    BY <1>3 DEF JobInv, SuiteInv, Copies
  <2>2. CASE s = env.urls[group]
    <3>1. held'[s][s] <= idx
      BY <2>2 DEF Grown
    <3> QED
      BY <1>1, <1>2, <3>1
  <2>3. CASE s # env.urls[group]
    BY <2>1, <2>3 DEF Grown
  <2> QED
    BY <2>2, <2>3
<1>4. ASSUME NEW g \in 1..Size, g > group, NEW n \in Nodes
      PROVE  held'[env.urls[g]][n] = Absent
  <2>1. env.urls[g] \in Nodes /\ env.urls[g] # env.urls[group]
    BY <1>1, <1>4
  <2>2. held[env.urls[g]][n] = Absent
    BY <1>4 DEF JobInv, SuiteInv, Copies
  <2> QED
    BY <2>1, <2>2 DEF Grown
<1>5. ASSUME NEW g \in 1..Size, NEW i \in 1..Size, Tested(g, i)
      PROVE  held'[env.urls[g]][Follower(g, i)] >= i
  <2>1. env.urls[g] \in Nodes /\ Follower(g, i) \in Nodes
    BY <1>1, Places DEF Follower
  <2>2. /\ held[env.urls[g]][Follower(g, i)] <= held'[env.urls[g]][Follower(g, i)]
        /\ held[env.urls[g]][Follower(g, i)] >= i
    BY <1>5, <2>1 DEF Tested, Grown
  <2>3. /\ held[env.urls[g]][Follower(g, i)] \in Int
        /\ held'[env.urls[g]][Follower(g, i)] \in Int
    BY <1>2, <2>1
  <2> QED
    BY <2>2, <2>3
<1>6. ASSUME NEW s \in stored PROVE \E n \in Nodes \ {s} : held'[s][n] = Size
  <2>1. PICK n \in Nodes \ {s} : held[s][n] = Size
    BY <1>6 DEF JobInv, SuiteInv, Anchoring
  <2>2. s \in Nodes
    BY <1>6 DEF JobInv, SuiteInv, SuiteTypes
  <2>3. held'[s][n] <= held'[s][s] /\ held[s][n] <= held'[s][n] /\ held'[s][s] <= Size
    BY <1>3, <2>2 DEF Grown
  <2>4. held'[s][n] \in Int /\ held'[s][s] \in Int
    BY <1>2, <2>2
  <2> QED
    BY <1>1, <2>1, <2>3, <2>4
<1>7. \A s, n \in Nodes : held'[s][n] <= held'[s][s]
  BY DEF Grown
<1> QED
  BY <1>2, <1>3, <1>4, <1>5, <1>6, <1>7

\* Where jest goes.
LEMMA Moves ==
  ASSUME JobInv, suite \in Tests, NEW ok \in BOOLEAN, EndTest(ok)
  PROVE  \/ suite = "create" /\ Move("update", group, idx)
         \/ suite \in LoadTest /\ Move("replace", group, idx)
         \/ suite \in {"update"} \cup SyncTest /\ idx < Size /\ Move("load", group, idx + 1)
         \/ suite \in {"update"} \cup SyncTest /\ idx = Size /\ group < Size
              /\ Move("create", group + 1, 1)
         \/ suite \in {"update"} \cup SyncTest /\ idx = Size /\ group = Size
              /\ Move("ended", group, idx)
<1>1. Size \in Nat \ {0} /\ group \in 1..Size /\ idx \in 1..Size
  BY InTests
<1>2. suite = "create" \/ suite \in LoadTest \/ suite \in {"update"} \cup SyncTest
  BY DEF Tests
<1>3. CASE suite = "create"
  BY <1>3 DEF EndTest
<1>4. CASE suite \in LoadTest
  BY <1>4 DEF EndTest, LoadTest
<1>5. CASE suite \in {"update"} \cup SyncTest
  <2>1. IF idx < Size THEN Move("load", group, idx + 1) ELSE NextGroup
    BY <1>5 DEF EndTest, LoadTest, SyncTest, Size
  <2>2. NextGroup => \/ group < Size /\ Move("create", group + 1, 1)
                     \/ group = Size /\ Move("ended", group, idx)
    BY <1>1 DEF NextGroup, Size
  <2> QED
    BY <1>1, <1>5, <2>1, <2>2
<1> QED
  BY <1>2, <1>3, <1>4, <1>5

LEMMA TestEnds ==
  ASSUME JobInv, suite \in Tests, NEW ok \in BOOLEAN, EndTest(ok), Grown,
         UNCHANGED <<scriptVars, table, indexed, anchored>>,
         stored' = stored \/ (suite = "store" /\ stored' = stored \cup {First}),
         ok /\ suite \in {"update"} \cup SyncTest =>
           held'[env.urls[group]][Follower(group, idx)] >= idx
  PROVE  SuiteInv'
<1> USE DEF scriptVars
<1>1. /\ Size \in Nat \ {0} /\ Size <= Cardinality(Nodes) /\ Cardinality(Nodes) \in Nat
      /\ group \in 1..Size /\ idx \in 1..Size
      /\ env.urls \in [1..Size -> Nodes]
      /\ \A i, j \in 1..Size : env.urls[i] = env.urls[j] => i = j
      /\ script = "done"
  BY InTests
<1>2. UNCHANGED env /\ UNCHANGED script /\ UNCHANGED Size
  BY DEF Size
<1>3. \/ suite = "create" /\ Move("update", group, idx)
      \/ suite \in LoadTest /\ Move("replace", group, idx)
      \/ suite \in {"update"} \cup SyncTest /\ idx < Size /\ Move("load", group, idx + 1)
      \/ suite \in {"update"} \cup SyncTest /\ idx = Size /\ group < Size
           /\ Move("create", group + 1, 1)
      \/ suite \in {"update"} \cup SyncTest /\ idx = Size /\ group = Size
           /\ Move("ended", group, idx)
  BY Moves
<1>4. /\ \A s, n \in Nodes : /\ held[s][n] \in Int /\ held'[s][n] \in Int
                             /\ held'[s][n] <= held'[s][s] /\ held'[s][s] <= Size
      /\ \A g \in 1..Size : g > group => \A n \in Nodes : held'[env.urls[g]][n] = Absent
      /\ \A g, i \in 1..Size : Tested(g, i) => held'[env.urls[g]][Follower(g, i)] >= i
      /\ \A s \in stored : \E n \in Nodes \ {s} : held'[s][n] = Size
  BY GrownCopies
<1>5. suite' \in Tests \cup {"ended"} /\ group' \in 1..Size /\ idx' \in 1..Size
  BY <1>1, <1>3 DEF Move, Tests, LoadTest, SyncTest
<1>6. First = env.urls[group] /\ First \in Nodes
  BY OrderIs
<1>7. SuiteTypes'
  <2>1. failed' \in BOOLEAN
    BY Zenon DEF EndTest, JobInv, SuiteInv, SuiteTypes
  <2>2. doc' \in Steps
    BY StepsType DEF EndTest, JobInv, SuiteInv, SuiteTypes
  <2>3. group' \in 1..Length(env'.urls) /\ idx' \in 1..Length(env'.urls)
    BY <1>1, <1>2, <1>5 DEF Length, Size
  <2>4. stored' \subseteq Nodes
    BY <1>6 DEF JobInv, SuiteInv, SuiteTypes
  <2>5. held' \in [Nodes -> [Nodes -> Steps]]
    BY DEF Grown
  <2>6. table' \in {"absent", "creating", "active"} /\ indexed' \subseteq Nodes /\ anchored' \subseteq Nodes
    BY DEF JobInv, SuiteInv, SuiteTypes
  <2> QED
    BY <1>5, <2>1, <2>2, <2>3, <2>4, <2>5, <2>6 DEF SuiteTypes
<1>8. SetUp'
  <2>1. table = "active" /\ \A j \in 1..Size : env.urls[j] \in indexed
    BY DEF JobInv, SuiteInv, SetUp
  <2>2. suite \in {"create", "update"} => idx = 1
    BY DEF JobInv, SuiteInv, SetUp
  <2>3. suite \in LoadTest \cup SyncTest => idx # 1
    BY DEF JobInv, SuiteInv, SetUp
  <2>4. suite' \in {"create", "update"} => idx' = 1
    BY <1>3, <2>2 DEF Move, LoadTest, SyncTest
  <2>5. suite' \in LoadTest \cup SyncTest => idx' # 1
    BY <1>1, <1>3, <2>3 DEF Move, LoadTest, SyncTest
  <2>6. suite' \notin Early \cup Indexing \cup BeforeAll
    BY <1>5 DEF Early, Indexing, Tests, LoadTest, SyncTest, BeforeAll
  <2> QED
    BY <1>1, <1>2, <2>1, <2>4, <2>5, <2>6, Zenon DEF SetUp, BeforeAll, Early, Indexing
<1>9. Copies'
  <2>1. suite' \notin Early \cup Indexing
    BY <1>5 DEF Early, Indexing, Tests, LoadTest, SyncTest
  <2>2. ASSUME suite' \in Tests
        PROVE  held'[env.urls[group']][env.urls[group']] <= idx'
    <3>1. env.urls[group] \in Nodes /\ env.urls[group'] \in Nodes
      BY <1>1, <1>5
    <3>2. CASE group' = group
      <4>1. held'[env.urls[group]][env.urls[group]] <= idx /\ idx <= idx' /\ idx' \in Int
        BY <1>1, <1>3, <1>5, <3>2 DEF Grown, Move
      <4> QED
        BY <1>1, <1>4, <3>1, <3>2, <4>1
    <3>3. CASE group' > group
      <4>1. held'[env.urls[group']][env.urls[group']] = Absent
        BY <1>4, <1>5, <3>1, <3>3
      <4> QED
        BY <1>5, <4>1 DEF Absent
    <3> QED
      BY <1>1, <1>3, <3>2, <3>3 DEF Move
  <2>3. ASSUME suite' \in Tests, NEW g \in 1..Size, NEW n \in Nodes,
               g > group' \/ (g = group' /\ suite' = "create")
        PROVE  held'[env.urls[g]][n] = Absent
    <3>1. g > group
      BY <1>1, <1>3, <1>5, <2>3 DEF Move, LoadTest, SyncTest
    <3> QED
      BY <1>4, <3>1
  <2> QED
    BY <1>2, <1>4, <2>1, <2>2, <2>3 DEF Copies
<1>10. Works'
  <2>1. ~failed' => ~failed /\ ok
    BY Zenon DEF EndTest
  <2>2. ASSUME ~failed', NEW g \in 1..Size, NEW i \in 1..Size,
               \/ g < group \/ (g = group /\ i < idx)
               \/ suite \in {"update"} \cup SyncTest /\ g = group /\ i = idx
        PROVE  held'[env.urls[g]][Follower(g, i)] >= i
    <3>1. CASE g < group \/ (g = group /\ i < idx)
      <4>1. Tested(g, i)
        BY <2>1, <2>2, <3>1 DEF JobInv, SuiteInv, Works
      <4> QED
        BY <1>4, <4>1
    <3>2. CASE suite \in {"update"} \cup SyncTest /\ g = group /\ i = idx
      BY <2>1, <2>2, <3>2
    <3> QED
      BY <2>2, <3>1, <3>2
  <2>3. ASSUME ~failed', suite' \in Tests, NEW g \in 1..Size, NEW i \in 1..Size,
               g < group' \/ (g = group' /\ i < idx')
        PROVE  held'[env.urls[g]][Follower(g, i)] >= i
    <3>1. \/ g < group \/ (g = group /\ i < idx)
          \/ suite \in {"update"} \cup SyncTest /\ g = group /\ i = idx
      BY <1>1, <1>3, <1>5, <2>3 DEF Move, Tests, LoadTest, SyncTest
    <3> QED
      BY <2>2, <2>3, <3>1
  <2>4. ASSUME ~failed', suite' = "ended", NEW g \in 1..Size, NEW i \in 1..Size
        PROVE  held'[env.urls[g]][Follower(g, i)] >= i
    <3>1. suite \in {"update"} \cup SyncTest /\ idx = Size /\ group = Size
      BY <1>3, <2>4 DEF Move
    <3>2. \/ g < group \/ (g = group /\ i < idx)
          \/ suite \in {"update"} \cup SyncTest /\ g = group /\ i = idx
      BY <1>1, <3>1
    <3> QED
      BY <2>2, <2>4, <3>2
  <2>5. table = "active" /\ \A j \in 1..Size : env.urls[j] \in indexed
    BY DEF JobInv, SuiteInv, SetUp
  <2>6. \A g, i \in 1..Size : Follower(g, i)' = Follower(g, i)
    BY <1>2 DEF Follower, Place
  <2> QED
    BY <1>1, <1>2, <2>3, <2>4, <2>5, <2>6 DEF Works, Tested
<1>11. Anchoring'
  <2>1. ASSUME NEW s \in anchored
        PROVE  suite' = "ended" \/ \E g \in 1..Size : g < group' /\ s = env.urls[g]
    <3>1. CASE \E g \in 1..Size : g < group /\ s = env.urls[g]
      <4>1. group <= group'
        BY <1>1, <1>3 DEF Move
      <4> QED
        BY <1>1, <1>5, <3>1, <4>1
    <3>2. CASE s = env.urls[group] /\ idx = Size /\ suite \in {"waitSync", "compareSync", "store"}
      <4>1. suite' = "ended" \/ group < group'
        BY <1>1, <1>3, <3>2 DEF Move, LoadTest
      <4> QED
        BY <1>1, <3>2, <4>1
    <3> QED
      BY <3>1, <3>2 DEF JobInv, SuiteInv, Anchoring, Tests, LoadTest, SyncTest
  <2>2. suite' \notin {"waitSync", "compareSync", "store"}
    BY <1>3 DEF Move
  <2>3. ASSUME NEW s \in stored'
        PROVE  s \in anchored /\ \E n \in Nodes \ {s} : held'[s][n] = Size
    <3>1. CASE s \in stored
      BY <1>4, <3>1 DEF JobInv, SuiteInv, Anchoring
    <3>2. CASE suite = "store" /\ s = First
      <4>1. /\ idx = Size /\ env.urls[group] \in anchored
            /\ held[env.urls[group]][Follower(group, idx)] = Size
        BY <3>2 DEF JobInv, SuiteInv, Anchoring
      <4>2. Follower(group, idx) \in Nodes /\ Follower(group, idx) # env.urls[group]
        BY <3>2, OrderIs DEF JobInv, SuiteInv, SetUp, SyncTest
      <4>3. Tested(group, idx)
        BY <1>1, <4>1 DEF Tested
      <4>4. held'[env.urls[group]][Follower(group, idx)] >= Size
        BY <1>1, <1>4, <4>1, <4>3
      <4>5. held'[env.urls[group]][Follower(group, idx)] = Size
        BY <1>1, <1>4, <1>6, <4>2, <4>4
      <4> QED
        BY <1>6, <3>2, <4>1, <4>2, <4>5
    <3> QED
      BY <3>1, <3>2
  <2> QED
    BY <1>2, <2>1, <2>2, <2>3 DEF Anchoring
<1> QED
  BY <1>7, <1>8, <1>9, <1>10, <1>11 DEF SuiteInv

-----------------------------------------------------------------------------
(* The steps of the tests.                                                 *)

\* The stream of the group is written to.
LEMMA WriteGrows ==
  ASSUME JobInv, suite \in {"create", "update", "replace"},
         NEW v \in 0..idx,
         suite # "create" => v = idx,
         held' = [held EXCEPT ![First][First] = v]
  PROVE  Grown /\ held'[env.urls[group]][env.urls[group]] = v
<1>1. /\ Size \in Nat \ {0} /\ Size <= Cardinality(Nodes) /\ Cardinality(Nodes) \in Nat
      /\ group \in 1..Size /\ idx \in 1..Size
      /\ env.urls \in [1..Size -> Nodes]
  BY InTests DEF Tests, SyncTest
<1>2. First = env.urls[group] /\ First \in Nodes
  BY OrderIs DEF Tests, SyncTest
<1>3. held \in [Nodes -> [Nodes -> Steps]] /\ v \in Steps /\ v \in Int
  BY <1>1, StepsType DEF JobInv, SuiteInv, SuiteTypes
<1>4. held' \in [Nodes -> [Nodes -> Steps]] /\ held'[First][First] = v
  BY <1>2, <1>3
<1>5. \A s, n \in Nodes : /\ held[s][n] \in Int /\ held'[s][n] \in Int
                          /\ s # First \/ n # First => held'[s][n] = held[s][n]
  <2> SUFFICES ASSUME NEW s \in Nodes, NEW n \in Nodes
               PROVE  /\ held[s][n] \in Int /\ held'[s][n] \in Int
                      /\ s # First \/ n # First => held'[s][n] = held[s][n]
    OBVIOUS
  <2>1. held[s][n] \in Steps /\ held'[s][n] \in Steps
    BY <1>3, <1>4
  <2>2. s # First \/ n # First => held'[s][n] = held[s][n]
    BY <1>2, <1>3
  <2> QED
    BY <2>1, <2>2, StepsType
<1>6. held[First][First] <= v
  <2>1. CASE suite = "create"
    <3>1. held[First][First] = Absent
      BY <1>1, <1>2, <2>1 DEF JobInv, SuiteInv, Copies, Tests
    <3> QED
      BY <1>1, <3>1 DEF Absent
  <2>2. CASE suite # "create"
    BY <1>2, <2>2 DEF JobInv, SuiteInv, Copies, Tests, SyncTest
  <2> QED
    BY <2>1, <2>2
<1>7. \A s, n \in Nodes : held[s][n] <= held[s][s]
  BY DEF JobInv, SuiteInv, Copies
<1>8. ASSUME NEW s \in Nodes, NEW n \in Nodes
      PROVE  held[s][n] <= held'[s][n] /\ held'[s][n] <= held'[s][s]
  <2>1. held[s][s] <= held'[s][s] /\ held[s][n] <= held'[s][n]
    <3>1. ASSUME NEW m \in Nodes PROVE held[s][m] <= held'[s][m]
      <4>1. CASE s = First /\ m = First
        BY <1>4, <1>6, <4>1
      <4>2. CASE s # First \/ m # First
        BY <1>5, <4>2
      <4> QED
        BY <4>1, <4>2
    <3> QED
      BY <3>1
  <2>2. CASE s = First /\ n = First
    BY <1>5, <2>1, <2>2
  <2>3. CASE s # First \/ n # First
    <3>1. held'[s][n] <= held[s][s]
      BY <1>5, <1>7, <2>3
    <3> QED
      BY <1>5, <2>1, <3>1
  <2> QED
    BY <2>1, <2>2, <2>3
<1>9. \A s \in Nodes : s # First => held'[s] = held[s]
  BY <1>2, <1>3
<1> QED
  BY <1>1, <1>2, <1>4, <1>8, <1>9 DEF Grown

LEMMA HeldGrows ==
  ASSUME JobInv, suite \in Tests, UNCHANGED held
  PROVE  Grown
<1>1. held \in [Nodes -> [Nodes -> Steps]]
  BY DEF JobInv, SuiteInv, SuiteTypes
<1>2. \A s, n \in Nodes : held[s][n] \in Int /\ held[s][n] <= held[s][s]
  BY <1>1, StepsType DEF JobInv, SuiteInv, Copies
<1> QED
  BY <1>1, <1>2 DEF Grown, JobInv, SuiteInv, Copies

LEMMA CreateInv == ASSUME JobInv, Create, UNCHANGED scriptVars PROVE SuiteInv'
<1>1. suite = "create" /\ suite \in Tests /\ EndTest(TRUE) /\ held' = [held EXCEPT ![First][First] = 0]
  BY DEF Create, Tests
<1>2. 0 \in 0..idx
  BY <1>1, InTests
<1>3. Grown
  BY <1>1, <1>2, WriteGrows
<1>4. UNCHANGED <<scriptVars, table, indexed, anchored>> /\ stored' = stored
  BY DEF Create
<1> QED
  BY <1>1, <1>3, <1>4, TestEnds DEF SyncTest

LEMMA UpdateInv == ASSUME JobInv, Update, UNCHANGED scriptVars PROVE SuiteInv'
<1>1. suite = "update" /\ suite \in Tests /\ EndTest(TRUE) /\ held' = [held EXCEPT ![First][First] = Step]
  BY DEF Update, Tests
<1>2. Step = idx /\ idx \in 0..idx /\ idx = 1
  BY <1>1, InTests DEF Step, LoadTest, JobInv, SuiteInv, SetUp
<1>3. Grown /\ held'[env.urls[group]][env.urls[group]] = idx
  BY <1>1, <1>2, WriteGrows
<1>4. UNCHANGED <<scriptVars, table, indexed, anchored>> /\ stored' = stored
  BY DEF Update
<1>5. Follower(group, idx) = env.urls[group]
  BY <1>1, <1>2, OrderIs
<1>6. held'[env.urls[group]][Follower(group, idx)] >= idx
  BY <1>2, <1>3, <1>5
<1> QED
  BY <1>1, <1>3, <1>4, <1>6, TestEnds

\* A test that fails, whatever it was about to do.
LEMMA FailsInv ==
  ASSUME JobInv, suite \in Tests, EndTest(FALSE), UNCHANGED <<scriptVars, table, nodeVars>>
  PROVE  SuiteInv'
<1>1. UNCHANGED <<scriptVars, table, indexed, anchored>> /\ stored' = stored /\ UNCHANGED held
  BY DEF nodeVars
<1> QED
  BY <1>1, HeldGrows, TestEnds

\* A test that goes on to another request, with nodes that may have grown.
LEMMA GoesOn ==
  ASSUME JobInv, suite \in Tests, suite' \in LoadTest \cup SyncTest, idx # 1, Grown,
         UNCHANGED <<scriptVars, table, group, idx, indexed, stored, failed>>,
         doc' \in Steps,
         \/ UNCHANGED anchored
         \/ idx = Size /\ suite' = "waitSync" /\ anchored' = anchored \cup {env.urls[group]},
         idx = Size /\ suite \in {"waitSync", "compareSync", "store"} =>
           suite' \in {"waitSync", "compareSync", "store"},
         idx = Size /\ suite' \in {"waitSync", "compareSync", "store"} =>
           env.urls[group] \in anchored',
         suite' = "store" =>
           idx = Size /\ held'[env.urls[group]][Follower(group, idx)] = Size
  PROVE  SuiteInv'
<1> USE DEF scriptVars
<1>1. /\ Size \in Nat \ {0} /\ Size <= Cardinality(Nodes) /\ Cardinality(Nodes) \in Nat
      /\ group \in 1..Size /\ idx \in 1..Size
      /\ env.urls \in [1..Size -> Nodes]
      /\ script = "done"
  BY InTests
<1>2. UNCHANGED env /\ UNCHANGED script /\ UNCHANGED Size
  BY DEF Size
<1>3. /\ \A s, n \in Nodes : /\ held[s][n] \in Int /\ held'[s][n] \in Int
                             /\ held'[s][n] <= held'[s][s] /\ held'[s][s] <= Size
      /\ \A g \in 1..Size : g > group => \A n \in Nodes : held'[env.urls[g]][n] = Absent
      /\ \A g, i \in 1..Size : Tested(g, i) => held'[env.urls[g]][Follower(g, i)] >= i
      /\ \A s \in stored : \E n \in Nodes \ {s} : held'[s][n] = Size
  BY GrownCopies
<1>4. suite' \in Tests /\ suite' \notin Early \cup Indexing \cup BeforeAll \cup {"create", "update", "ended"}
  BY DEF Early, Indexing, Tests, LoadTest, SyncTest, BeforeAll
<1>5. SuiteTypes'
  <2>1. anchored' \subseteq Nodes
    BY <1>1 DEF JobInv, SuiteInv, SuiteTypes
  <2> QED
    BY <1>2, <1>4, <2>1 DEF Grown, JobInv, SuiteInv, SuiteTypes
<1>6. SetUp'
  <2>1. table = "active" /\ \A j \in 1..Size : env.urls[j] \in indexed
    BY DEF JobInv, SuiteInv, SetUp
  <2> QED
    BY <1>1, <1>2, <1>4, <2>1 DEF SetUp, Early, Indexing, BeforeAll
<1>7. Copies'
  <2>1. held'[env.urls[group]][env.urls[group]] <= idx
    BY DEF Grown
  <2> QED
    BY <1>2, <1>3, <1>4, <2>1 DEF Copies
<1>8. Works'
  <2>1. ASSUME ~failed, NEW g \in 1..Size, NEW i \in 1..Size, g < group \/ (g = group /\ i < idx)
        PROVE  held'[env.urls[g]][Follower(g, i)] >= i
    <3>1. Tested(g, i)
      BY <2>1 DEF JobInv, SuiteInv, Works
    <3> QED
      BY <1>3, <3>1
  <2>2. \A g, i \in 1..Size : Follower(g, i)' = Follower(g, i)
    BY <1>2 DEF Follower, Place
  <2> QED
    BY <1>2, <1>4, <2>1, <2>2 DEF Works, Tested
<1>9. Anchoring'
  <2>1. ASSUME NEW s \in anchored'
        PROVE  \/ \E g \in 1..Size : g < group /\ s = env.urls[g]
               \/ s = env.urls[group] /\ idx = Size /\ suite' \in {"waitSync", "compareSync", "store"}
    <3>1. CASE s \in anchored
      BY <3>1 DEF JobInv, SuiteInv, Anchoring, Tests, LoadTest, SyncTest
    <3>2. CASE idx = Size /\ suite' = "waitSync" /\ s = env.urls[group]
      BY <3>2
    <3> QED
      BY <2>1, <3>1, <3>2
  <2>2. ASSUME NEW s \in stored PROVE s \in anchored' /\ \E n \in Nodes \ {s} : held'[s][n] = Size
    BY <1>3, <2>2 DEF JobInv, SuiteInv, Anchoring
  <2>3. UNCHANGED <<group, idx, stored>> /\ Follower(group, idx)' = Follower(group, idx)
    BY <1>2 DEF Follower, Place
  <2> QED
    BY <1>2, <2>1, <2>2, <2>3 DEF Anchoring
<1> QED
  BY <1>5, <1>6, <1>7, <1>8, <1>9 DEF SuiteInv

LEMMA LoadInv == ASSUME JobInv, Load, UNCHANGED scriptVars PROVE SuiteInv'
<1>1. /\ suite = "load" /\ suite \in Tests /\ suite' = "waitLoad" /\ doc' = held[First][Node]
      /\ UNCHANGED <<scriptVars, table, group, idx, failed, held, indexed, anchored, stored>>
  BY DEF Load, Tests, LoadTest, nodeVars
<1>2. doc' \in Steps
  BY <1>1, OrderIs DEF JobInv, SuiteInv, SuiteTypes
<1>3. idx # 1
  BY <1>1 DEF JobInv, SuiteInv, SetUp, LoadTest
<1>4. Grown
  BY <1>1, HeldGrows
<1> QED
  BY <1>1, <1>2, <1>3, <1>4, GoesOn DEF LoadTest

LEMMA ReplaceInv == ASSUME JobInv, Replace, UNCHANGED scriptVars PROVE SuiteInv'
<1>1. /\ suite = "replace" /\ suite \in Tests /\ suite' = "waitSync"
      /\ held' = [held EXCEPT ![First][First] = Step]
      /\ anchored' = anchored \cup (IF IsFinalWriter THEN {First} ELSE {})
      /\ UNCHANGED <<scriptVars, table, group, idx, failed, doc, indexed, stored>>
  BY DEF Replace, Tests, SyncTest, testVars
<1>2. Step = idx /\ idx \in 0..idx
  BY <1>1, InTests DEF Step, LoadTest
<1>3. Grown
  BY <1>1, <1>2, WriteGrows
<1>4. doc' \in Steps
  BY <1>1 DEF JobInv, SuiteInv, SuiteTypes
<1>5. idx # 1
  BY <1>1 DEF JobInv, SuiteInv, SetUp, SyncTest
<1>6. First = env.urls[group]
  BY <1>1, OrderIs
<1>7. /\ UNCHANGED anchored \/ (idx = Size /\ suite' = "waitSync" /\ anchored' = anchored \cup {env.urls[group]})
      /\ idx = Size => env.urls[group] \in anchored'
  BY <1>1, <1>6 DEF IsFinalWriter, Size
<1> QED
  BY <1>1, <1>3, <1>4, <1>5, <1>7, GoesOn DEF SyncTest

LEMMA WaitForConditionInv == ASSUME JobInv, WaitForCondition, UNCHANGED scriptVars PROVE SuiteInv'
<1>1. /\ suite \in {"waitLoad", "waitSync"} /\ suite \in Tests /\ doc' = Step
      /\ suite' = IF suite = "waitLoad" THEN "compareLoad" ELSE "compareSync"
      /\ UNCHANGED <<scriptVars, table, group, idx, failed, held, indexed, anchored, stored>>
  BY DEF WaitForCondition, Tests, LoadTest, SyncTest, nodeVars
<1>2. doc' \in Steps
  <2>1. idx \in 1..Size /\ Size \in Nat /\ Size <= Cardinality(Nodes) /\ Cardinality(Nodes) \in Nat
    BY <1>1, InTests
  <2>2. Step \in {0, idx - 1, idx}
    BY DEF Step
  <2>3. Step \in 0..Cardinality(Nodes)
    BY <2>1, <2>2
  <2> QED
    BY <1>1, <2>3, StepsType
<1>3. idx # 1
  BY <1>1 DEF JobInv, SuiteInv, SetUp, LoadTest, SyncTest
<1>4. Grown
  BY <1>1, HeldGrows
<1>5. /\ suite' \in LoadTest \cup SyncTest /\ suite' # "store"
      /\ suite = "waitSync" <=> suite' = "compareSync"
      /\ suite' # "waitSync"
  BY <1>1 DEF LoadTest, SyncTest
<1>6. idx = Size /\ suite' \in {"waitSync", "compareSync", "store"} => env.urls[group] \in anchored'
  BY <1>1, <1>5 DEF JobInv, SuiteInv, Anchoring
<1>7. suite \in {"waitSync", "compareSync", "store"} => suite' \in {"waitSync", "compareSync", "store"}
  BY <1>1, <1>5
<1> QED
  BY <1>1, <1>2, <1>3, <1>4, <1>5, <1>6, <1>7, GoesOn

LEMMA CompareInv == ASSUME JobInv, Compare, UNCHANGED scriptVars PROVE SuiteInv'
<1>1. /\ suite \in {"compareLoad", "compareSync"} /\ suite \in Tests
      /\ UNCHANGED <<scriptVars, table, held, indexed, anchored, stored>>
  BY DEF Compare, Tests, LoadTest, SyncTest, nodeVars
<1>2. First = env.urls[group] /\ Node = Follower(group, idx)
  BY <1>1, OrderIs
<1>3. Grown
  BY <1>1, HeldGrows
<1>4. idx \in 1..Size /\ Size \in Nat
  BY <1>1, InTests
<1>5. suite = "compareSync" => Step = idx
  BY DEF Step, LoadTest
<1>6. CASE held[First][Node] = Step /\ suite = "compareSync" /\ IsFinalWriter
  <2>1. suite' = "store" /\ UNCHANGED <<group, idx, doc, failed>>
    BY <1>6 DEF Compare, testVars
  <2>2. idx = Size /\ held'[env.urls[group]][Follower(group, idx)] = Size
    BY <1>1, <1>2, <1>5, <1>6 DEF IsFinalWriter, Size
  <2>3. env.urls[group] \in anchored'
    BY <1>1, <1>6, <2>2 DEF JobInv, SuiteInv, Anchoring
  <2>4. idx # 1
    BY <1>6 DEF JobInv, SuiteInv, SetUp, SyncTest
  <2>5. doc' \in Steps
    BY <2>1 DEF JobInv, SuiteInv, SuiteTypes
  <2> QED
    BY <1>1, <1>3, <2>1, <2>2, <2>3, <2>4, <2>5, GoesOn DEF SyncTest
<1>7. CASE ~(held[First][Node] = Step /\ suite = "compareSync" /\ IsFinalWriter)
  <2>1. EndTest(held[First][Node] = Step)
    BY <1>7 DEF Compare
  <2>2. PICK ok \in BOOLEAN : EndTest(ok) /\ (ok => held[First][Node] = Step)
    <3>1. (held[First][Node] = Step) \in BOOLEAN
      OBVIOUS
    <3> QED
      BY <2>1, <3>1, Zenon
  <2>3. ok /\ suite \in {"update"} \cup SyncTest =>
          held'[env.urls[group]][Follower(group, idx)] >= idx
    <3> SUFFICES ASSUME ok, suite \in {"update"} \cup SyncTest
                 PROVE  held'[env.urls[group]][Follower(group, idx)] >= idx
      OBVIOUS
    <3>1. suite = "compareSync"
      BY <1>1 DEF SyncTest
    <3>2. held'[env.urls[group]][Follower(group, idx)] = idx
      BY <1>1, <1>2, <1>5, <2>2, <3>1
    <3> QED
      BY <1>4, <3>2
  <2> QED
    BY <1>1, <1>3, <2>2, <2>3, TestEnds
<1> QED
  BY <1>6, <1>7

LEMMA StoreInv == ASSUME JobInv, StoreStreamReq, UNCHANGED scriptVars PROVE SuiteInv'
<1>1. /\ suite = "store" /\ suite \in Tests /\ EndTest(TRUE) /\ stored' = stored \cup {First}
      /\ UNCHANGED <<scriptVars, table, held, indexed, anchored>>
  BY DEF StoreStreamReq, Tests, SyncTest
<1>2. Grown
  BY <1>1, HeldGrows
<1>3. held'[env.urls[group]][Follower(group, idx)] >= idx
  <2>1. idx = Size /\ held[env.urls[group]][Follower(group, idx)] = Size /\ Size \in Nat
    BY <1>1, InTests DEF JobInv, SuiteInv, Anchoring
  <2> QED
    BY <1>1, <2>1
<1> QED
  BY <1>1, <1>2, <1>3, TestEnds

LEMMA UndefinedInv == ASSUME JobInv, Undefined, UNCHANGED scriptVars PROVE SuiteInv'
<1>1. suite \in Tests /\ EndTest(FALSE) /\ UNCHANGED <<scriptVars, table, nodeVars>>
  BY DEF Undefined, Tests, LoadTest, SyncTest
<1> QED
  BY <1>1, FailsInv

-----------------------------------------------------------------------------
(* The steps of beforeAll, and what disturbs the suite.                    *)

LEMMA GoToInv ==
  ASSUME JobInv, UNCHANGED scriptVars, NEW next \in BeforeAll, GoTo(next),
         script = "done",
         suite \in Early \/ (suite \in Indexing /\ next \in Indexing),
         next \in {"checkSeeds", "createModel"} \cup Indexing => table = "active",
         next \in Indexing => Size # 0
  PROVE  SuiteInv'
<1> USE DEF scriptVars
<1>1. /\ suite' = next /\ UNCHANGED <<env, script, table, group, idx, doc, failed>>
      /\ UNCHANGED <<held, indexed, anchored, stored>>
  BY DEF GoTo, testVars, nodeVars
<1>2. suite' \notin Tests \cup {"init", "ended"}
  BY <1>1 DEF BeforeAll, Tests, LoadTest, SyncTest
<1>3. SuiteTypes'
  BY <1>1 DEF JobInv, SuiteInv, SuiteTypes
<1>4. group = 1 /\ (suite \in Early => idx = 1)
  BY DEF JobInv, SuiteInv, SetUp
<1>5. SetUp'
  <2>1. UNCHANGED Size
    BY <1>1 DEF Size
  <2>2. ASSUME next \in Indexing, NEW j \in 1..Size, j < idx PROVE env.urls[j] \in indexed
    <3>1. CASE suite \in Early
      BY <1>4, <2>2, <3>1
    <3>2. CASE suite \in Indexing
      BY <2>2, <3>2 DEF JobInv, SuiteInv, SetUp
    <3> QED
      BY <3>1, <3>2
  <2>3. suite' \in Early => idx = 1
    BY <1>1, <1>4 DEF Early, Indexing
  <2>4. suite' \notin {"create", "update"} \cup LoadTest \cup SyncTest
    BY <1>2 DEF Tests
  <2> QED
    BY <1>1, <1>2, <1>4, <2>1, <2>2, <2>3, <2>4 DEF SetUp
<1>6. Copies'
  BY <1>1, <1>2 DEF JobInv, SuiteInv, Copies, Size
<1>7. Works'
  BY <1>1, <1>2 DEF Works
<1>8. anchored = {}
  BY <1>4, InTests DEF JobInv, SuiteInv, Anchoring, SuiteTypes, Early, Indexing
<1>9. Anchoring'
  BY <1>1, <1>2, <1>8 DEF JobInv, SuiteInv, Anchoring, Tests, SyncTest
<1> QED
  BY <1>3, <1>5, <1>6, <1>7, <1>9 DEF SuiteInv

\* The end of the job before its tests.
LEMMA EndInv ==
  ASSUME JobInv, UNCHANGED scriptVars, End(TRUE), script \in {"done", "failed"}
  PROVE  SuiteInv'
<1> USE DEF scriptVars
<1>1. /\ suite' = "ended" /\ failed' = TRUE /\ UNCHANGED <<env, script, table, group, idx, doc>>
      /\ UNCHANGED <<held, indexed, anchored, stored>>
  BY DEF End, nodeVars
<1>2. SuiteTypes'
  BY <1>1 DEF JobInv, SuiteInv, SuiteTypes
<1>3. SetUp'
  BY <1>1 DEF SetUp, BeforeAll, Early, Indexing, Tests, LoadTest, SyncTest
<1>4. Copies'
  BY <1>1 DEF JobInv, SuiteInv, Copies, Size, Early, Indexing, Tests, LoadTest, SyncTest
<1>5. Works'
  BY <1>1 DEF Works, Tests, LoadTest, SyncTest
<1>6. Anchoring'
  BY <1>1 DEF JobInv, SuiteInv, Anchoring, Size
<1> QED
  BY <1>2, <1>3, <1>4, <1>5, <1>6 DEF SuiteInv

LEMMA StartSuiteInv == ASSUME JobInv, StartSuite, UNCHANGED scriptVars PROVE SuiteInv'
<1>1. CASE script = "done" /\ GoTo("describe")
  <2>1. suite \in Early /\ "describe" \in BeforeAll
        /\ "describe" \notin {"checkSeeds", "createModel"} \cup Indexing
    BY DEF StartSuite, Early, BeforeAll, Indexing
  <2> QED
    BY <1>1, <2>1, GoToInv
<1>2. CASE script = "failed" /\ End(TRUE)
  BY <1>2, EndInv
<1> QED
  BY <1>1, <1>2 DEF StartSuite

\* Where the suite is in beforeAll.
LEMMA InBeforeAll ==
  ASSUME JobInv, suite \in BeforeAll
  PROVE  /\ script = "done" /\ suite \in Early \cup Indexing
         /\ suite \in {"checkSeeds", "createModel"} \cup Indexing => table = "active"
BY DEF JobInv, SuiteInv, SetUp, BeforeAll, Early, Indexing

LEMMA DescribeInv ==
  ASSUME JobInv, UNCHANGED scriptVars, suite \in {"describe", "createTable"},
         NEW next \in {"describe", "createTable", "checkSeeds"}, GoTo(next),
         next = "checkSeeds" => table = "active"
  PROVE  SuiteInv'
<1>1. suite \in Early /\ suite \in BeforeAll /\ next \in BeforeAll
      /\ next \notin {"createModel"} \cup Indexing
  BY DEF Early, BeforeAll, Indexing
<1>2. script = "done"
  BY <1>1, InBeforeAll
<1> QED
  BY <1>1, <1>2, GoToInv

\* The table changes, and with it perhaps the request that follows.
LEMMA TableInv ==
  ASSUME JobInv, UNCHANGED scriptVars, UNCHANGED <<testVars, nodeVars>>,
         UNCHANGED suite \/ (suite = "createTable" /\ suite' = "describe"),
         table' \in {"creating", "active"}, table = "active" => table' = "active"
  PROVE  SuiteInv'
<1> USE DEF scriptVars, testVars, nodeVars
<1>1. SuiteTypes'
  BY DEF JobInv, SuiteInv, SuiteTypes, BeforeAll
<1>2. SetUp'
  BY DEF JobInv, SuiteInv, SetUp, Size, BeforeAll, Early, Indexing, Tests, LoadTest, SyncTest
<1>3. Copies'
  BY DEF JobInv, SuiteInv, Copies, Size, Early, Indexing, Tests, LoadTest, SyncTest
<1>4. Works'
  BY DEF JobInv, SuiteInv, Works, Tested, Follower, Place, Size, Tests, LoadTest, SyncTest
<1>5. Anchoring'
  BY DEF JobInv, SuiteInv, Anchoring, Follower, Place, Size
<1> QED
  BY <1>1, <1>2, <1>3, <1>4, <1>5 DEF SuiteInv

LEMMA CheckSeedsInv == ASSUME JobInv, CheckSeeds, UNCHANGED scriptVars PROVE SuiteInv'
<1>1. suite = "checkSeeds" /\ suite \in BeforeAll /\ suite \in Early
      /\ "createModel" \in BeforeAll /\ "createModel" \notin Indexing
  BY DEF CheckSeeds, BeforeAll, Early, Indexing
<1>2. script = "done" /\ table = "active"
  BY <1>1, InBeforeAll
<1> QED
  BY <1>1, <1>2, GoToInv, EndInv DEF CheckSeeds

LEMMA CreateModelInv == ASSUME JobInv, CreateModel, UNCHANGED scriptVars PROVE SuiteInv'
<1>1. suite = "createModel" /\ suite \in BeforeAll /\ suite \in Early /\ "loadModel" \in BeforeAll
  BY DEF CreateModel, BeforeAll, Early
<1>2. script = "done" /\ table = "active"
  BY <1>1, InBeforeAll
<1>3. env.urls # <<>> => Size # 0
  BY DEF JobInv, ScriptInv, ScriptTypes, Size
<1> QED
  BY <1>1, <1>2, <1>3, GoToInv, EndInv DEF CreateModel

LEMMA LoadModelInv == ASSUME JobInv, LoadModel, UNCHANGED scriptVars PROVE SuiteInv'
<1>1. suite = "loadModel" /\ suite \in BeforeAll /\ suite \in Indexing
      /\ "startIndexing" \in BeforeAll /\ "startIndexing" \in Indexing
  BY DEF LoadModel, BeforeAll, Indexing
<1>2. script = "done" /\ table = "active" /\ Size # 0
  BY <1>1, InBeforeAll, InTests
<1> QED
  BY <1>1, <1>2, GoToInv DEF LoadModel

LEMMA StartIndexingInv == ASSUME JobInv, StartIndexing, UNCHANGED scriptVars PROVE SuiteInv'
<1> USE DEF scriptVars, testVars
<1>1. suite = "startIndexing" /\ suite \in BeforeAll /\ suite \in Indexing
  BY DEF StartIndexing, BeforeAll, Indexing
<1>2. script = "done" /\ table = "active" /\ Size # 0 /\ idx \in 1..Size /\ env.urls \in [1..Size -> Nodes]
  BY <1>1, InBeforeAll, InTests
<1>3. CASE idx <= env.seeds
  <2>1. /\ indexed' = indexed \cup {env.urls[idx]} /\ suite' = "waitIndexed"
        /\ UNCHANGED <<env, script, table, group, idx, doc, failed, held, anchored, stored>>
    BY <1>3 DEF StartIndexing
  <2>2. suite' \in BeforeAll /\ suite' \in Indexing /\ suite' \notin Early \cup Tests \cup {"init", "ended"}
    BY <2>1 DEF BeforeAll, Indexing, Early, Tests, LoadTest, SyncTest
  <2>3. SuiteTypes'
    BY <1>2, <2>1, <2>2 DEF JobInv, SuiteInv, SuiteTypes
  <2>4. SetUp'
    BY <1>1, <1>2, <2>1, <2>2 DEF JobInv, SuiteInv, SetUp, Size, Tests, LoadTest, SyncTest
  <2>5. Copies' /\ Works'
    BY <1>1, <2>1, <2>2 DEF JobInv, SuiteInv, Copies, Works, Size
  <2>6. Anchoring'
    BY <1>1, <2>1, <2>2 DEF JobInv, SuiteInv, Anchoring, Size
  <2> QED
    BY <2>3, <2>4, <2>5, <2>6 DEF SuiteInv
<1>4. CASE ~(idx <= env.seeds)
  BY <1>2, <1>4, EndInv DEF StartIndexing
<1> QED
  BY <1>3, <1>4

LEMMA WaitForIndexingInv == ASSUME JobInv, WaitForIndexing, UNCHANGED scriptVars PROVE SuiteInv'
<1> USE DEF scriptVars, nodeVars
<1>1. suite = "waitIndexed" /\ suite \in BeforeAll /\ suite \in Indexing /\ env.urls[idx] \in indexed
  BY DEF WaitForIndexing, BeforeAll, Indexing
<1>2. /\ script = "done" /\ table = "active" /\ Size \in Nat \ {0} /\ idx \in 1..Size
      /\ env.urls \in [1..Size -> Nodes]
  BY <1>1, InBeforeAll, InTests
<1>3. UNCHANGED <<env, script, table, group, doc, failed, held, indexed, anchored, stored>> /\ UNCHANGED Size
  BY DEF WaitForIndexing, Size
<1>4. group = 1 /\ anchored = {} /\ stored = {}
  <2>1. group = 1
    BY <1>1 DEF JobInv, SuiteInv, SetUp
  <2>2. anchored = {}
    BY <1>1, <2>1 DEF JobInv, SuiteInv, Anchoring
  <2> QED
    BY <2>1, <2>2 DEF JobInv, SuiteInv, Anchoring
<1>5. \A j \in 1..Size : j <= idx => env.urls[j] \in indexed
  <2> SUFFICES ASSUME NEW j \in 1..Size, j <= idx PROVE env.urls[j] \in indexed
    OBVIOUS
  <2>1. CASE j = idx
    BY <1>1, <2>1
  <2>2. CASE j < idx
    BY <1>1, <2>2 DEF JobInv, SuiteInv, SetUp
  <2> QED
    BY <1>2, <2>1, <2>2
<1>6. \A s, n \in Nodes : held[s][n] = Absent
  BY <1>1 DEF JobInv, SuiteInv, Copies
<1>7. CASE idx < Size
  <2>1. suite' = "loadModel" /\ idx' = idx + 1 /\ idx' \in 1..Size
    BY <1>2, <1>7 DEF WaitForIndexing, Size
  <2>2. suite' \in BeforeAll /\ suite' \in Indexing /\ suite' \notin Early \cup Tests \cup {"init", "ended"}
    BY <2>1 DEF BeforeAll, Indexing, Early, Tests, LoadTest, SyncTest
  <2>3. SuiteTypes'
    <3>1. idx' \in 1..Length(env'.urls)
      BY <1>2, <1>3, <2>1 DEF Length, Size
    <3> QED
      BY <1>3, <2>2, <3>1 DEF JobInv, SuiteInv, SuiteTypes
  <2>4. SetUp'
    <3>1. \A j \in 1..Size : j < idx' => env.urls[j] \in indexed
      BY <1>2, <1>5, <2>1
    <3>2. suite' \notin {"create", "update"} \cup LoadTest \cup SyncTest
      BY <2>2 DEF Tests
    <3> QED
      BY <1>2, <1>3, <1>4, <2>2, <3>1, <3>2 DEF SetUp
  <2>5. Copies' /\ Works'
    BY <1>3, <1>6, <2>2 DEF JobInv, SuiteInv, Copies, Works
  <2>6. Anchoring'
    BY <1>3, <1>4, <2>2 DEF Anchoring, Tests, LoadTest, SyncTest
  <2> QED
    BY <2>3, <2>4, <2>5, <2>6 DEF SuiteInv
<1>8. CASE ~(idx < Size)
  <2>1. suite' = "create" /\ idx' = 1 /\ idx' \in 1..Size
    BY <1>2, <1>8 DEF WaitForIndexing, Size
  <2>2. suite' \in Tests /\ suite' \notin Early \cup Indexing \cup BeforeAll \cup LoadTest \cup SyncTest \cup {"ended"}
    BY <2>1 DEF BeforeAll, Indexing, Early, Tests, LoadTest, SyncTest
  <2>3. SuiteTypes'
    <3>1. idx' \in 1..Length(env'.urls)
      BY <1>2, <1>3, <2>1 DEF Length, Size
    <3> QED
      BY <1>3, <2>2, <3>1 DEF JobInv, SuiteInv, SuiteTypes
  <2>4. SetUp'
    <3>1. \A j \in 1..Size : env.urls[j] \in indexed
      BY <1>2, <1>5, <1>8
    <3> QED
      BY <1>2, <1>3, <2>1, <2>2, <3>1 DEF SetUp
  <2>5. Copies'
    <3>1. \A g \in 1..Size : env.urls[g] \in Nodes
      BY <1>2
    <3>2. group \in 1..Size
      BY <1>2, <1>4
    <3> QED
      BY <1>2, <1>3, <1>6, <2>1, <2>2, <3>1, <3>2 DEF JobInv, SuiteInv, Copies, Absent
  <2>6. Works'
    BY <1>2, <1>3, <1>4, <2>1, <2>2 DEF Works
  <2>7. Anchoring'
    BY <1>3, <1>4, <2>1 DEF Anchoring
  <2> QED
    BY <2>3, <2>4, <2>5, <2>6, <2>7 DEF SuiteInv
<1> QED
  BY <1>7, <1>8

\* A node follows the one that is written to.
LEMMA PropagateInv == ASSUME JobInv, Propagate, UNCHANGED scriptVars PROVE SuiteInv'
<1> USE DEF scriptVars, testVars
<1>1. suite \in Tests /\ UNCHANGED <<env, script, table, suite, group, idx, doc, failed, indexed, anchored, stored>>
  BY DEF Propagate
<1>2. /\ Size \in Nat \ {0} /\ Size <= Cardinality(Nodes) /\ Cardinality(Nodes) \in Nat
      /\ group \in 1..Size /\ idx \in 1..Size
      /\ env.urls \in [1..Size -> Nodes]
      /\ \A i, j \in 1..Size : env.urls[i] = env.urls[j] => i = j
  BY <1>1, InTests
<1>3. First = env.urls[group] /\ First \in Nodes /\ Follower(group, idx) \in Nodes
  BY <1>1, OrderIs
<1>4. PICK n \in indexed : \E step \in (held[First][n] + 1)..held[First][First] :
        held' = [held EXCEPT ![First][n] = step]
  BY DEF Propagate
<1>5. PICK step \in (held[First][n] + 1)..held[First][First] : held' = [held EXCEPT ![First][n] = step]
  BY <1>4
<1>6. n \in Nodes /\ held \in [Nodes -> [Nodes -> Steps]]
  BY DEF JobInv, SuiteInv, SuiteTypes
<1>7. \A s, m \in Nodes : held[s][m] \in Int /\ held[s][m] <= held[s][s] /\ held[s][m] \in Steps
  <2> SUFFICES ASSUME NEW s \in Nodes, NEW m \in Nodes
               PROVE  held[s][m] \in Int /\ held[s][m] <= held[s][s] /\ held[s][m] \in Steps
    OBVIOUS
  <2>1. held[s][m] \in Steps
    BY <1>6
  <2> QED
    BY <2>1, StepsType DEF JobInv, SuiteInv, Copies
<1>8. n # First /\ held[First][n] < step /\ step <= held[First][First] /\ step \in Int
  BY <1>3, <1>5, <1>6, <1>7
<1>9. step \in Steps
  <2>1. held[First][n] \in -1..Cardinality(Nodes) /\ held[First][First] \in -1..Cardinality(Nodes)
    BY <1>3, <1>6, <1>7 DEF Steps
  <2> QED
    BY <1>2, <1>8, <2>1 DEF Steps
<1>10. /\ held' \in [Nodes -> [Nodes -> Steps]] /\ held'[First][n] = step
       /\ \A s, m \in Nodes : s # First \/ m # n => held'[s][m] = held[s][m]
       /\ \A s \in Nodes : s # First => held'[s] = held[s]
  BY <1>3, <1>5, <1>6, <1>9
<1>11. Grown
  <2>1. ASSUME NEW s \in Nodes, NEW m \in Nodes
        PROVE  held[s][m] <= held'[s][m] /\ held'[s][m] <= held'[s][s]
    <3>1. held'[s][s] = held[s][s]
      BY <1>8, <1>10
    <3>2. CASE s = First /\ m = n
      BY <1>6, <1>7, <1>8, <1>10, <3>1, <3>2
    <3>3. CASE s # First \/ m # n
      BY <1>7, <1>10, <3>1, <3>3
    <3> QED
      BY <3>2, <3>3
  <2>2. held'[First][First] <= idx
    BY <1>1, <1>3, <1>8, <1>10 DEF JobInv, SuiteInv, Copies
  <2> QED
    BY <1>3, <1>10, <2>1, <2>2 DEF Grown
<1>12. /\ \A s, m \in Nodes : /\ held[s][m] \in Int /\ held'[s][m] \in Int
                              /\ held'[s][m] <= held'[s][s] /\ held'[s][s] <= Size
       /\ \A g \in 1..Size : g > group => \A m \in Nodes : held'[env.urls[g]][m] = Absent
       /\ \A g, i \in 1..Size : Tested(g, i) => held'[env.urls[g]][Follower(g, i)] >= i
       /\ \A s \in stored : \E m \in Nodes \ {s} : held'[s][m] = Size
  BY <1>1, <1>11, GrownCopies
<1>13. UNCHANGED Size /\ \A g, i \in 1..Size : Follower(g, i)' = Follower(g, i)
  BY <1>1 DEF Size, Follower, Place
<1>14. SuiteTypes'
  BY <1>1, <1>10 DEF JobInv, SuiteInv, SuiteTypes
<1>15. SetUp'
  BY <1>1, <1>13 DEF JobInv, SuiteInv, SetUp
<1>16. Copies'
  <2>1. suite # "create"
    <3>1. suite = "create" => held[First][First] = Absent /\ held[First][n] = Absent
      BY <1>2, <1>3, <1>6, <1>1 DEF JobInv, SuiteInv, Copies
    <3> QED
      BY <1>7, <1>8, <1>3, <3>1 DEF Absent
  <2>2. held'[env.urls[group]][env.urls[group]] <= idx
    BY <1>11 DEF Grown
  <2>3. suite \notin Early \cup Indexing
    BY <1>1 DEF Early, Indexing, Tests, LoadTest, SyncTest
  <2> QED
    BY <1>1, <1>12, <1>13, <2>1, <2>2, <2>3 DEF Copies
<1>17. Works'
  <2>1. suite # "ended"
    BY <1>1 DEF Tests, LoadTest, SyncTest
  <2> QED
    BY <1>1, <1>12, <1>13, <2>1 DEF JobInv, SuiteInv, Works, Tested
<1>18. Anchoring'
  <2>1. suite = "store" => held'[env.urls[group]][Follower(group, idx)] = Size
    <3> SUFFICES ASSUME suite = "store" PROVE held'[env.urls[group]][Follower(group, idx)] = Size
      OBVIOUS
    <3>1. idx = Size /\ held[env.urls[group]][Follower(group, idx)] = Size
      BY DEF JobInv, SuiteInv, Anchoring
    <3>2. Tested(group, idx)
      BY <1>2, <3>1 DEF Tested
    <3>3. held'[env.urls[group]][Follower(group, idx)] >= Size
      BY <1>2, <1>12, <3>1, <3>2
    <3>4. /\ held'[First][Follower(group, idx)] <= held'[First][First]
          /\ held'[First][First] <= Size
          /\ held'[First][Follower(group, idx)] \in Int
          /\ held'[First][First] \in Int
      BY <1>3, <1>12
    <3>5. held'[First][Follower(group, idx)] >= Size
      BY <1>3, <3>3
    <3>6. held'[First][Follower(group, idx)] = Size
      <4> HIDE DEF First, Follower, Size
      <4> QED
        BY <1>2, <3>4, <3>5
    <3> QED
      BY <1>3, <3>6
  <2>2. Follower(group, idx)' = Follower(group, idx)
    BY <1>1, <1>2, <1>13 DEF Follower, Place
  <2> QED
    BY <1>1, <1>12, <1>13, <2>1, <2>2 DEF JobInv, SuiteInv, Anchoring
<1> QED
  BY <1>14, <1>15, <1>16, <1>17, <1>18 DEF SuiteInv

LEMMA DisturbanceInv == ASSUME JobInv, Disturbance, UNCHANGED scriptVars PROVE SuiteInv'
<1>1. CASE Timeout
  <2>1. CASE suite \in {"loadModel", "waitIndexed"} /\ End(TRUE)
    <3>1. suite \in BeforeAll
      BY <2>1 DEF BeforeAll
    <3> QED
      BY <2>1, <3>1, InBeforeAll, EndInv
  <2>2. CASE suite \in {"load", "waitLoad", "waitSync"} /\ EndTest(FALSE) /\ UNCHANGED <<table, nodeVars>>
    <3>1. suite \in Tests
      BY <2>2 DEF Tests, LoadTest, SyncTest
    <3> QED
      BY <2>2, <3>1, FailsInv
  <2> QED
    BY <1>1, <2>1, <2>2 DEF Timeout
<1>2. CASE HookTimeout
  <2>1. suite \in BeforeAll /\ End(TRUE)
    BY <1>2 DEF HookTimeout
  <2> QED
    BY <2>1, InBeforeAll, EndInv
<1>3. CASE Refused
  <2>1. CASE suite = "describe" /\ GoTo("createTable")
    BY <2>1, DescribeInv
  <2>2. CASE suite = "createTable" /\ GoTo("describe")
    BY <2>2, DescribeInv
  <2>3. CASE suite \in {"createModel", "startIndexing", "waitIndexed"} /\ End(TRUE)
    <3>1. suite \in BeforeAll
      BY <2>3 DEF BeforeAll
    <3> QED
      BY <2>3, <3>1, InBeforeAll, EndInv
  <2>4. CASE suite \in {"create", "update", "replace", "compareLoad", "compareSync", "store"}
               /\ EndTest(FALSE) /\ UNCHANGED <<table, nodeVars>>
    <3>1. suite \in Tests
      BY <2>4 DEF Tests, LoadTest, SyncTest
    <3> QED
      BY <2>4, <3>1, FailsInv
  <2> QED
    BY <1>3, <2>1, <2>2, <2>3, <2>4 DEF Refused
<1> QED
  BY <1>1, <1>2, <1>3 DEF Disturbance

LEMMA SurroundingsInv == ASSUME JobInv, Surroundings, UNCHANGED scriptVars PROVE SuiteInv'
<1>1. CASE OtherRunCreates \/ TableReady
  <2>1. /\ UNCHANGED <<testVars, nodeVars>> /\ UNCHANGED suite
        /\ table' \in {"creating", "active"} /\ table # "active"
    BY <1>1 DEF OtherRunCreates, TableReady
  <2> QED
    BY <2>1, TableInv
<1>2. CASE Propagate
  BY <1>2, PropagateInv
<1> QED
  BY <1>1, <1>2 DEF Surroundings

LEMMA SuiteStepInv == ASSUME JobInv, Suite, UNCHANGED scriptVars PROVE SuiteInv'
<1>1. CASE DescribeTable
  <2>1. PICK next \in {"describe", "createTable", "checkSeeds"} :
          GoTo(next) /\ (next = "checkSeeds" => table = "active")
    BY <1>1 DEF DescribeTable, JobInv, SuiteInv, SuiteTypes
  <2> QED
    BY <1>1, <2>1, DescribeInv DEF DescribeTable
<1>2. CASE CreateTable
  <2>1. /\ suite = "createTable" /\ suite' = "describe" /\ UNCHANGED <<testVars, nodeVars>>
        /\ table' \in {"creating", "active"} /\ (table = "active" => table' = "active")
    BY <1>2 DEF CreateTable, JobInv, SuiteInv, SuiteTypes
  <2> QED
    BY <2>1, TableInv
<1> QED
  BY <1>1, <1>2, StartSuiteInv, CheckSeedsInv, CreateModelInv, LoadModelInv, StartIndexingInv,
     WaitForIndexingInv, CreateInv, UpdateInv, LoadInv, ReplaceInv, WaitForConditionInv,
     CompareInv, StoreInv, UndefinedInv DEF Suite

\* While the script runs the suite has not started.
LEMMA ScriptStepInv ==
  ASSUME JobInv, ScriptInv', UNCHANGED suiteVars, suite = "init" \/ UNCHANGED scriptVars
  PROVE  SuiteInv'
<1> USE DEF suiteVars, testVars, nodeVars
<1>1. CASE UNCHANGED scriptVars
  <2>1. UNCHANGED <<env, script>> /\ UNCHANGED Size
        /\ \A g, i \in 1..Size : Follower(g, i)' = Follower(g, i)
    BY <1>1 DEF scriptVars, Size, Follower, Place
  <2>2. Follower(group, idx)' = Follower(group, idx)
    BY <2>1 DEF Follower, Place
  <2> QED
    BY <2>1, <2>2 DEF JobInv, SuiteInv, SuiteTypes, SetUp, Copies, Works, Tested, Anchoring
<1>2. CASE suite = "init"
  <2>1. suite' = "init" /\ suite' \in Early /\ suite' \notin BeforeAll \cup Tests \cup Indexing
    BY <1>2 DEF Early, BeforeAll, Tests, LoadTest, SyncTest, Indexing
  <2>2. group = 1 /\ idx = 1 /\ suite \in Early
    BY <1>2 DEF JobInv, SuiteInv, SetUp, Early
  <2>3. anchored = {} /\ stored = {}
    <3>1. anchored = {}
      BY <1>2, <2>2 DEF JobInv, SuiteInv, Anchoring
    <3> QED
      BY <3>1 DEF JobInv, SuiteInv, Anchoring
  <2>4. Size' \in Nat /\ env'.urls \in Seq(Nodes)
    BY DEF ScriptInv, ScriptTypes, Size
  <2>5. SuiteTypes'
    <3>1. 1 \in 1..Length(env'.urls)
      BY <2>4 DEF Length, Size
    <3> QED
      BY <2>2, <3>1 DEF JobInv, SuiteInv, SuiteTypes
  <2>6. SetUp'
    BY <2>1, <2>2 DEF SetUp, BeforeAll, Tests, LoadTest, SyncTest, Indexing
  <2>7. Copies'
    <3>1. \A s, n \in Nodes : held'[s][n] = Absent
      BY <2>2 DEF JobInv, SuiteInv, Copies
    <3> QED
      BY <2>1, <2>4, <3>1 DEF Copies, Absent
  <2>8. Works' /\ Anchoring'
    BY <2>1, <2>3 DEF Works, Anchoring
  <2> QED
    BY <2>5, <2>6, <2>7, <2>8 DEF SuiteInv
<1> QED
  BY <1>1, <1>2

-----------------------------------------------------------------------------
LEMMA InitJob == Init => JobInv
<1> SUFFICES ASSUME Init PROVE JobInv
  OBVIOUS
<1>1. ScriptInv
  BY InitScriptInv
<1>2. env.urls = <<>> /\ Size = 0 /\ Length(env.urls) = 1
  BY DEF Init, ScriptInit, NoEnv, Size, Length
<1>3. SuiteTypes
  <2>1. held \in [Nodes -> [Nodes -> Steps]] /\ doc \in Steps
    BY StepsType DEF Init
  <2>2. suite = "init" /\ table = "absent" /\ failed \in BOOLEAN
    BY DEF Init
  <2>3. group \in 1..Length(env.urls) /\ idx \in 1..Length(env.urls)
    BY <1>2 DEF Init
  <2>4. indexed \subseteq Nodes /\ anchored \subseteq Nodes /\ stored \subseteq Nodes
    BY DEF Init
  <2> QED
    BY <2>1, <2>2, <2>3, <2>4 DEF SuiteTypes
<1>4. SetUp
  BY DEF Init, SetUp, Tests, LoadTest, SyncTest, Indexing, BeforeAll
<1>5. Copies
  BY <1>2 DEF Init, Copies, Absent, Tests, LoadTest, SyncTest
<1>6. Works /\ Anchoring
  BY DEF Init, Works, Anchoring, Tests, LoadTest, SyncTest
<1> QED
  BY <1>1, <1>3, <1>4, <1>5, <1>6 DEF JobInv, SuiteInv

LEMMA NextJob == JobInv /\ [Next]_vars => JobInv'
<1> SUFFICES ASSUME JobInv, [Next]_vars PROVE JobInv'
  OBVIOUS
<1>1. ScriptInv'
  BY ScriptNext DEF JobInv
<1>2. CASE (PeerJoins \/ FileAppears) /\ UNCHANGED <<scriptVars, suiteVars>>
  BY <1>1, <1>2, ScriptStepInv DEF JobInv
<1>3. CASE Script /\ UNCHANGED <<peerVars, suiteVars>>
  <2>1. script \notin {"done", "failed"}
    BY <1>3 DEF Script, LookAgain, Count, ReadCeramicUrls, ReadComposeDbUrls, NoPeers
  <2>2. suite = "init"
    BY <2>1 DEF JobInv, SuiteInv, SetUp
  <2> QED
    BY <1>1, <1>3, <2>2, ScriptStepInv DEF JobInv
<1>4. CASE (Suite \/ Disturbance \/ Surroundings) /\ UNCHANGED <<peerVars, scriptVars>>
  BY <1>1, <1>4, SuiteStepInv, DisturbanceInv, SurroundingsInv DEF JobInv
<1>5. CASE UNCHANGED vars
  BY <1>1, <1>5, ScriptStepInv DEF JobInv, vars
<1> QED
  BY <1>2, <1>3, <1>4, <1>5 DEF Next

LEMMA JobInvariant == Spec => []JobInv
BY InitJob, NextJob, PTL DEF Spec

\* Script, suite and nodes stay within their types, for any number of nodes and
\* peers and whatever disturbs the job (process-peers.sh, update.test.ts).
THEOREM TypeCorrect == Spec => []TypeOK
<1>1. JobInv => TypeOK
  BY DEF JobInv, ScriptInv, ScriptTypes, SuiteInv, SuiteTypes, TypeOK
<1> QED
  BY <1>1, JobInvariant, PTL

LEMMA Modulo ==
  ASSUME NEW n \in Nat \ {0}, NEW g \in 1..n, NEW i \in 1..n
  PROVE  1 + ((g + i - 2) % n) = IF g + i - 1 <= n THEN g + i - 1 ELSE g + i - 1 - n
<1>1. ASSUME NEW a \in Nat, a < n PROVE a % n = a
  BY <1>1
<1>2. ASSUME NEW a \in Nat, a >= n, a < 2 * n PROVE a % n = a - n
  BY <1>2
<1> DEFINE a == g + i - 2
<1>3. a \in Nat /\ a < 2 * n /\ (g + i - 1 <= n <=> a < n)
  OBVIOUS
<1>4. a % n = IF a < n THEN a ELSE a - n
  <2> HIDE DEF a
  <2> QED
    BY <1>1, <1>2, <1>3
<1> QED
  BY <1>3, <1>4

\* A job that passes has tested every node that was counted, as the first one
\* and as the follower of each other, however the peers file changed between
\* the reads of the script and whatever disturbed the suite
\* (process-peers.sh, update.test.ts:29-50).
THEOREM PassesOnlyThorough == Spec => []PassedIsThorough
<1>1. ASSUME JobInv PROVE PassedIsThorough
  <2> SUFFICES ASSUME suite = "ended", ~failed
               PROVE  /\ env.urls # <<>>
                      /\ counted \cap Nodes \subseteq Range(env.urls)
                      /\ Range(env.urls) \subseteq indexed
                      /\ table = "active"
                      /\ \A g, i \in 1..Len(env.urls) :
                           held[env.urls[g]][env.urls[1 + ((g + i - 2) % Len(env.urls))]] >= i
    BY DEF PassedIsThorough
  <2>1. /\ script = "done" /\ Size # 0 /\ table = "active"
        /\ \A j \in 1..Size : env.urls[j] \in indexed
        /\ \A g, i \in 1..Size : Tested(g, i)
    BY <1>1 DEF JobInv, SuiteInv, Works
  <2>2. env.urls \in Seq(Nodes)
    BY <1>1 DEF JobInv, ScriptInv, ScriptTypes
  <2>3. env.urls # <<>> /\ Size \in Nat \ {0}
    BY <2>1, <2>2 DEF Size
  <2>4. counted \cap Nodes \subseteq Range(env.urls)
    BY <1>1, <2>1 DEF JobInv, ScriptInv, Listed
  <2>5. Range(env.urls) \subseteq indexed
    BY <2>1, <2>2 DEF Range, Size
  <2>6. ASSUME NEW g \in 1..Len(env.urls), NEW i \in 1..Len(env.urls)
        PROVE  held[env.urls[g]][env.urls[1 + ((g + i - 2) % Len(env.urls))]] >= i
    <3>1. 1 + ((g + i - 2) % Len(env.urls)) = Place(g, i)
      BY <2>3, Modulo, Zenon DEF Place, Size
    <3> QED
      BY <2>1, <3>1 DEF Tested, Follower, Size
  <2> QED
    BY <2>1, <2>3, <2>4, <2>5, <2>6
<1> QED
  BY <1>1, JobInvariant, PTL

\* A record is stored only of a stream whose anchor was requested and whose last
\* update its last follower has (update.test.ts:125-138).
THEOREM StoresOnlyFinished == Spec => []StoredIsFinished
<1>1. JobInv => StoredIsFinished
  BY DEF JobInv, SuiteInv, Anchoring, StoredIsFinished, Size
<1> QED
  BY <1>1, JobInvariant, PTL

\* After its anchor has been requested a stream is not written again
\* (update.test.ts:119).
THEOREM WritesEndAtAnchor == Spec => NoWriteAfterAnchor
<1>1. ASSUME JobInv, [Next]_vars
      PROVE  [\A s \in anchored : held'[s][s] = held[s][s]]_vars
  <2> SUFFICES ASSUME Next, NEW s \in anchored PROVE held'[s][s] = held[s][s]
    BY <1>1
  <2>1. UNCHANGED held \/ Create \/ Update \/ Replace \/ Propagate
    BY DEF Next, Suite, Disturbance, Surroundings, StartSuite, GoTo, End, DescribeTable, CreateTable,
           CheckSeeds, CreateModel, LoadModel, StartIndexing, WaitForIndexing, Load, WaitForCondition,
           Compare, StoreStreamReq, Undefined, Timeout, HookTimeout, Refused, OtherRunCreates,
           TableReady, suiteVars, nodeVars
  <2>2. s \in Nodes /\ held \in [Nodes -> [Nodes -> Steps]]
    BY <1>1 DEF JobInv, SuiteInv, SuiteTypes
  <2>3. CASE Create \/ Update \/ Replace
    <3>1. suite \in {"create", "update", "replace"} /\ suite \in Tests
      BY <2>3 DEF Create, Update, Replace, Tests, SyncTest
    <3>2. /\ First = env.urls[group] /\ First \in Nodes
          /\ group \in 1..Size /\ Size \in Nat
          /\ \A i, j \in 1..Size : env.urls[i] = env.urls[j] => i = j
      BY <1>1, <3>1, OrderIs, InTests
    <3>3. PICK g \in 1..Size : g < group /\ s = env.urls[g]
      BY <1>1, <3>1 DEF JobInv, SuiteInv, Anchoring
    <3>4. s # First
      BY <3>2, <3>3
    <3>5. \E v : held' = [held EXCEPT ![First][First] = v]
      BY <2>3 DEF Create, Update, Replace
    <3> QED
      BY <2>2, <3>4, <3>5
  <2>4. CASE Propagate
    <3>1. suite \in Tests
      BY <2>4 DEF Propagate
    <3>2. First \in Nodes
      BY <1>1, <3>1, OrderIs
    <3>3. PICK n \in indexed : \E step \in (held[First][n] + 1)..held[First][First] :
            held' = [held EXCEPT ![First][n] = step]
      BY <2>4 DEF Propagate
    <3>4. n # First
      <4>1. held[First][First] \in Int
        BY <2>2, <3>2, StepsType
      <4>2. (held[First][n] + 1)..held[First][First] # {}
        BY <3>3
      <4> QED
        BY <4>1, <4>2
    <3>5. n \in Nodes
      BY <1>1 DEF JobInv, SuiteInv, SuiteTypes
    <3> QED
      BY <2>2, <3>2, <3>3, <3>4, <3>5
  <2> QED
    BY <2>1, <2>3, <2>4
<1> QED
  BY <1>1, JobInvariant, PTL DEF Spec, NoWriteAfterAnchor

-----------------------------------------------------------------------------
(* The refinement: the job's streams are anchored streams.                 *)

\* Before a write the stream has less than what is written next.
Unwritten ==
  suite \in {"create", "update", "replace"} \cup LoadTest =>
    held[env.urls[group]][env.urls[group]] < idx

\* How a test ends, but for what it leaves in doc and failed.
LEMMA TestMoves ==
  ASSUME NEW ok \in BOOLEAN, EndTest(ok)
  PROVE  \/ suite = "create" /\ Move("update", group, idx)
         \/ suite \in LoadTest /\ Move("replace", group, idx)
         \/ /\ suite \notin {"create"} \cup LoadTest
            /\ IF idx < Size THEN Move("load", group, idx + 1) ELSE NextGroup
<1>1. CASE suite = "create"
  BY <1>1, Zenon DEF EndTest, LoadTest
<1>2. CASE suite # "create" /\ suite \in LoadTest
  BY <1>2, Zenon DEF EndTest
<1>3. CASE suite # "create" /\ suite \notin LoadTest
  BY <1>3, Zenon DEF EndTest, Size
<1> QED
  BY <1>1, <1>2, <1>3

LEMMA EndTestUnwritten ==
  ASSUME JobInv, JobInv', Unwritten, UNCHANGED scriptVars, suite \in Tests,
         NEW ok \in BOOLEAN, EndTest(ok),
         suite # "create" => UNCHANGED held,
         suite = "create" => held'[env.urls[group]][env.urls[group]] <= 0
  PROVE  Unwritten'
<1>0. UNCHANGED env /\ UNCHANGED Size
  BY DEF scriptVars, Size
<1>1. /\ Size \in Nat /\ group \in 1..Size /\ idx \in 1..Size
      /\ env.urls \in [1..Size -> Nodes]
  BY InTests
<1>2. held \in [Nodes -> [Nodes -> Steps]] /\ Steps \subseteq Int
  BY StepsType DEF JobInv, SuiteInv, SuiteTypes
<1>3. held[env.urls[group]][env.urls[group]] \in Int
  BY <1>1, <1>2
<1>4. held[env.urls[group]][env.urls[group]] <= idx
  BY DEF JobInv, SuiteInv, Copies
<1>5. CASE suite = "create" /\ Move("update", group, idx)
  <2>1. idx = 1 /\ suite' = "update" /\ group' = group /\ idx' = idx
    BY <1>5 DEF Move, JobInv, SuiteInv, SetUp
  <2>2. held'[env.urls[group]][env.urls[group]] \in Int
    <3>1. held' \in [Nodes -> [Nodes -> Steps]]
      BY DEF JobInv, SuiteInv, SuiteTypes, Steps
    <3> QED
      BY <1>1, <1>2, <3>1
  <2> QED
    BY <1>0, <1>5, <2>1, <2>2 DEF Unwritten
<1>6. CASE suite \in LoadTest /\ Move("replace", group, idx)
  <2>1. suite # "create"
    BY <1>6 DEF LoadTest
  <2> QED
    BY <1>0, <1>6, <2>1 DEF Move, Unwritten
<1>7. CASE suite # "create" /\ Move("load", group, idx + 1)
  BY <1>0, <1>1, <1>3, <1>4, <1>7 DEF Move, Unwritten
<1>8. CASE NextGroup
  <2>1. suite' = "ended" \/ (suite' = "create" /\ idx' = 1)
    BY <1>8 DEF NextGroup, Move
  <2>2. CASE suite' = "create"
    <3>1. suite' \in Tests /\ suite' # "ended"
      BY <2>2 DEF Tests
    <3>2. group' \in 1..Size /\ env.urls[group'] \in Nodes
      <4>1. group' \in 1..Size
        BY <1>1, <1>8, <2>2 DEF NextGroup, Move, Size
      <4> QED
        BY <1>1, <4>1
    <3>3. held'[env.urls[group']][env.urls[group']] = Absent
      BY <1>0, <2>2, <3>1, <3>2 DEF JobInv, SuiteInv, Copies
    <3> QED
      BY <1>0, <2>1, <3>1, <3>3 DEF Unwritten, Absent
  <2>3. CASE suite' = "ended"
    BY <2>3 DEF Unwritten, LoadTest
  <2> QED
    BY <2>1, <2>2, <2>3
<1> QED
  BY <1>5, <1>6, <1>7, <1>8, TestMoves DEF LoadTest

\* What a step can do to the streams.
StreamStep ==
  \/ UNCHANGED <<held, anchored, stored>>
  \/ \E v \in 0..Cardinality(Nodes) :
       /\ v > held[First][First] /\ First \notin anchored
       /\ held' = [held EXCEPT ![First][First] = v]
       /\ anchored' \in {anchored, anchored \cup {First}}
       /\ UNCHANGED stored
  \/ \E n \in Nodes \ {First} : \E v \in 0..Cardinality(Nodes) :
       /\ held[First][n] < v /\ v <= held[First][First]
       /\ held' = [held EXCEPT ![First][n] = v]
       /\ UNCHANGED <<anchored, stored>>
  \/ /\ First \in anchored
     /\ \E n \in Nodes \ {First} : held[First][n] = held[First][First]
     /\ stored' = stored \cup {First}
     /\ UNCHANGED <<held, anchored>>

LEMMA MapsToStreams ==
  ASSUME StreamStep, First \in Nodes \/ UNCHANGED <<held, anchored, stored>>
  PROVE  [Streams!Next]_(Streams!vars)
<1>1. CASE UNCHANGED <<held, anchored, stored>>
  BY <1>1 DEF Streams!vars
<1>2. CASE /\ First \in Nodes
           /\ \E v \in 0..Cardinality(Nodes) :
                 /\ v > held[First][First] /\ First \notin anchored
                 /\ held' = [held EXCEPT ![First][First] = v]
                 /\ anchored' \in {anchored, anchored \cup {First}}
                 /\ UNCHANGED stored
  <2>1. Streams!New(First) /\ anchored' \in {anchored, anchored \cup {First}}
    BY <1>2, Zenon DEF Streams!New
  <2> HIDE DEF First
  <2>2. Streams!Write(First) \/ Streams!WriteLast(First)
    BY <2>1 DEF Streams!Write, Streams!WriteLast
  <2> QED
    BY <1>2, <2>2 DEF Streams!Next
<1>3. CASE /\ First \in Nodes
           /\ \E n \in Nodes \ {First} : \E v \in 0..Cardinality(Nodes) :
                 /\ held[First][n] < v /\ v <= held[First][First]
                 /\ held' = [held EXCEPT ![First][n] = v]
                 /\ UNCHANGED <<anchored, stored>>
  <2>1. PICK n \in Nodes \ {First} : \E v \in 0..Cardinality(Nodes) :
           /\ held[First][n] < v /\ v <= held[First][First]
           /\ held' = [held EXCEPT ![First][n] = v]
           /\ UNCHANGED <<anchored, stored>>
    BY <1>3
  <2>2. Streams!Follow(First, n)
    BY <2>1, Zenon DEF Streams!Follow
  <2> HIDE DEF First
  <2> QED
    BY <1>3, <2>2 DEF Streams!Next
<1>4. CASE /\ First \in Nodes /\ First \in anchored
           /\ \E n \in Nodes \ {First} : held[First][n] = held[First][First]
           /\ stored' = stored \cup {First}
           /\ UNCHANGED <<held, anchored>>
  <2>1. Streams!Record(First)
    BY <1>4, Zenon DEF Streams!Record
  <2> HIDE DEF First
  <2> QED
    BY <1>4, <2>1 DEF Streams!Next
<1> QED
  BY <1>1, <1>2, <1>3, <1>4 DEF StreamStep

\* The three writes.
LEMMA WritesAreNew ==
  ASSUME JobInv, Unwritten, Create \/ Update \/ Replace
  PROVE  StreamStep /\ First \in Nodes
<1>1. suite \in {"create", "update", "replace"} /\ suite \in Tests
  BY DEF Create, Update, Replace, Tests, SyncTest
<1>2. /\ Size \in Nat \ {0} /\ Size <= Cardinality(Nodes) /\ Cardinality(Nodes) \in Nat
      /\ group \in 1..Size /\ idx \in 1..Size
      /\ \A i, j \in 1..Size : env.urls[i] = env.urls[j] => i = j
  BY <1>1, InTests
<1>3. First = env.urls[group] /\ First \in Nodes
  BY <1>1, OrderIs
<1>4. Step = (IF suite = "create" THEN 0 ELSE idx) /\ Step \in 0..Cardinality(Nodes)
  BY <1>1, <1>2 DEF Step, LoadTest
<1>5. held[First][First] < Step
  <2>1. CASE suite = "create"
    <3>1. held[First][First] = Absent
      BY <1>1, <1>2, <1>3, <2>1 DEF JobInv, SuiteInv, Copies
    <3> QED
      BY <1>4, <2>1, <3>1 DEF Absent
  <2>2. CASE suite # "create"
    BY <1>1, <1>3, <1>4, <2>2 DEF Unwritten
  <2> QED
    BY <2>1, <2>2
<1>6. First \notin anchored
  <2> SUFFICES ASSUME First \in anchored PROVE FALSE
    OBVIOUS
  <2>1. PICK g \in 1..Size : g < group /\ First = env.urls[g]
    BY <1>1, <1>3 DEF JobInv, SuiteInv, Anchoring
  <2>2. g = group
    BY <1>2, <1>3, <2>1, Zenon
  <2> QED
    BY <1>2, <2>1, <2>2
<1>7. /\ held' = [held EXCEPT ![First][First] = Step]
      /\ anchored' \in {anchored, anchored \cup {First}} /\ stored' = stored
  <2>1. CASE Create
    BY <1>4, <2>1 DEF Create
  <2>2. CASE Update
    BY <2>2 DEF Update
  <2>3. CASE Replace
    BY <2>3 DEF Replace
  <2> QED
    BY <2>1, <2>2, <2>3
<1>8. Step > held[First][First]
  <2>1. held[First][First] \in Int
    BY <1>3, StepsType DEF JobInv, SuiteInv, SuiteTypes
  <2> HIDE DEF First, Step
  <2> QED
    BY <1>4, <1>5, <2>1
<1> QED
  BY <1>3, <1>4, <1>6, <1>7, <1>8, Zenon DEF StreamStep

LEMMA FollowersFollow ==
  ASSUME JobInv, Propagate
  PROVE  StreamStep /\ First \in Nodes
<1>1. suite \in Tests
  BY DEF Propagate
<1>2. First \in Nodes /\ Cardinality(Nodes) \in Nat
  BY <1>1, OrderIs, InTests
<1>3. PICK n \in indexed : \E step \in (held[First][n] + 1)..held[First][First] :
        held' = [held EXCEPT ![First][n] = step]
  BY DEF Propagate
<1>4. PICK v \in (held[First][n] + 1)..held[First][First] : held' = [held EXCEPT ![First][n] = v]
  BY <1>3
<1>5. n \in Nodes
  BY DEF JobInv, SuiteInv, SuiteTypes
<1>6. held[First][n] \in -1..Cardinality(Nodes) /\ held[First][First] \in -1..Cardinality(Nodes)
  BY <1>2, <1>5 DEF JobInv, SuiteInv, SuiteTypes, Steps
<1>7. v \in 0..Cardinality(Nodes) /\ held[First][n] < v /\ v <= held[First][First]
  <2> HIDE DEF First
  <2> QED
    BY <1>2, <1>4, <1>6
<1>8. n # First
  <2> HIDE DEF First
  <2> QED
    BY <1>6, <1>7
<1>9. UNCHANGED <<anchored, stored>>
  BY DEF Propagate
<1> QED
  BY <1>2, <1>4, <1>5, <1>7, <1>8, <1>9, Zenon DEF StreamStep

LEMMA RecordsAreOfTheFinished ==
  ASSUME JobInv, StoreStreamReq
  PROVE  StreamStep /\ First \in Nodes
<1>1. suite = "store" /\ suite \in Tests /\ suite \in SyncTest
  BY DEF StoreStreamReq, Tests, SyncTest
<1>2. /\ First = env.urls[group] /\ First \in Nodes /\ Follower(group, idx) \in Nodes
      /\ Follower(group, idx) # First
  BY <1>1, OrderIs DEF JobInv, SuiteInv, SetUp
<1>3. First \in anchored /\ held[First][Follower(group, idx)] = Size
  BY <1>1, <1>2 DEF JobInv, SuiteInv, Anchoring
<1>4. /\ held[First][Follower(group, idx)] <= held[First][First]
      /\ held[First][First] <= Size
  BY <1>2 DEF JobInv, SuiteInv, Copies
<1>5. held[First][First] \in Int /\ Size \in Nat
  <2>1. held \in [Nodes -> [Nodes -> Steps]] /\ Size \in Nat
    BY <1>1, InTests DEF JobInv, SuiteInv, SuiteTypes
  <2> HIDE DEF First, Size
  <2> QED
    BY <1>2, <2>1, StepsType
<1>6. held[First][Follower(group, idx)] = held[First][First]
  <2> HIDE DEF First, Follower, Size
  <2> QED
    BY <1>3, <1>4, <1>5
<1>7. stored' = stored \cup {First} /\ UNCHANGED <<held, anchored>>
  BY DEF StoreStreamReq
<1> QED
  BY <1>2, <1>3, <1>6, <1>7, Zenon DEF StreamStep

\* The steps that leave the streams as they are.
Elsewhere ==
  \/ StartSuite \/ DescribeTable \/ CreateTable \/ CheckSeeds \/ CreateModel
  \/ LoadModel \/ StartIndexing \/ WaitForIndexing
  \/ Load \/ WaitForCondition \/ Compare \/ Undefined
  \/ Disturbance \/ OtherRunCreates \/ TableReady

LEMMA StreamsElsewhere ==
  ASSUME Elsewhere
  PROVE  UNCHANGED <<held, anchored, stored>>
<1>1. CASE StartSuite \/ DescribeTable \/ CreateTable \/ CheckSeeds \/ CreateModel \/ LoadModel
  BY <1>1, Zenon DEF StartSuite, DescribeTable, CreateTable, CheckSeeds, CreateModel, LoadModel, GoTo,
                     End, nodeVars
<1>2. CASE StartIndexing \/ WaitForIndexing
  BY <1>2, Zenon DEF StartIndexing, WaitForIndexing, End, nodeVars
<1>3. CASE Load \/ WaitForCondition \/ Compare \/ Undefined
  BY <1>3, Zenon DEF Load, WaitForCondition, Compare, Undefined, nodeVars
<1>4. CASE Disturbance
  BY <1>4, Zenon DEF Disturbance, Timeout, HookTimeout, Refused, GoTo, End, nodeVars
<1>5. CASE OtherRunCreates \/ TableReady
  BY <1>5, Zenon DEF OtherRunCreates, TableReady, nodeVars
<1> QED
  BY <1>1, <1>2, <1>3, <1>4, <1>5 DEF Elsewhere
\* The ends of tests, apart from that of the creation.
LEMMA EndsUnwritten ==
  ASSUME JobInv, JobInv', Unwritten, UNCHANGED scriptVars, suite \in Tests,
         EndTest(TRUE) \/ EndTest(FALSE), UNCHANGED held
  PROVE  Unwritten'
<1>1. suite = "create" => held'[env.urls[group]][env.urls[group]] <= 0
  <2> SUFFICES ASSUME suite = "create" PROVE held[env.urls[group]][env.urls[group]] <= 0
    OBVIOUS
  <2>1. env.urls[group] \in Nodes /\ group \in 1..Size
    BY InTests
  <2>2. held[env.urls[group]][env.urls[group]] = Absent
    BY <2>1 DEF JobInv, SuiteInv, Copies, Tests
  <2> QED
    BY <2>2 DEF Absent
<1>2. PICK ok \in BOOLEAN : EndTest(ok)
  OBVIOUS
<1> QED
  BY <1>1, <1>2, EndTestUnwritten

\* The suite goes on within a test that reads.
LEMMA ReadsUnwritten ==
  ASSUME Unwritten, UNCHANGED scriptVars, UNCHANGED <<group, idx, held>>,
         suite \in LoadTest \/ suite' \notin {"create", "update", "replace"} \cup LoadTest
  PROVE  Unwritten'
BY DEF Unwritten, scriptVars

LEMMA SuiteUnwritten ==
  ASSUME JobInv, JobInv', Unwritten, UNCHANGED scriptVars, Suite
  PROVE  Unwritten'
<1> DEFINE Written == {"create", "update", "replace"} \cup LoadTest
<1>1. CASE StartSuite \/ DescribeTable \/ CreateTable \/ CheckSeeds \/ CreateModel \/ LoadModel \/ StartIndexing
  <2>1. suite' \in BeforeAll \cup {"ended"}
    BY <1>1 DEF StartSuite, DescribeTable, CreateTable, CheckSeeds, CreateModel, LoadModel, StartIndexing,
                GoTo, End, BeforeAll, JobInv, SuiteInv, SuiteTypes
  <2>2. suite' \notin Written
    BY <2>1 DEF BeforeAll, LoadTest
  <2> QED
    BY <2>2 DEF Unwritten
<1>2. CASE WaitForIndexing
  <2>1. CASE suite' # "create"
    <3>1. suite' \notin Written
      BY <1>2, <2>1 DEF WaitForIndexing, LoadTest
    <3> QED
      BY <3>1 DEF Unwritten
  <2>2. CASE suite' = "create"
    <3>1. /\ suite \in Indexing /\ suite' \in Tests /\ idx' = 1 /\ UNCHANGED <<env, group, held>>
      BY <1>2, <2>2 DEF WaitForIndexing, Indexing, Tests, scriptVars, nodeVars
    <3>2. group \in 1..Size /\ env.urls[group] \in Nodes /\ UNCHANGED Size
      BY <3>1, InTests DEF Size
    <3>3. held'[env.urls[group]][env.urls[group]] = Absent
      BY <2>2, <3>1, <3>2 DEF JobInv, SuiteInv, Copies
    <3> QED
      BY <3>1, <3>3 DEF Unwritten, Absent
  <2> QED
    BY <2>1, <2>2
<1>3. CASE Create
  <2>1. /\ suite = "create" /\ suite \in Tests /\ held' = [held EXCEPT ![First][First] = 0]
        /\ EndTest(TRUE)
    BY <1>3 DEF Create, Tests
  <2>2. First = env.urls[group] /\ First \in Nodes /\ held \in [Nodes -> [Nodes -> Steps]]
    BY <2>1, OrderIs DEF JobInv, SuiteInv, SuiteTypes
  <2>3. held'[env.urls[group]][env.urls[group]] <= 0
    BY <2>1, <2>2
  <2> QED
    BY <2>1, <2>3, EndTestUnwritten
<1>4. CASE Update
  <2>0. suite = "update" /\ suite \in Tests /\ EndTest(TRUE) /\ idx = 1
    BY <1>4 DEF Update, Tests, JobInv, SuiteInv, SetUp
  <2>1. IF idx < Size THEN Move("load", group, 2) ELSE NextGroup
    <3>1. suite \notin {"create"} \cup LoadTest
      BY <2>0 DEF LoadTest
    <3>2. IF idx < Size THEN Move("load", group, idx + 1) ELSE NextGroup
      BY <2>0, <3>1, TestMoves
    <3> QED
      BY <2>0, <3>2
  <2>2. suite' = "ended" \/ suite' \in {"load", "create"}
    BY <2>1 DEF NextGroup, Move
  <2>3. /\ Size \in Nat /\ group \in 1..Size /\ env.urls[group] \in Nodes /\ UNCHANGED <<env, Size>>
    BY <2>0, InTests DEF scriptVars, Size
  <2>4. CASE suite' = "load"
    <3>1. group' = group /\ idx' = 2
      BY <2>1, <2>4 DEF NextGroup, Move
    <3>2. held'[env.urls[group]][env.urls[group]] = 1
      <4>1. First = env.urls[group] /\ First \in Nodes /\ held \in [Nodes -> [Nodes -> Steps]]
        BY <2>0, OrderIs DEF JobInv, SuiteInv, SuiteTypes
      <4>2. held' = [held EXCEPT ![First][First] = 1]
        BY <1>4, <2>0 DEF Update, Step, LoadTest
      <4> QED
        BY <4>1, <4>2
    <3> QED
      BY <2>3, <3>1, <3>2 DEF Unwritten
  <2>5. CASE suite' = "create"
    <3>1. suite' \in Tests /\ idx' = 1 /\ group' \in 1..Size
      BY <2>1, <2>3, <2>5 DEF NextGroup, Move, Tests, Size
    <3>2. env.urls[group'] \in Nodes
      BY <2>0, <3>1, InTests
    <3>3. held'[env.urls[group']][env.urls[group']] = Absent
      BY <2>3, <2>5, <3>1, <3>2 DEF JobInv, SuiteInv, Copies
    <3> QED
      BY <2>3, <3>1, <3>3 DEF Unwritten, Absent
  <2>6. CASE suite' = "ended"
    BY <2>6 DEF Unwritten, LoadTest
  <2> QED
    BY <2>2, <2>4, <2>5, <2>6
<1>5. CASE Load
  <2>1. suite \in LoadTest /\ UNCHANGED <<group, idx, held>>
    BY <1>5, Zenon DEF Load, LoadTest, nodeVars
  <2> QED
    BY <2>1, ReadsUnwritten
<1>6. CASE Replace
  <2>1. suite' = "waitSync"
    BY <1>6 DEF Replace
  <2> QED
    BY <2>1 DEF Unwritten, LoadTest
<1>7. CASE WaitForCondition
  <2>1. suite \in LoadTest \/ suite' = "compareSync"
    BY <1>7 DEF WaitForCondition, LoadTest
  <2>2. UNCHANGED <<group, idx, held>>
    BY <1>7, Zenon DEF WaitForCondition, nodeVars
  <2> QED
    BY <2>1, <2>2, ReadsUnwritten DEF LoadTest
<1>8. CASE Compare
  <2>1. suite \in Tests /\ UNCHANGED held
    BY <1>8 DEF Compare, Tests, LoadTest, SyncTest, nodeVars
  <2>2. suite' = "store" \/ EndTest(held[First][Node] = Step)
    BY <1>8 DEF Compare
  <2>3. CASE suite' = "store"
    BY <2>3 DEF Unwritten, LoadTest
  <2>4. CASE EndTest(held[First][Node] = Step)
    <3>1. EndTest(TRUE) \/ EndTest(FALSE)
      BY <2>4
    <3> QED
      BY <2>1, <3>1, EndsUnwritten
  <2> QED
    BY <2>2, <2>3, <2>4
<1>9. CASE StoreStreamReq \/ Undefined
  <2>1. suite \in Tests /\ UNCHANGED held
    BY <1>9 DEF StoreStreamReq, Undefined, Tests, LoadTest, SyncTest, nodeVars
  <2>2. EndTest(TRUE) \/ EndTest(FALSE)
    BY <1>9, Zenon DEF StoreStreamReq, Undefined
  <2> QED
    BY <2>1, <2>2, EndsUnwritten
<1> QED
  BY <1>1, <1>2, <1>3, <1>4, <1>5, <1>6, <1>7, <1>8, <1>9 DEF Suite

LEMMA NextUnwritten == JobInv /\ JobInv' /\ Unwritten /\ [Next]_vars => Unwritten'
<1> SUFFICES ASSUME JobInv, JobInv', Unwritten, [Next]_vars PROVE Unwritten'
  OBVIOUS
<1>1. CASE Suite /\ UNCHANGED scriptVars
  BY <1>1, SuiteUnwritten
<1>2. CASE Disturbance /\ UNCHANGED scriptVars
  <2>1. UNCHANGED held
    BY <1>2, StreamsElsewhere DEF Elsewhere
  <2>2. \/ suite' \in {"ended", "createTable", "describe"}
        \/ suite \in Tests /\ EndTest(FALSE)
    BY <1>2 DEF Disturbance, Timeout, HookTimeout, Refused, End, GoTo, Tests, LoadTest, SyncTest
  <2>3. CASE suite' \in {"ended", "createTable", "describe"}
    BY <2>3 DEF Unwritten, LoadTest
  <2>4. CASE suite \in Tests /\ EndTest(FALSE)
    BY <1>2, <2>1, <2>4, EndsUnwritten
  <2> QED
    BY <2>2, <2>3, <2>4
<1>3. CASE (OtherRunCreates \/ TableReady) /\ UNCHANGED scriptVars
  <2>1. UNCHANGED <<suite, group, idx, held>>
    BY <1>3, Zenon DEF OtherRunCreates, TableReady, testVars, nodeVars
  <2> QED
    BY <1>3, <2>1 DEF Unwritten, scriptVars
<1>4. CASE Propagate /\ UNCHANGED scriptVars
  <2>1. suite \in Tests /\ UNCHANGED <<suite, group, idx, env>>
    BY <1>4, Zenon DEF Propagate, testVars, scriptVars
  <2>2. First = env.urls[group] /\ First \in Nodes /\ held \in [Nodes -> [Nodes -> Steps]]
    BY <2>1, OrderIs DEF JobInv, SuiteInv, SuiteTypes
  <2>3. PICK n \in indexed : \E step \in (held[First][n] + 1)..held[First][First] :
          held' = [held EXCEPT ![First][n] = step]
    BY <1>4 DEF Propagate
  <2>4. n # First
    <3>1. held[First][First] \in Int
      BY <2>2, StepsType
    <3>2. (held[First][n] + 1)..held[First][First] # {}
      BY <2>3
    <3> QED
      BY <3>1, <3>2
  <2>5. held'[First][First] = held[First][First]
    BY <2>2, <2>3, <2>4
  <2> QED
    BY <2>1, <2>2, <2>5 DEF Unwritten
<1>5. CASE Script /\ UNCHANGED <<peerVars, suiteVars>>
  <2>1. script \notin {"done", "failed"}
    BY <1>5 DEF Script, LookAgain, Count, ReadCeramicUrls, ReadComposeDbUrls, NoPeers
  <2>2. suite' = "init"
    BY <1>5, <2>1 DEF JobInv, SuiteInv, SetUp, suiteVars
  <2> QED
    BY <2>2 DEF Unwritten, LoadTest
<1>6. CASE UNCHANGED <<scriptVars, suiteVars>>
  BY <1>6 DEF Unwritten, scriptVars, suiteVars, testVars, nodeVars
<1> QED
  BY <1>1, <1>2, <1>3, <1>4, <1>5, <1>6 DEF Next, Surroundings, vars

\* For any number of nodes, and whatever is late, slow or refused: the streams of
\* a job are written on one node, with new content each time and never after the
\* anchor request, and recorded when another node has their last write.
THEOREM JobsWriteAnchoredStreams == Spec => ImplementsStream
<1>1. Init => Streams!Init
  BY DEF Init, Streams!Init, Absent, Streams!Nothing
<1>2. Init => Unwritten
  BY DEF Init, Unwritten, LoadTest
<1>3. JobInv /\ Unwritten /\ [Next]_vars => [Streams!Next]_(Streams!vars)
  <2> SUFFICES ASSUME JobInv, Unwritten, [Next]_vars PROVE [Streams!Next]_(Streams!vars)
    OBVIOUS
  <2>1. \/ UNCHANGED <<held, anchored, stored>> \/ Elsewhere
        \/ Create \/ Update \/ Replace \/ StoreStreamReq \/ Propagate
    BY Zenon DEF Next, Suite, Surroundings, Elsewhere, vars, suiteVars, nodeVars
  <2>2. CASE UNCHANGED <<held, anchored, stored>> \/ Elsewhere
    BY <2>2, StreamsElsewhere, MapsToStreams DEF StreamStep
  <2>3. CASE Create \/ Update \/ Replace
    BY <2>3, WritesAreNew, MapsToStreams
  <2>4. CASE StoreStreamReq
    BY <2>4, RecordsAreOfTheFinished, MapsToStreams
  <2>5. CASE Propagate
    BY <2>5, FollowersFollow, MapsToStreams
  <2> QED
    BY <2>1, <2>2, <2>3, <2>4, <2>5
<1> QED
  BY <1>1, <1>2, <1>3, JobInvariant, NextUnwritten, PTL DEF Spec, ImplementsStream, Streams!Spec
=============================================================================
