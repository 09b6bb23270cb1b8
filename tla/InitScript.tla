----------------------------- MODULE InitScript -----------------------------
(***************************************************************************)
(* hermetic/src/cli/process-peers.sh, the init container of the test job.  *)
(*                                                                         *)
(* The operator keeps the peers of the network in a config map, which the  *)
(* script reads as a file: three times, once to count the peers and once   *)
(* for each list of URLs.  A mounted config map follows its source, so the *)
(* file may change between two reads.  What the script writes is the       *)
(* environment of the suite (StreamUpdate).                                *)
(***************************************************************************)
EXTENDS Naturals, FiniteSets, Sequences

CONSTANTS
  Nodes,    \* the Ceramic nodes, numbered in the order of the file
  Others,   \* peers of the network that have no Ceramic addresses
  Tries     \* times the script looks before it gives up: 30 in the code

ASSUME InitScriptAssumption ==
  /\ Nodes \subseteq Nat /\ IsFiniteSet(Nodes)
  /\ IsFiniteSet(Others) /\ Nodes \cap Others = {}
  /\ Tries \in Nat

VARIABLES
  readable,  \* whether jq can read the file
  peers,     \* the peers in it
  script,    \* where the script is: "count", "ceramic", "composedb", "done", "failed"
  looks,     \* n
  counted,   \* the peers that available_peers is the number of
  env        \* .env: CERAMIC_URLS, COMPOSEDB_URLS, and how many seeds

peerVars == <<readable, peers>>
scriptVars == <<script, looks, counted, env>>

NoEnv == [rust |-> <<>>, urls |-> <<>>, seeds |-> 0]

ScriptInit ==
  /\ script = "count"
  /\ looks = 0
  /\ counted = {}
  /\ env = NoEnv

\* The operator adds a peer that has become ready, or makes the file readable;
\* what it does after the script has read it makes no difference.
Reading == script \in {"count", "ceramic", "composedb"}

PeerJoins ==
  /\ Reading
  /\ \E p \in (Nodes \cup Others) \ peers : peers' = peers \cup {p}
  /\ UNCHANGED readable

FileAppears ==
  /\ Reading /\ ~readable
  /\ readable' = TRUE
  /\ UNCHANGED peers

InOrder(S) ==
  CHOOSE seq \in [1..Cardinality(S) -> S] : \A i, j \in DOMAIN seq : i < j => seq[i] < seq[j]

\* The addresses of the Ceramic nodes, joined in the order of the file; what jq
\* prints when it fails is empty.
Addresses == IF readable THEN InOrder(peers \cap Nodes) ELSE <<>>

\* No peers yet: sleep, and look again.
LookAgain ==
  /\ script = "count" /\ looks < Tries
  /\ readable /\ peers = {}
  /\ looks' = looks + 1
  /\ UNCHANGED <<script, counted, env>>

\* The output of jq is not "0": a number, or nothing, which counts as zero in
\* the loop that repeats the seed.
Count ==
  /\ script = "count" /\ looks < Tries
  /\ ~(readable /\ peers = {})
  /\ counted' = (IF readable THEN peers ELSE {})
  /\ env' = [env EXCEPT !.seeds = Cardinality(counted')]
  /\ script' = "ceramic"
  /\ UNCHANGED looks

ReadCeramicUrls ==
  /\ script = "ceramic"
  /\ env' = [env EXCEPT !.rust = Addresses]
  /\ script' = "composedb"
  /\ UNCHANGED <<looks, counted>>

ReadComposeDbUrls ==
  /\ script = "composedb"
  /\ env' = [env EXCEPT !.urls = Addresses]
  /\ script' = "done"
  /\ UNCHANGED <<looks, counted>>

\* exit 1
NoPeers ==
  /\ script = "count" /\ looks = Tries
  /\ script' = "failed"
  /\ UNCHANGED <<looks, counted, env>>

Script == LookAgain \/ Count \/ ReadCeramicUrls \/ ReadComposeDbUrls \/ NoPeers
=============================================================================
