------------------------------- MODULE Gossip -------------------------------
(***************************************************************************)
(* distributed_systems/gossip_protocol.cpp: in each round every informed   *)
(* node tells one node, chosen at random and possibly itself.  There is    *)
(* one piece of information, so knownInfo is the set of the nodes that     *)
(* have it.  next, the copy that a round writes while it reads knownInfo,  *)
(* is what makes a node informed in a round wait for the next one.         *)
(***************************************************************************)
EXTENDS Integers, FiniteSets

CONSTANTS numGossips,   \* numNodes of the program
          MaxRounds     \* 20

ASSUME GossipAssumption == numGossips \in Nat \ {0} /\ MaxRounds \in Nat

Peers == 0 .. numGossips - 1

VARIABLES knownInfo, round

gossipVars == <<knownInfo, round>>

GossipInit == knownInfo = {0} /\ round = 0

-----------------------------------------------------------------------------
(* A mistake the checks are tested with: a round that reads what it has    *)
(* written, node 0 first.                                                  *)
RoundInPlace ==
  /\ knownInfo # Peers /\ round < MaxRounds
  /\ round' = round + 1
  /\ \E reached \in SUBSET Peers : knownInfo' = knownInfo \cup reached

-----------------------------------------------------------------------------
Round ==
  /\ knownInfo # Peers /\ round < MaxRounds
  /\ round' = round + 1
  /\ \E peer \in [knownInfo -> Peers] :
       knownInfo' = knownInfo \cup {peer[i] : i \in knownInfo}

GossipSpec == GossipInit /\ [][Round]_gossipVars

-----------------------------------------------------------------------------
PowerOfTwo[n \in Nat] == IF n = 0 THEN 1 ELSE 2 * PowerOfTwo[n - 1]

(* A round at most doubles the number of informed nodes: the last line of  *)
(* the program compares the rounds with log2(numNodes), and no run can do  *)
(* better.                                                                 *)
AtMostDoubles == Cardinality(knownInfo) <= PowerOfTwo[round]
=============================================================================
