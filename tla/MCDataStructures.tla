-------------------------- MODULE MCDataStructures --------------------------
(***************************************************************************)
(* The small data structures of distributed_systems/ and                   *)
(* probabilistic_data_structures/, which have nothing to do with one       *)
(* another: a behaviour picks one of them and stays with it.               *)
(***************************************************************************)
EXTENDS CausalClocks, GCounter, HashRing, Gossip, LeaderElection, Sketches, CuckooFilter,
        SimulatedAnnealing, Bitwise

VARIABLE chosen

Structures == {"clocks", "counter", "ring", "gossip", "election", "sketches", "cuckoo", "annealing"}

vars == <<chosen, clockVars, counterVars, ring, gossipVars, electionVars, sketchVars, cuckooVars,
          annealingVars>>

MCInit == /\ chosen \in Structures
          /\ ClockInit /\ CounterInit /\ RingInit /\ GossipInit /\ SketchInit /\ CuckooInit
          /\ AnnealingInit
          /\ ElectionInit
          /\ chosen # "election" => \A i, j \in Electors : timeouts[i] = timeouts[j]

Stays(structure, v) == IF chosen = structure THEN TRUE ELSE UNCHANGED v

MCNext ==
  /\ UNCHANGED chosen
  /\ \/ chosen = "clocks" /\ ClockNext
     \/ chosen = "counter" /\ CounterNext
     \/ chosen = "ring" /\ RingNext
     \/ chosen = "gossip" /\ Round
     \/ chosen = "election" /\ ElectionNext
     \/ chosen = "sketches" /\ SketchNext
     \/ chosen = "cuckoo" /\ CuckooNext
     \/ chosen = "annealing" /\ Propose
  /\ Stays("clocks", clockVars) /\ Stays("counter", counterVars) /\ Stays("ring", ring)
  /\ Stays("gossip", gossipVars) /\ Stays("election", electionVars)
  /\ Stays("sketches", sketchVars) /\ Stays("cuckoo", cuckooVars)
  /\ Stays("annealing", annealingVars)

MCSpec == MCInit /\ [][MCNext]_vars

-----------------------------------------------------------------------------
(* Two virtual nodes each, interleaved on twelve positions.                *)
MCVirtualNodes == [s \in {"A", "B", "C", "D"} |->
                     CASE s = "A" -> {0, 5} [] s = "B" -> {3, 4}
                       [] s = "C" -> {2, 8} [] s = "D" -> {7, 10}]
MCPositions == 0 .. 11

(* Four items: u, v and w share a column in the first row, v and z in the  *)
(* second; the bits of w in the Bloom filter are among those of z; u and v *)
(* share a register, with different ranks.                                 *)
MCHashOf == [s \in {"u", "v", "w", "z"} |->
               CASE s = "u" -> 45 [] s = "v" -> 42 [] s = "w" -> 6 [] s = "z" -> 16]
MCMixOf == [s \in {"u", "v", "w", "z"} |-> [i \in 0 .. 4 |-> MCHashOf[s] ^^ (11 * i)]]

(* b1 and b2 share a fingerprint and their pair of buckets, c1 has the     *)
(* same bucket twice.                                                      *)
MCHash1 == [x \in {"a", "b1", "b2", "c1", "d"} |->
              CASE x = "a" -> 0 [] x = "b1" -> 1 [] x = "b2" -> 3 [] x = "c1" -> 2
                [] x = "d" -> 0]
MCFingerprint == [x \in {"a", "b1", "b2", "c1", "d"} |->
                    CASE x = "a" -> 3 [] x \in {"b1", "b2"} -> 5 [] x = "c1" -> 7
                      [] x = "d" -> 9]
MCXor == [i \in 0 .. 3 |-> [k \in 0 .. 3 |-> i ^^ k]]
MCHash2 == [f \in {3, 5, 7, 9} |-> CASE f = 3 -> 1 [] f = 5 -> 2 [] f = 7 -> 0 [] f = 9 -> 3]

(* Five towns, the corners of a square and its middle, nearer to one.      *)
MCDist == [i \in 0 .. 4 |-> [j \in 0 .. 4 |->
             <<<<0, 4, 6, 4, 2>>, <<4, 0, 4, 6, 3>>, <<6, 4, 0, 4, 4>>, <<4, 6, 4, 0, 3>>,
               <<2, 3, 4, 3, 0>>>>[i + 1][j + 1]]]
=============================================================================
