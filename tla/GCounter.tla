------------------------------ MODULE GCounter ------------------------------
(***************************************************************************)
(* The class GCounter of distributed_systems/crdt_counter.cpp, replicated. *)
(* A replica increments its own entry and merges copies of other replicas' *)
(* states; a copy may arrive late, after newer ones, twice or never.       *)
(***************************************************************************)
EXTENDS Integers, FiniteSets, Functions

CONSTANTS numReplicas,
          MaxIncrements,   \* bound: increments of each replica
          MaxCopies        \* bound: copies under way at once

ASSUME CounterAssumption ==
  numReplicas \in Nat \ {0} /\ MaxIncrements \in Nat /\ MaxCopies \in Nat

Replicas == 0 .. numReplicas - 1

VARIABLES counts,   \* per replica
          seen,     \* per replica: the increments it has made or learnt of,
                    \* <<replica, number>>
          copies    \* under way: [counts, seen]

counterVars == <<counts, seen, copies>>

CounterInit == /\ counts = [r \in Replicas |-> [i \in Replicas |-> 0]]
               /\ seen = [r \in Replicas |-> {}]
               /\ copies = {}

-----------------------------------------------------------------------------
(* A mistake the checks are tested with: a merge that adds.                *)
MergedBySum(a, b) == [i \in Replicas |-> a[i] + b[i]]

-----------------------------------------------------------------------------
increment(r) ==
  /\ counts[r][r] < MaxIncrements
  /\ counts' = [counts EXCEPT ![r][r] = @ + 1]
  /\ seen' = [seen EXCEPT ![r] = @ \cup {<<r, counts[r][r] + 1>>}]
  /\ UNCHANGED copies

Copy(r) == /\ Cardinality(copies) < MaxCopies
           /\ copies' = copies \cup {[counts |-> counts[r], seen |-> seen[r]]}
           /\ UNCHANGED <<counts, seen>>

Lose(m) == copies' = copies \ {m} /\ UNCHANGED <<counts, seen>>

Merged(a, b) == [i \in Replicas |-> IF a[i] > b[i] THEN a[i] ELSE b[i]]

(* m stays under way: it may be merged again.                              *)
Merge(r, m) == /\ counts' = [counts EXCEPT ![r] = Merged(@, m.counts)]
               /\ seen' = [seen EXCEPT ![r] = @ \cup m.seen]
               /\ UNCHANGED copies

CounterNext == \E r \in Replicas : \/ increment(r) \/ Copy(r)
                                   \/ \E m \in copies : Merge(r, m) \/ Lose(m)

CounterSpec == CounterInit /\ [][CounterNext]_counterVars

value(c) == FoldFunction(+, 0, c)

-----------------------------------------------------------------------------
(* The value of a replica is the number of increments it has made or       *)
(* learnt of: none is counted twice and none forgotten, "NO conflicts and  *)
(* NO coordination required" (crdt_counter.cpp:3).                         *)
EachCountedOnce == \A r \in Replicas : value(counts[r]) = Cardinality(seen[r])
=============================================================================
