----------------------------- MODULE LinkedLists -----------------------------
(***************************************************************************)
(* The nodes of a linked list, in order, as the structs Node of            *)
(* concurrency/lockfree_stack.cpp and lockfree_queue.cpp link them, and    *)
(* the paths that the parents of server/router.hpp link.                   *)
(***************************************************************************)
EXTENDS Naturals, FiniteSets, Sequences

(* From the address a on along next, as far as null; of a list that comes  *)
(* back to itself, as many nodes as there are addresses and one more.      *)
Chain(Addr, null, next, a) ==
  LET Behind[k \in 0 .. Cardinality(Addr)] ==
        IF k = 0 THEN a
        ELSE IF Behind[k - 1] = null THEN null ELSE next[Behind[k - 1]]
      size == Cardinality({k \in 0 .. Cardinality(Addr) : Behind[k] # null})
  IN  [k \in 1 .. size |-> Behind[k - 1]]
=============================================================================
