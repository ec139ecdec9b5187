------------------------------ MODULE HashRing ------------------------------
(***************************************************************************)
(* The class ConsistentHashRing of                                         *)
(* distributed_systems/consistent_hashing.cpp.  Hashes are constants: a    *)
(* server's virtual nodes are the positions its names hash to, which are   *)
(* different for different servers, and a key is the position of its own   *)
(* hash.                                                                   *)
(***************************************************************************)
EXTENDS Integers, FiniteSets

CONSTANTS Servers,
          Positions,      \* the hash values, 0 .. something
          VirtualNodes,   \* per server: a set of positions
          NoServer        \* ""

ASSUME RingAssumption ==
  /\ Positions \subseteq Nat /\ NoServer \notin Servers
  /\ VirtualNodes \in [Servers -> (SUBSET Positions) \ {{}}]
  /\ \A s, t \in Servers : s # t => VirtualNodes[s] \cap VirtualNodes[t] = {}

VARIABLE ring      \* position |-> server

RingInit == ring = [p \in {} |-> NoServer]

-----------------------------------------------------------------------------
(* A mistake the checks are tested with: what goes in at another place     *)
(* when the ring has grown, hash % N.                                      *)
PointByCount(h) == LET N == Cardinality(DOMAIN ring)
                   IN  CHOOSE p \in DOMAIN ring :
                         Cardinality({q \in DOMAIN ring : q < p}) = h % N

-----------------------------------------------------------------------------
addServer(s) ==
  ring' = [p \in DOMAIN ring \cup VirtualNodes[s] |->
             IF p \in VirtualNodes[s] THEN s ELSE ring[p]]

removeServer(s) == ring' = [p \in DOMAIN ring \ VirtualNodes[s] |-> ring[p]]

RingNext == \E s \in Servers : addServer(s) \/ removeServer(s)

(* The first point at or after h, or the first of all.                     *)
Point(h) ==
  LET from == {p \in DOMAIN ring : p >= h}
      S == IF from = {} THEN DOMAIN ring ELSE from
  IN  CHOOSE p \in S : \A q \in S : p <= q

getServer(h) == IF ring = [p \in {} |-> NoServer] THEN NoServer ELSE ring[Point(h)]

RingSpec == RingInit /\ [][RingNext]_ring

-----------------------------------------------------------------------------
Members == {ring[p] : p \in DOMAIN ring}

(* Minimal reshuffling (consistent_hashing.cpp:1): when servers come or    *)
(* go, a key that moves moves to one that has come or from one that has    *)
(* gone; all other keys stay where they were.                              *)
KeysStay ==
  \A h \in Positions :
    getServer(h)' # getServer(h) =>
      \/ getServer(h)' \in Members' \ Members
      \/ getServer(h) \in (Members \cup {NoServer}) \ Members'

MinimalReshuffling == [][KeysStay]_ring
=============================================================================
