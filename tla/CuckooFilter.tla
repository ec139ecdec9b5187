---------------------------- MODULE CuckooFilter ----------------------------
(***************************************************************************)
(* The class CuckooFilter of probabilistic_data_structures/                *)
(* cuckoo_filter.cpp: one fingerprint per bucket, two buckets per item.    *)
(* The number of buckets is a power of two, as in main: only then does the *)
(* exclusive or lead back from the second bucket to the first.             *)
(***************************************************************************)
EXTENDS Integers, FiniteSets

CONSTANTS CuckooItems,
          numBuckets,
          maxKicks,        \* 50
          hash1,           \* per item: its first bucket
          fingerprint,     \* per item, not zero
          hash2,           \* per fingerprint
          xor,             \* the exclusive or of two numbers of buckets
          MaxCopiesOf      \* bound: copies of one item

Buckets == 0 .. numBuckets - 1

ASSUME CuckooAssumption ==
  /\ IsFiniteSet(CuckooItems)
  /\ numBuckets \in {2 ^ k : k \in 0 .. 30}
  /\ maxKicks \in Nat
  /\ hash1 \in [CuckooItems -> Buckets]
  /\ \A x \in CuckooItems : /\ fingerprint[x] \in Nat \ {0}
                            /\ hash2[fingerprint[x]] \in Buckets
  /\ \A i, j \in Buckets : xor[i][j] \in Buckets /\ xor[xor[i][j]][j] = i

VARIABLES buckets,   \* 0: empty
          members,   \* per item: insertions that returned true, less removals
          refused    \* whether an insertion has returned false

cuckooVars == <<buckets, members, refused>>

CuckooInit == /\ buckets = [i \in Buckets |-> 0]
              /\ members = [x \in CuckooItems |-> 0]
              /\ refused = FALSE

-----------------------------------------------------------------------------
(* A mistake the checks are tested with: the second bucket counted from    *)
(* the first, so that it does not lead back.                               *)
NextBucket(i, fp) == (i + hash2[fp]) % numBuckets

-----------------------------------------------------------------------------
(* Two numbers below a power of two have their exclusive or below it, so   *)
(* that the remainder the code takes changes nothing.                      *)
Other(i, fp) == xor[i][hash2[fp]]

First(x) == hash1[x]
Second(x) == Other(hash1[x], fingerprint[x])

(* A turn of the loop of evictions: fp goes into bucket i, what was there  *)
(* goes on to its other bucket, and that is all if this was empty.         *)
Kicked(s) ==
  LET evicted == s.buckets[s.i]
      j == Other(s.i, evicted)
      B == [s.buckets EXCEPT ![s.i] = s.fp]
  IN  IF s.ok THEN s
      ELSE [buckets |-> IF B[j] = 0 THEN [B EXCEPT ![j] = evicted] ELSE B,
            i |-> j, fp |-> evicted, ok |-> B[j] = 0]

Kicks(x) ==
  LET K[k \in Nat] ==
        IF k = 0 THEN [buckets |-> buckets, i |-> First(x), fp |-> fingerprint[x], ok |-> FALSE]
        ELSE Kicked(K[k - 1])
  IN  K[maxKicks]

Inserted(x) ==
  LET fp == fingerprint[x]
  IN  IF buckets[First(x)] = 0
        THEN [buckets |-> [buckets EXCEPT ![First(x)] = fp], ok |-> TRUE]
      ELSE IF buckets[Second(x)] = 0
        THEN [buckets |-> [buckets EXCEPT ![Second(x)] = fp], ok |-> TRUE]
      ELSE Kicks(x)

insert(x) ==
  /\ members[x] < MaxCopiesOf
  /\ buckets' = Inserted(x).buckets
  /\ IF Inserted(x).ok
       THEN members' = [members EXCEPT ![x] = @ + 1] /\ UNCHANGED refused
       ELSE refused' = TRUE /\ UNCHANGED members

(* Only what has been inserted is removed.                                 *)
remove(x) ==
  /\ members[x] > 0
  /\ IF buckets[First(x)] = fingerprint[x]
       THEN buckets' = [buckets EXCEPT ![First(x)] = 0]
     ELSE IF buckets[Second(x)] = fingerprint[x]
       THEN buckets' = [buckets EXCEPT ![Second(x)] = 0]
     ELSE UNCHANGED buckets
  /\ members' = [members EXCEPT ![x] = @ - 1]
  /\ UNCHANGED refused

mightContain(x) == fingerprint[x] \in {buckets[First(x)], buckets[Second(x)]}

CuckooNext == \E x \in CuckooItems : insert(x) \/ remove(x)

CuckooSpec == CuckooInit /\ [][CuckooNext]_cuckooVars

-----------------------------------------------------------------------------
(* The filter is "like a Bloom filter but supports DELETION"               *)
(* (cuckoo_filter.cpp:1), so it has no false negatives.                    *)
NoFalseNegatives == \A x \in CuckooItems : members[x] > 0 => mightContain(x)

(* While no insertion has been refused there are none: removing an item    *)
(* never takes away the fingerprint another needs, whatever evictions have *)
(* moved it, even if the two share a fingerprint.                          *)
NoneUntilRefused == refused \/ NoFalseNegatives
=============================================================================
