----------------------------- MODULE RouteCache -----------------------------
(***************************************************************************)
(* The classes RouteBloom and RouteCache of server/cache.hpp.              *)
(*                                                                         *)
(* Both encode a query as (start << 20) ^ goal.  The goal is below 2^20    *)
(* for every graph the server is run on, so that the key is                *)
(* start * 2^20 + goal; Shift is that power of two.  A hash takes a key    *)
(* and the number of the hash function to a bit; which bit, std::hash      *)
(* decides, so it is a constant.                                           *)
(***************************************************************************)
EXTENDS Integers, FiniteSets

CONSTANTS Shift,      \* 2^20
          size_, k_,  \* of the filter
          hash        \* [key, i] |-> bit

Bits == 0 .. size_ - 1

ASSUME CacheAssumption ==
  /\ Shift \in Nat \ {0} /\ size_ \in Nat \ {0} /\ k_ \in Nat \ {0}
  /\ \A key \in DOMAIN hash : hash[key] \in [0 .. k_ - 1 -> Bits]

VARIABLES bits_,     \* the bits that are set
          store_,    \* key |-> CachedRoute
          hits_, misses_

cacheVars == <<bits_, store_, hits_, misses_>>

-----------------------------------------------------------------------------
(* A mistake the checks are tested with: a filter that sets one bit and    *)
(* tests all.                                                              *)
AddFirstHash(s, g) == bits_' = bits_ \cup {hash[s * Shift + g][0]}

-----------------------------------------------------------------------------
(* RouteBloom::encode and RouteCache::key                                  *)
Key(s, g) == s * Shift + g

CacheInit == bits_ = {} /\ store_ = [k \in {} |-> 0] /\ hits_ = 0 /\ misses_ = 0

BitsOf(k) == {hash[k][i] : i \in 0 .. k_ - 1}

BloomAdd(s, g) == bits_' = bits_ \cup BitsOf(Key(s, g))
mightContain(s, g) == BitsOf(Key(s, g)) \subseteq bits_

(* RouteCache::get: whether there is an entry, and the count of it.        *)
Found(s, g) == Key(s, g) \in DOMAIN store_
GetCounts(s, g) == IF Found(s, g)
                     THEN hits_' = hits_ + 1 /\ UNCHANGED misses_
                     ELSE misses_' = misses_ + 1 /\ UNCHANGED hits_

Put(s, g, r) == store_' = [k \in DOMAIN store_ \cup {Key(s, g)} |->
                             IF k = Key(s, g) THEN r ELSE store_[k]]

-----------------------------------------------------------------------------
(* "False negatives are impossible — we never skip a cached result"        *)
(* (cache.hpp:13): the filter contains whatever the cache does, also       *)
(* between the filter's update and the cache's.                            *)
BloomNeverForgets == \A k \in DOMAIN store_ : BitsOf(k) \subseteq bits_
=============================================================================
