------------------------------ MODULE Sketches ------------------------------
(***************************************************************************)
(* The sketches of probabilistic_data_structures/ fed by one stream of     *)
(* items: BloomFilter (bloom_filter.cpp, also include/probabilistic.hpp),  *)
(* CountMinSketch and HyperLogLog.  std::hash is a table; what the classes *)
(* derive from it is modelled.  A hash has W bits where the code has 64.   *)
(***************************************************************************)
EXTENDS Integers, FiniteSets, FiniteSetsExt

CONSTANTS Stream,          \* the items
          W,               \* 64
          hashOf,          \* per item: its hash, below 2^W
          mixOf,           \* per item and number: hash ^ (number * constant)
          bloomSize, numHashes,
          width, depth,
          b,               \* index bits of the HyperLogLogs
          golden,          \* 0x9e3779b97f4a7c15
          MaxCount         \* bound: what is added of each item

ASSUME SketchAssumption ==
  /\ golden \in Nat /\ MaxCount \in Nat
  /\ W \in Nat /\ b \in 0 .. W /\ hashOf \in [Stream -> 0 .. 2 ^ W - 1]
  /\ bloomSize \in Nat \ {0} /\ width \in Nat \ {0}
  /\ numHashes \in Nat \ {0} /\ depth \in Nat \ {0}
  /\ \A s \in Stream : mixOf[s] \in [0 .. numHashes + depth -> Nat]

VARIABLES bits,        \* the set bits of the BloomFilter
          table,       \* CountMinSketch: [row, column] |-> count
          registers,   \* HyperLogLog
          regs_,       \* algo::HyperLogLog of include/probabilistic.hpp
          added        \* what has been added of each item

sketchVars == <<bits, table, registers, regs_, added>>

SketchInit ==
  /\ bits = {}
  /\ table = [c \in (0 .. depth - 1) \X (0 .. width - 1) |-> 0]
  /\ registers = [i \in 0 .. 2 ^ b - 1 |-> 0]
  /\ regs_ = registers
  /\ added = [s \in Stream |-> 0]

-----------------------------------------------------------------------------
(* A mistake the checks are tested with: a count that is set and not added.*)
CellsSet(s, count) ==
  [c \in DOMAIN table |-> IF c[2] = mixOf[s][c[1]] % width THEN count ELSE table[c]]

-----------------------------------------------------------------------------
BloomBits(s) == {mixOf[s][i] % bloomSize : i \in 0 .. numHashes - 1}
mightHave(s) == BloomBits(s) \subseteq bits

CellsAdded(s, count) ==
  [c \in DOMAIN table |->
     table[c] + IF c[2] = mixOf[s][c[1]] % width THEN count ELSE 0]
estimate(s) == Min({table[<<r, mixOf[s][r] % width>>] : r \in 0 .. depth - 1})

(* One more than the number of zeros from bit maxBits - 1 of x down.       *)
leadingZeros(x, maxBits) ==
  LET ones == {i \in 0 .. maxBits - 1 : (x \div 2 ^ i) % 2 = 1}
  IN  IF ones = {} THEN maxBits + 1 ELSE maxBits - Max(ones)

(* rest has lost its top b bits to the index; its low b bits are zeros,    *)
(* and it is its W - b low bits that are looked at.                        *)
Index(s) == hashOf[s] \div 2 ^ (W - b)
Rank(s) == LET rest == (hashOf[s] * 2 ^ b) % 2 ^ W IN leadingZeros(rest, W - b)

(* A mistake the checks are tested with: the last rank kept and not the    *)
(* greatest.                                                               *)
LastRank(s) == [registers EXCEPT ![Index(s)] = Rank(s)]

Raised(s) == [registers EXCEPT ![Index(s)] = Max({@, Rank(s)})]

(* The class of the header: the zeros of all W bits, of a word mixed with  *)
(* a factor; 64 for the word 0.                                            *)
clz(x) ==
  LET ones == {i \in 0 .. W - 1 : (x \div 2 ^ i) % 2 = 1}
  IN  IF ones = {} THEN W ELSE W - 1 - Max(ones)
h(s) == (hashOf[s] * golden) % 2 ^ W
reg(s) == h(s) \div 2 ^ (W - b)
rank(s) == clz((h(s) * 2 ^ b) % 2 ^ W) + 1

Feed(s, count) ==
  /\ added[s] + count <= MaxCount
  /\ added' = [added EXCEPT ![s] = @ + count]
  /\ bits' = bits \cup BloomBits(s)
  /\ table' = CellsAdded(s, count)
  /\ registers' = Raised(s)
  /\ regs_' = [regs_ EXCEPT ![reg(s)] = Max({@, rank(s)})]

SketchNext == \E s \in Stream, count \in 1 .. MaxCount : Feed(s, count)

SketchSpec == SketchInit /\ [][SketchNext]_sketchVars

-----------------------------------------------------------------------------
(* "no false negatives" (bloom_filter.cpp:1) and "never undercounts"       *)
(* (count_min_sketch.cpp:2), after any stream.                             *)
NeverForgets == \A s \in Stream : /\ added[s] > 0 => mightHave(s)
                                  /\ estimate(s) >= added[s]

(* A HyperLogLog counts "DISTINCT elements" (hyperloglog.cpp:1): the       *)
(* registers are a function of the set of items added, not of their order  *)
(* or how often they came.  In the header's class a rank is what it should *)
(* be, the place of the first one after the index.                         *)
Seen == {s \in Stream : added[s] > 0}
AfterIndex(s) == {k \in 1 .. W - b : (h(s) \div 2 ^ (W - b - k)) % 2 = 1}
FirstOne(s) == IF AfterIndex(s) = {} THEN W + 1 ELSE Min(AfterIndex(s))
CountsDistinct ==
  \A i \in DOMAIN registers :
     /\ registers[i] = Max({0} \cup {Rank(s) : s \in {t \in Seen : Index(t) = i}})
     /\ regs_[i] = Max({0} \cup {FirstOne(s) : s \in {t \in Seen : reg(t) = i}})

(* Together: after any stream, no sketch says less than what came.         *)
SketchesHoldStream == NeverForgets /\ CountsDistinct
=============================================================================
