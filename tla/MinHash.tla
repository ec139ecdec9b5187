------------------------------ MODULE MinHash ------------------------------
(***************************************************************************)
(* probabilistic_data_structures/lsh_minhash.cpp.  For the signatures a    *)
(* shingle is its base hash; the hash functions differ in the constant that it is xor-ed with. *)
(***************************************************************************)
EXTENDS Integers, FiniteSets, Sequences, Bitwise

LOCAL INSTANCE FiniteSetsExt

CONSTANTS numHashes_,   \* numHashes
          Constants,    \* [h \in 0 .. numHashes - 1 |-> h * 0x9e3779b97f4a7c15]
          MaxHash       \* the greatest hash, which no shingle has

ASSUME MinHashAssumption == Constants \in [0 .. numHashes_ - 1 -> 0 .. MaxHash - 1]

(* The runs of k words; a text of fewer has none.                          *)
shingle(words, k) == {SubSeq(words, i, i + k - 1) : i \in 1 .. Len(words) - k + 1}

HashAs(s, h) == s ^^ Constants[h]

minHashSignature(shingles) ==
  [h \in 0 .. numHashes_ - 1 |-> Min({MaxHash} \cup {HashAs(s, h) : s \in shingles})]

(* estimateJaccard, before it is divided by numHashes.                     *)
Matches(sigA, sigB) == Cardinality({h \in DOMAIN sigA : sigA[h] = sigB[h]})

(* A fraction, as a pair.                                                  *)
realJaccard(a, b) ==
  IF a \cup b = {} THEN <<1, 1>> ELSE <<Cardinality(a \cap b), Cardinality(a \cup b)>>

-----------------------------------------------------------------------------
(* What it is compared with: the hash functions under which the first      *)
(* shingle of all is one that both sets have.                              *)
FirstIsShared(A, B) ==
  {h \in 0 .. numHashes_ - 1 :
     \A s \in A \cup B : (\A t \in A \cup B : HashAs(s, h) <= HashAs(t, h)) => s \in A \cap B}
Swaps(v, w) == Len(v) = Len(w) /\ Cardinality({i \in DOMAIN v : v[i] # w[i]}) = 1
=============================================================================
