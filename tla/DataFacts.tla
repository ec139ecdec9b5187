----------------------------- MODULE DataFacts -----------------------------
(***************************************************************************)
(* Facts about data that the proofs of several modules rest on: induction  *)
(* and recursion over the naturals, linked lists, sums and powers of two.  *)
(* Induction is stated of a set, which holds 0 and the successor of all it *)
(* holds, and recursion of a function, which takes one value to the next:  *)
(* so both can be used where a theorem about an operator could not be.     *)
(***************************************************************************)
EXTENDS LinkedLists, Integers, FiniteSetTheorems, SequenceTheorems, WellFoundedInduction, TLAPS

(* Every non-empty set of naturals has a least element.                    *)
LEMMA HasLeast ==
  ASSUME NEW S, S \subseteq Nat, S # {}
  PROVE  \E m \in S : \A x \in S : m <= x
<1>1. PICK m \in S : \A x \in S : ~ (<<x, m>> \in OpToRel(<, Nat))
  BY WFMin, NatLessThanWellFounded, Zenon
<1>2. \A x \in S : ~ (x < m)
  BY <1>1, Zenon DEF OpToRel
<1> QED  BY <1>2

LEMMA SetInduction ==
  ASSUME NEW S, 0 \in S, \A k \in Nat : k \in S => k + 1 \in S
  PROVE  \A k \in Nat : k \in S
<1> SUFFICES ASSUME Nat \ S # {} PROVE FALSE
  OBVIOUS
<1>1. PICK m \in Nat \ S : \A x \in Nat \ S : m <= x
  BY HasLeast
<1>2. m # 0 /\ m - 1 \in Nat
  BY <1>1
<1>3. m - 1 \in S
  BY <1>1, <1>2
<1>4. (m - 1) + 1 \in S
  BY <1>2, <1>3
<1> QED  BY <1>1, <1>4

(* The same up to n.                                                       *)
LEMMA SetInductionTo ==
  ASSUME NEW n \in Nat, NEW S, 0 \in S, \A k \in 0 .. n - 1 : k \in S => k + 1 \in S
  PROVE  \A k \in 0 .. n : k \in S
<1> DEFINE T == S \cup {k \in Nat : k > n}
<1>1. 0 \in T /\ \A k \in Nat : k \in T => k + 1 \in T
  OBVIOUS
<1>2. \A k \in Nat : k \in T
  <2> HIDE DEF T
  <2> QED  BY <1>1, SetInduction
<1> QED  BY <1>2

-----------------------------------------------------------------------------
(* From b on, each value the one that G gives for the one before.          *)
Iterates(f, S, b, G, D) ==
  /\ f \in [D -> S]
  /\ f[0] = b
  /\ \A k \in D : k + 1 \in D => f[k + 1] = G[f[k]]

LEMMA IteratesTo ==
  ASSUME NEW S, NEW b \in S, NEW G \in [S -> S], NEW n \in Nat
  PROVE  \E f : Iterates(f, S, b, G, 0 .. n)
<1> DEFINE T == {k \in Nat : \E f : Iterates(f, S, b, G, 0 .. k)}
<1>1. 0 \in T
  <2>1. Iterates([i \in 0 .. 0 |-> b], S, b, G, 0 .. 0)
    BY DEF Iterates
  <2> QED  BY <2>1
<1>2. ASSUME NEW k \in Nat, k \in T PROVE k + 1 \in T
  <2>1. PICK f : Iterates(f, S, b, G, 0 .. k)
    BY <1>2
  <2> DEFINE g == [i \in 0 .. k + 1 |-> IF i = k + 1 THEN G[f[k]] ELSE f[i]]
  <2>2. f[k] \in S /\ \A i \in 0 .. k : f[i] \in S
    BY <2>1 DEF Iterates
  <2>3. g \in [0 .. k + 1 -> S] /\ g[0] = b
    BY <2>1, <2>2 DEF Iterates
  <2>4. ASSUME NEW i \in 0 .. k + 1, i + 1 \in 0 .. k + 1 PROVE g[i + 1] = G[g[i]]
    <3>1. CASE i = k
      BY <3>1
    <3>2. CASE i # k
      <4>1. i \in 0 .. k /\ i + 1 \in 0 .. k /\ i + 1 # k + 1
        BY <2>4, <3>2
      <4>2. f[i + 1] = G[f[i]]
        BY <2>1, <4>1 DEF Iterates
      <4> QED  BY <4>1, <4>2
    <3> QED  BY <3>1, <3>2
  <2>5. Iterates(g, S, b, G, 0 .. k + 1)
    <3> HIDE DEF g
    <3> QED  BY <2>3, <2>4 DEF Iterates
  <2> QED  BY <2>5
<1>3. n \in T
  <2> HIDE DEF T
  <2> QED  BY <1>1, <1>2, SetInduction
<1> QED  BY <1>3

LEMMA IteratesAlike ==
  ASSUME NEW S, NEW b \in S, NEW G \in [S -> S], NEW m \in Nat, NEW n \in Nat, m <= n,
         NEW f, Iterates(f, S, b, G, 0 .. m), NEW g, Iterates(g, S, b, G, 0 .. n)
  PROVE  \A k \in 0 .. m : f[k] = g[k]
<1> DEFINE T == {k \in 0 .. m : f[k] = g[k]}
<1>1. 0 \in T
  BY DEF Iterates
<1>2. ASSUME NEW k \in 0 .. m - 1, k \in T PROVE k + 1 \in T
  <2>1. /\ k \in 0 .. m /\ k + 1 \in 0 .. m /\ k \in 0 .. n /\ k + 1 \in 0 .. n
    BY <1>2
  <2>2. f[k + 1] = G[f[k]] /\ g[k + 1] = G[g[k]]
    BY <2>1 DEF Iterates
  <2> QED  BY <1>2, <2>1, <2>2
<1>3. \A k \in 0 .. m : k \in T
  <2> HIDE DEF T
  <2> QED  BY <1>1, <1>2, SetInductionTo
<1> QED  BY <1>3

LEMMA IteratesOnNat ==
  ASSUME NEW S, NEW b \in S, NEW G \in [S -> S]
  PROVE  \E f : Iterates(f, S, b, G, Nat)
<1> DEFINE up(n) == CHOOSE f : Iterates(f, S, b, G, 0 .. n)
           f == [n \in Nat |-> up(n)[n]]
<1>1. \A n \in Nat : Iterates(up(n), S, b, G, 0 .. n)
  BY IteratesTo
<1> HIDE DEF up
<1>2. f \in [Nat -> S]
  BY <1>1 DEF Iterates
<1>3. f[0] = b
  BY <1>1 DEF Iterates
<1>4. ASSUME NEW k \in Nat PROVE f[k + 1] = G[f[k]]
  <2>1. up(k)[k] = up(k + 1)[k]
    BY <1>1, IteratesAlike
  <2>2. up(k + 1)[k + 1] = G[up(k + 1)[k]]
    BY <1>1 DEF Iterates
  <2> QED  BY <2>1, <2>2
<1> QED  BY <1>2, <1>3, <1>4 DEF Iterates

-----------------------------------------------------------------------------
(* The addresses from a on along next, to null.                            *)
Nth(s, i, null) == IF i \in 1 .. Len(s) THEN s[i] ELSE null

IsChain(Addr, null, next, a, s) ==
  /\ s \in Seq(Addr)
  /\ \A i, j \in 1 .. Len(s) : s[i] = s[j] => i = j
  /\ a = Nth(s, 1, null)
  /\ \A i \in 1 .. Len(s) : next[s[i]] = Nth(s, i + 1, null)

(* All different, they are no more than there are.                         *)
LEMMA ChainIsShort ==
  ASSUME NEW Addr, IsFiniteSet(Addr), NEW s \in Seq(Addr),
         \A i, j \in 1 .. Len(s) : s[i] = s[j] => i = j
  PROVE  /\ Len(s) <= Cardinality(Addr)
         /\ IsFiniteSet({s[i] : i \in 1 .. Len(s)})
         /\ Cardinality({s[i] : i \in 1 .. Len(s)}) = Len(s)
<1> DEFINE D == 1 .. Len(s)  R == {s[i] : i \in 1 .. Len(s)}
<1>1. s \in [D -> Addr] /\ Len(s) \in Nat
  BY LenProperties
<1>2. IsFiniteSet(D) /\ Cardinality(D) = Len(s)
  <2>1. Len(s) \in Int /\ 1 \in Int
    BY <1>1
  <2>2. IsFiniteSet(D) /\ Cardinality(D) = IF 1 > Len(s) THEN 0 ELSE Len(s) - 1 + 1
    BY <2>1, FS_Interval
  <2> HIDE DEF D
  <2> QED  BY <1>1, <2>2
<1>3. [i \in D |-> s[i]] \in Bijection(D, R)
  BY <1>1 DEF Bijection, Injection, Surjection, IsInjective
<1>4. ExistsBijection(D, R)
  BY <1>3 DEF ExistsBijection
<1>5. IsFiniteSet(R) /\ Cardinality(R) = Len(s)
  BY <1>2, <1>4, FS_Bijection
<1>6. R \in SUBSET Addr
  BY <1>1
<1>7. Cardinality(R) <= Cardinality(Addr)
  BY <1>6, FS_Subset
<1> QED  BY <1>5, <1>7

(* What Chain computes.                                                    *)
LEMMA ChainIs ==
  ASSUME NEW Addr, IsFiniteSet(Addr), NEW null, null \notin Addr,
         NEW next \in [Addr -> Addr \cup {null}],
         NEW a \in Addr \cup {null}, NEW s, IsChain(Addr, null, next, a, s)
  PROVE  Chain(Addr, null, next, a) = s
<1> DEFINE N == Cardinality(Addr)  P == Addr \cup {null}
           on == [x \in P |-> IF x = null THEN null ELSE next[x]]
           Ends(f) == f = [k \in 0 .. N |->
                             IF k = 0 THEN a ELSE IF f[k - 1] = null THEN null ELSE next[f[k - 1]]]
           Behind == CHOOSE f : Ends(f)
<1>1. N \in Nat
  BY FS_CardinalityType
<1>2. \E f : Ends(f)
  <2>1. on \in [P -> P]
    OBVIOUS
  <2>2. PICK f : Iterates(f, P, a, on, 0 .. N)
    <3> HIDE DEF on, P, N
    <3> QED  BY <1>1, <2>1, IteratesTo DEF P
  <2>3. ASSUME NEW k \in 0 .. N
        PROVE  f[k] = IF k = 0 THEN a ELSE IF f[k - 1] = null THEN null ELSE next[f[k - 1]]
    <3>1. CASE k = 0
      BY <2>2, <3>1 DEF Iterates
    <3>2. CASE k # 0
      <4>1. k - 1 \in 0 .. N /\ (k - 1) + 1 = k
        BY <1>1, <3>2
      <4>2. f[k - 1] \in P /\ f[k] = on[f[k - 1]]
        BY <2>2, <4>1 DEF Iterates
      <4> QED  BY <3>2, <4>2
    <3> QED  BY <3>1, <3>2
  <2>4. f = [k \in 0 .. N |-> f[k]]
    BY <2>2 DEF Iterates
  <2>5. Ends(f)
    BY <2>3, <2>4
  <2> QED  BY <2>5
<1>3. Ends(Behind)
  BY <1>2
<1> HIDE DEF Behind
<1>4. \A k \in 0 .. N : Behind[k] =
        IF k = 0 THEN a ELSE IF Behind[k - 1] = null THEN null ELSE next[Behind[k - 1]]
  BY <1>3
<1>5. /\ s \in Seq(Addr) /\ Len(s) \in Nat /\ Len(s) <= N
      /\ \A i \in 1 .. Len(s) : s[i] \in Addr
      /\ s = [i \in 1 .. Len(s) |-> s[i]]
  <2>1. s \in Seq(Addr) /\ \A i, j \in 1 .. Len(s) : s[i] = s[j] => i = j
    BY DEF IsChain
  <2>2. Len(s) <= N
    BY <2>1, ChainIsShort
  <2>3. Len(s) \in Nat /\ s \in [1 .. Len(s) -> Addr]
    BY <2>1, LenProperties
  <2> QED  BY <2>1, <2>2, <2>3
<1>6. \A k \in 0 .. N : Behind[k] = Nth(s, k + 1, null)
  <2> DEFINE T == {k \in 0 .. N : Behind[k] = Nth(s, k + 1, null)}
  <2>1. 0 \in T
    BY <1>1, <1>4 DEF IsChain
  <2>2. ASSUME NEW k \in 0 .. N - 1, k \in T PROVE k + 1 \in T
    <3>1. /\ k + 1 \in 0 .. N /\ k + 1 # 0 /\ (k + 1) - 1 = k
          /\ Behind[k + 1] = IF Behind[k] = null THEN null ELSE next[Behind[k]]
      <4>1. k + 1 \in 0 .. N /\ k + 1 # 0 /\ (k + 1) - 1 = k
        BY <1>1
      <4> HIDE DEF N
      <4> QED  BY <1>4, <4>1
    <3>2. CASE k + 1 \in 1 .. Len(s)
      <4>1. Behind[k] = s[k + 1] /\ s[k + 1] # null
        BY <1>5, <2>2, <3>2 DEF Nth
      <4> QED  BY <3>1, <3>2, <4>1 DEF IsChain
    <3>3. CASE k + 1 \notin 1 .. Len(s)
      <4>1. Behind[k] = null /\ (k + 1) + 1 \notin 1 .. Len(s)
        BY <1>1, <1>5, <2>2, <3>3 DEF Nth
      <4> QED  BY <3>1, <4>1 DEF Nth
    <3> QED  BY <3>2, <3>3
  <2>3. \A k \in 0 .. N : k \in T
    <3> HIDE DEF T, N
    <3> QED  BY <1>1, <2>1, <2>2, SetInductionTo
  <2> QED  BY <2>3
<1>7. {k \in 0 .. N : Behind[k] # null} = 0 .. Len(s) - 1
  BY <1>1, <1>5, <1>6 DEF Nth
<1>8. Cardinality(0 .. Len(s) - 1) = Len(s)
  <2>1. Len(s) - 1 \in Int /\ 0 \in Int
    BY <1>5
  <2>2. Cardinality(0 .. Len(s) - 1) = IF 0 > Len(s) - 1 THEN 0 ELSE (Len(s) - 1) - 0 + 1
    BY <2>1, FS_Interval
  <2> QED  BY <1>5, <2>2
<1>9. [k \in 1 .. Len(s) |-> Behind[k - 1]] = s
  <2>1. \A k \in 1 .. Len(s) : Behind[k - 1] = s[k]
    BY <1>1, <1>5, <1>6 DEF Nth
  <2> QED  BY <1>5, <2>1
<1> QED  BY <1>7, <1>8, <1>9 DEF Chain, Behind

(* A list whose nodes keep their next is the same list.                    *)
LEMMA ChainKept ==
  ASSUME NEW Addr, NEW null, NEW next, NEW a, NEW s, IsChain(Addr, null, next, a, s),
         NEW changed, \A i \in 1 .. Len(s) : changed[s[i]] = next[s[i]]
  PROVE  IsChain(Addr, null, changed, a, s)
BY DEF IsChain

(* A node put in front of it.                                              *)
LEMMA ChainPushed ==
  ASSUME NEW Addr, NEW null, NEW next, NEW a, NEW s, IsChain(Addr, null, next, a, s),
         NEW b \in Addr, \A i \in 1 .. Len(s) : s[i] # b, next[b] = a
  PROVE  IsChain(Addr, null, next, b, <<b>> \o s)
<1> DEFINE r == <<b>> \o s
<1>1. /\ s \in Seq(Addr) /\ Len(s) \in Nat /\ <<b>> \in Seq(Addr) /\ Len(<<b>>) = 1 /\ <<b>>[1] = b
  BY LenProperties DEF IsChain
<1>2. /\ r \in Seq(Addr) /\ Len(r) = Len(s) + 1
      /\ \A i \in 1 .. Len(s) + 1 : r[i] = IF i = 1 THEN b ELSE s[i - 1]
  <2>1. /\ r \in Seq(Addr) /\ Len(r) = 1 + Len(s)
        /\ \A i \in 1 .. 1 + Len(s) : r[i] = IF i <= 1 THEN <<b>>[i] ELSE s[i - 1]
    BY <1>1, ConcatProperties
  <2> HIDE DEF r
  <2> QED  BY <1>1, <2>1
<1> HIDE DEF r
<1>3. ASSUME NEW i \in 1 .. Len(r), NEW j \in 1 .. Len(r), r[i] = r[j] PROVE i = j
  <2>1. \A k \in 1 .. Len(r) : k # 1 => k - 1 \in 1 .. Len(s) /\ r[k] = s[k - 1]
    BY <1>1, <1>2
  <2>2. CASE i # 1 /\ j # 1
    <3>1. i - 1 = j - 1
      <4>1. i - 1 \in 1 .. Len(s) /\ j - 1 \in 1 .. Len(s) /\ s[i - 1] = s[j - 1]
        BY <1>3, <2>1, <2>2
      <4> QED  BY <4>1 DEF IsChain
    <3> QED  BY <1>1, <1>2, <3>1
  <2>3. CASE i = 1 \/ j = 1
    BY <1>1, <1>2, <1>3, <2>1, <2>3
  <2> QED  BY <2>2, <2>3
<1>4. ASSUME NEW i \in 1 .. Len(r) PROVE next[r[i]] = Nth(r, i + 1, null)
  <2>1. Nth(r, i + 1, null) = Nth(s, i, null)
    BY <1>1, <1>2 DEF Nth
  <2>2. CASE i = 1
    BY <1>1, <1>2, <2>1, <2>2 DEF IsChain
  <2>3. CASE i # 1
    <3>1. i - 1 \in 1 .. Len(s) /\ r[i] = s[i - 1] /\ (i - 1) + 1 = i
      BY <1>1, <1>2, <2>3
    <3> QED  BY <2>1, <3>1 DEF IsChain
  <2> QED  BY <2>2, <2>3
<1>5. b = Nth(r, 1, null)
  BY <1>1, <1>2 DEF Nth
<1> QED  BY <1>2, <1>3, <1>4, <1>5 DEF IsChain, r

(* Its first node taken off.                                               *)
LEMMA ChainPopped ==
  ASSUME NEW Addr, NEW null, NEW next, NEW a, NEW s, IsChain(Addr, null, next, a, s),
         s # <<>>
  PROVE  /\ IsChain(Addr, null, next, next[a], Tail(s))
         /\ a = s[1] /\ Head(s) = s[1] /\ Len(s) \in Nat \ {0} /\ Len(Tail(s)) = Len(s) - 1
         /\ \A i \in 1 .. Len(s) - 1 : Tail(s)[i] = s[i + 1]
<1> DEFINE r == Tail(s)
<1>1. s \in Seq(Addr) /\ Len(s) \in Nat \ {0}
  BY EmptySeq DEF IsChain
<1>2. /\ r \in Seq(Addr) /\ Len(r) = Len(s) - 1
      /\ \A i \in 1 .. Len(s) - 1 : r[i] = s[i + 1]
  BY <1>1, HeadTailProperties
<1>0. Head(s) = s[1]
  BY <1>1
<1> HIDE DEF r
<1>3. a = s[1] /\ next[a] = Nth(s, 2, null)
  BY <1>1 DEF IsChain, Nth
<1>4. ASSUME NEW i \in 1 .. Len(r), NEW j \in 1 .. Len(r), r[i] = r[j] PROVE i = j
  <2>1. i + 1 \in 1 .. Len(s) /\ j + 1 \in 1 .. Len(s) /\ s[i + 1] = s[j + 1]
    BY <1>1, <1>2, <1>4
  <2>2. i + 1 = j + 1
    BY <2>1 DEF IsChain
  <2> QED  BY <2>2
<1>5. ASSUME NEW i \in 1 .. Len(r) PROVE next[r[i]] = Nth(r, i + 1, null)
  <2>1. i + 1 \in 1 .. Len(s) /\ r[i] = s[i + 1] /\ Nth(r, i + 1, null) = Nth(s, (i + 1) + 1, null)
    BY <1>1, <1>2 DEF Nth
  <2> QED  BY <2>1 DEF IsChain
<1>6. next[a] = Nth(r, 1, null)
  BY <1>1, <1>2, <1>3 DEF Nth
<1> QED  BY <1>0, <1>1, <1>2, <1>3, <1>4, <1>5, <1>6 DEF IsChain, r

(* A node put behind its last.                                             *)
LEMMA ChainAppended ==
  ASSUME NEW Addr, NEW null, NEW next, NEW a, NEW s, IsChain(Addr, null, next, a, s), s # <<>>,
         NEW b \in Addr, \A i \in 1 .. Len(s) : s[i] # b,
         NEW changed, changed[b] = null, changed[s[Len(s)]] = b,
         \A i \in 1 .. Len(s) - 1 : changed[s[i]] = next[s[i]]
  PROVE  IsChain(Addr, null, changed, a, Append(s, b))
<1> DEFINE r == Append(s, b)
<1>1. s \in Seq(Addr) /\ Len(s) \in Nat \ {0}
  BY EmptySeq DEF IsChain
<1>2. /\ r \in Seq(Addr) /\ Len(r) = Len(s) + 1
      /\ \A i \in 1 .. Len(s) : r[i] = s[i]
      /\ r[Len(s) + 1] = b
  BY <1>1, AppendProperties
<1> HIDE DEF r
<1>3. ASSUME NEW i \in 1 .. Len(r), NEW j \in 1 .. Len(r), r[i] = r[j] PROVE i = j
  <2>1. \A k \in 1 .. Len(r) : k \in 1 .. Len(s) \/ k = Len(s) + 1
    BY <1>1, <1>2
  <2> QED  BY <1>2, <1>3, <2>1 DEF IsChain
<1>4. ASSUME NEW i \in 1 .. Len(r) PROVE changed[r[i]] = Nth(r, i + 1, null)
  <2>1. CASE i = Len(s) + 1
    BY <1>1, <1>2, <2>1 DEF Nth
  <2>2. CASE i = Len(s)
    BY <1>1, <1>2, <2>2 DEF Nth
  <2>3. CASE i \in 1 .. Len(s) - 1
    <3>1. i \in 1 .. Len(s) /\ r[i] = s[i] /\ Nth(r, i + 1, null) = Nth(s, i + 1, null)
      BY <1>1, <1>2, <2>3 DEF Nth
    <3> QED  BY <2>3, <3>1 DEF IsChain
  <2> QED  BY <1>1, <1>2, <2>1, <2>2, <2>3
<1>5. a = Nth(r, 1, null)
  BY <1>1, <1>2 DEF IsChain, Nth
<1> QED  BY <1>2, <1>3, <1>4, <1>5 DEF IsChain, r

-----------------------------------------------------------------------------
(* Sums over finite sets, added up in the order the folds of the community *)
(* modules take: g is the sum of f over each subset of D.                  *)
AnyOf(s) == CHOOSE x \in s : TRUE

IsSum(g, f, D) ==
  /\ g \in [SUBSET D -> Int]
  /\ g = [s \in SUBSET D |-> IF s = {} THEN 0 ELSE f[AnyOf(s)] + g[s \ {AnyOf(s)}]]

LEMMA AnyOfFacts ==
  ASSUME NEW D, IsFiniteSet(D), NEW s \in SUBSET D, s # {}, NEW x \in s
  PROVE  /\ AnyOf(s) \in s /\ s \ {x} \in SUBSET D /\ IsFiniteSet(s) /\ IsFiniteSet(s \ {x})
         /\ Cardinality(s) \in Nat \ {0} /\ Cardinality(s \ {x}) = Cardinality(s) - 1
<1>1. AnyOf(s) \in s
  BY DEF AnyOf
<1>2. IsFiniteSet(s) /\ Cardinality(s) \in Nat
  BY FS_Subset, FS_CardinalityType
<1>3. IsFiniteSet(s \ {x}) /\ Cardinality(s \ {x}) = Cardinality(s) - 1
  BY <1>2, FS_RemoveElement
<1>4. Cardinality(s \ {x}) \in Nat
  BY <1>3, FS_CardinalityType
<1> QED  BY <1>1, <1>2, <1>3, <1>4

(* Induction over the subsets of a finite set: from those with one element *)
(* less.                                                                   *)
LEMMA SubsetInduction ==
  ASSUME NEW D, IsFiniteSet(D), NEW S, {} \in S,
         \A s \in SUBSET D : s # {} /\ (\A x \in s : s \ {x} \in S) => s \in S
  PROVE  \A s \in SUBSET D : s \in S
<1> DEFINE T == {k \in Nat : \A s \in SUBSET D : Cardinality(s) = k => s \in S}
<1>1. 0 \in T
  <2>1. \A s \in SUBSET D : Cardinality(s) = 0 => s = {}
    BY FS_Subset, FS_EmptySet
  <2> QED  BY <2>1
<1>2. ASSUME NEW k \in Nat, k \in T PROVE k + 1 \in T
  <2> SUFFICES ASSUME NEW s \in SUBSET D, Cardinality(s) = k + 1 PROVE s \in S
    OBVIOUS
  <2>1. s # {}
    BY FS_EmptySet
  <2>2. ASSUME NEW x \in s PROVE s \ {x} \in S
    <3>1. s \ {x} \in SUBSET D /\ Cardinality(s \ {x}) = Cardinality(s) - 1
      BY <2>1, <2>2, AnyOfFacts
    <3>2. Cardinality(s \ {x}) = k
      BY <3>1
    <3> QED  BY <1>2, <3>1, <3>2
  <2> QED  BY <2>1, <2>2
<1>3. \A k \in Nat : k \in T
  <2> HIDE DEF T
  <2> QED  BY <1>1, <1>2, SetInduction
<1>4. \A s \in SUBSET D : Cardinality(s) \in Nat
  BY FS_Subset, FS_CardinalityType
<1> QED  BY <1>3, <1>4

LEMMA SumExists ==
  ASSUME NEW D, IsFiniteSet(D), NEW f \in [D -> Int]
  PROVE  \E g : IsSum(g, f, D)
<1> DEFINE Small(k) == {s \in SUBSET D : Cardinality(s) <= k}
           Sums(g, k) == /\ g \in [Small(k) -> Int]
                         /\ \A s \in Small(k) :
                              g[s] = IF s = {} THEN 0 ELSE f[AnyOf(s)] + g[s \ {AnyOf(s)}]
           T == {k \in Nat : \E g : Sums(g, k)}
<1>1. 0 \in T
  <2>1. \A s \in Small(0) : s = {}
    BY FS_Subset, FS_EmptySet, FS_CardinalityType
  <2>2. Sums([s \in Small(0) |-> 0], 0)
    BY <2>1
  <2> QED  BY <2>2
<1>2. ASSUME NEW k \in Nat, k \in T PROVE k + 1 \in T
  <2>1. PICK g : Sums(g, k)
    BY <1>2
  <2> DEFINE new == [s \in Small(k + 1) |-> IF s = {} THEN 0 ELSE f[AnyOf(s)] + g[s \ {AnyOf(s)}]]
  <2>2. ASSUME NEW s \in Small(k + 1), s # {}
        PROVE  /\ AnyOf(s) \in D /\ s \ {AnyOf(s)} \in Small(k) /\ s \ {AnyOf(s)} \in Small(k + 1)
               /\ f[AnyOf(s)] \in Int /\ g[s \ {AnyOf(s)}] \in Int
    <3>1. AnyOf(s) \in s
      BY <2>2 DEF AnyOf
    <3>2. /\ s \ {AnyOf(s)} \in SUBSET D /\ Cardinality(s) \in Nat
          /\ Cardinality(s \ {AnyOf(s)}) = Cardinality(s) - 1
      BY <2>2, <3>1, AnyOfFacts
    <3>3. s \ {AnyOf(s)} \in Small(k) /\ s \ {AnyOf(s)} \in Small(k + 1)
      BY <3>2
    <3> QED  BY <2>1, <3>1, <3>3
  <2>3. new \in [Small(k + 1) -> Int]
    <3> HIDE DEF Small
    <3>1. ASSUME NEW s \in Small(k + 1)
          PROVE  (IF s = {} THEN 0 ELSE f[AnyOf(s)] + g[s \ {AnyOf(s)}]) \in Int
      <4>1. CASE s = {}
        BY <4>1
      <4>2. CASE s # {}
        <5>1. f[AnyOf(s)] \in Int /\ g[s \ {AnyOf(s)}] \in Int
          BY <2>2, <4>2
        <5> QED  BY <4>2, <5>1
      <4> QED  BY <4>1, <4>2
    <3> QED  BY <3>1
  <2>4. ASSUME NEW s \in Small(k) PROVE new[s] = g[s]
    <3>1. s \in Small(k + 1)
      BY FS_Subset, FS_CardinalityType
    <3>2. g[s] = IF s = {} THEN 0 ELSE f[AnyOf(s)] + g[s \ {AnyOf(s)}]
      BY <2>1
    <3> HIDE DEF Small
    <3> QED  BY <3>1, <3>2
  <2>5. ASSUME NEW s \in Small(k + 1)
        PROVE  new[s] = IF s = {} THEN 0 ELSE f[AnyOf(s)] + new[s \ {AnyOf(s)}]
    <3>1. CASE s = {}
      <4> HIDE DEF Small
      <4> QED  BY <3>1
    <3>2. CASE s # {}
      <4>1. s \ {AnyOf(s)} \in Small(k)
        BY <2>2, <3>2
      <4>2. new[s \ {AnyOf(s)}] = g[s \ {AnyOf(s)}]
        BY <2>4, <4>1
      <4>3. new[s] = f[AnyOf(s)] + g[s \ {AnyOf(s)}]
        <5> HIDE DEF Small
        <5> QED  BY <3>2
      <4> HIDE DEF new, Small
      <4> QED  BY <3>2, <4>2, <4>3
    <3> QED  BY <3>1, <3>2
  <2> HIDE DEF new, Small
  <2>6. Sums(new, k + 1)
    BY <2>3, <2>5
  <2> HIDE DEF Sums
  <2> QED  BY <2>6
<1>3. \A k \in Nat : k \in T
  <2> HIDE DEF T
  <2> QED  BY <1>1, <1>2, SetInduction
<1>4. PICK g : Sums(g, Cardinality(D))
  BY <1>3, FS_CardinalityType
<1>5. Small(Cardinality(D)) = SUBSET D
  BY FS_Subset
<1> HIDE DEF Small
<1>6. g \in [SUBSET D -> Int]
  BY <1>4, <1>5
<1>7. \A s \in SUBSET D : g[s] = IF s = {} THEN 0 ELSE f[AnyOf(s)] + g[s \ {AnyOf(s)}]
  BY <1>4, <1>5
<1>8. g = [s \in SUBSET D |-> IF s = {} THEN 0 ELSE f[AnyOf(s)] + g[s \ {AnyOf(s)}]]
  BY <1>6, <1>7
<1> QED  BY <1>6, <1>8 DEF IsSum

LEMMA SumStep ==
  ASSUME NEW D, IsFiniteSet(D), NEW f \in [D -> Int], NEW g, IsSum(g, f, D)
  PROVE  /\ g[{}] = 0 /\ \A s \in SUBSET D : g[s] \in Int
         /\ \A s \in SUBSET D : s # {} => g[s] = f[AnyOf(s)] + g[s \ {AnyOf(s)}]
<1>1. /\ g \in [SUBSET D -> Int]
      /\ g = [s \in SUBSET D |-> IF s = {} THEN 0 ELSE f[AnyOf(s)] + g[s \ {AnyOf(s)}]]
  BY DEF IsSum
<1>2. ASSUME NEW s \in SUBSET D PROVE g[s] = IF s = {} THEN 0 ELSE f[AnyOf(s)] + g[s \ {AnyOf(s)}]
  BY <1>1, Zenon
<1> QED  BY <1>1, <1>2

(* Functions that agree on a set have the same sum over it.                *)
LEMMA SumAlike ==
  ASSUME NEW D, IsFiniteSet(D), NEW f \in [D -> Int], NEW g, IsSum(g, f, D),
         NEW E, IsFiniteSet(E), NEW e \in [E -> Int], NEW d, IsSum(d, e, E),
         NEW s \in SUBSET D, s \in SUBSET E, \A x \in s : f[x] = e[x]
  PROVE  g[s] = d[s]
<1> DEFINE S == {r \in SUBSET s : g[r] = d[r]}
<1>1. {} \in S
  BY SumStep
<1>2. ASSUME NEW r \in SUBSET s, r # {}, \A x \in r : r \ {x} \in S PROVE r \in S
  <2>1. AnyOf(r) \in r
    BY <1>2 DEF AnyOf
  <2>2. g[r] = f[AnyOf(r)] + g[r \ {AnyOf(r)}] /\ d[r] = e[AnyOf(r)] + d[r \ {AnyOf(r)}]
    <3>1. r \in SUBSET D /\ r \in SUBSET E
      BY <1>2
    <3>2. g[r] = f[AnyOf(r)] + g[r \ {AnyOf(r)}]
      BY <1>2, <3>1, SumStep
    <3>3. d[r] = e[AnyOf(r)] + d[r \ {AnyOf(r)}]
      BY <1>2, <3>1, SumStep
    <3> QED  BY <3>2, <3>3
  <2> QED  BY <1>2, <2>1, <2>2
<1>3. IsFiniteSet(s)
  BY FS_Subset
<1>4. s \in S
  <2> HIDE DEF S
  <2> QED  BY <1>1, <1>2, <1>3, SubsetInduction
<1> QED  BY <1>4

(* Whatever element is taken out first.                                    *)
LEMMA SumAny ==
  ASSUME NEW D, IsFiniteSet(D), NEW f \in [D -> Int], NEW g, IsSum(g, f, D),
         NEW s \in SUBSET D, NEW x \in s
  PROVE  g[s] = f[x] + g[s \ {x}]
<1> DEFINE S == {r \in SUBSET D : \A y \in r : g[r] = f[y] + g[r \ {y}]}
<1>1. {} \in S
  OBVIOUS
<1>2. ASSUME NEW r \in SUBSET D, r # {}, \A y \in r : r \ {y} \in S PROVE r \in S
  <2> DEFINE a == AnyOf(r)
  <2>1. a \in r /\ g[r] = f[a] + g[r \ {a}]
    <3>1. a \in r
      BY <1>2 DEF AnyOf
    <3> HIDE DEF S
    <3> QED  BY <1>2, <3>1, SumStep
  <2>2. ASSUME NEW y \in r PROVE g[r] = f[y] + g[r \ {y}]
    <3>1. CASE y = a
      BY <2>1, <3>1
    <3>2. CASE y # a
      <4>1. g[r \ {a}] = f[y] + g[(r \ {a}) \ {y}] /\ g[r \ {y}] = f[a] + g[(r \ {y}) \ {a}]
        BY <1>2, <2>1, <3>2
      <4>2. (r \ {a}) \ {y} = (r \ {y}) \ {a}
        OBVIOUS
      <4>3. f[a] \in Int /\ f[y] \in Int /\ g[(r \ {a}) \ {y}] \in Int
        BY <2>1, SumStep
      <4>4. g[(r \ {a}) \ {y}] = g[(r \ {y}) \ {a}]
        BY <4>2
      <4> HIDE DEF a
      <4> QED  BY <2>1, <4>1, <4>3, <4>4
    <3> QED  BY <3>1, <3>2
  <2> QED  BY <2>2
<1>3. s \in S
  <2> HIDE DEF S
  <2> QED  BY <1>1, <1>2, SubsetInduction
<1> QED  BY <1>3

(* What solves the equation of a sum is one.                               *)
LEMMA SumIs ==
  ASSUME NEW D, IsFiniteSet(D), NEW f \in [D -> Int],
         NEW g, g = [s \in SUBSET D |-> IF s = {} THEN 0 ELSE f[AnyOf(s)] + g[s \ {AnyOf(s)}]]
  PROVE  IsSum(g, f, D)
<1> DEFINE S == {s \in SUBSET D : g[s] \in Int}
<1>1. ASSUME NEW s \in SUBSET D PROVE g[s] = IF s = {} THEN 0 ELSE f[AnyOf(s)] + g[s \ {AnyOf(s)}]
  BY Zenon
<1>2. {} \in S
  BY <1>1
<1>3. ASSUME NEW s \in SUBSET D, s # {}, \A x \in s : s \ {x} \in S PROVE s \in S
  <2>1. AnyOf(s) \in s
    BY <1>3 DEF AnyOf
  <2>2. f[AnyOf(s)] \in Int /\ g[s \ {AnyOf(s)}] \in Int
    BY <1>3, <2>1
  <2>3. g[s] = f[AnyOf(s)] + g[s \ {AnyOf(s)}]
    BY <1>1, <1>3, Zenon
  <2> QED  BY <2>2, <2>3
<1>4. \A s \in SUBSET D : s \in S
  <2> HIDE DEF S
  <2> QED  BY <1>2, <1>3, SubsetInduction
<1>5. g \in [SUBSET D -> Int]
  <2>1. \A s \in SUBSET D : g[s] \in Int
    BY <1>4
  <2>2. g = [s \in SUBSET D |-> g[s]]
    <3>1. DOMAIN g = SUBSET D
      BY Zenon
    <3> QED  BY <1>1, Zenon
  <2> QED  BY <2>1, <2>2
<1> QED  BY <1>5, Zenon DEF IsSum

(* A sum of naturals is the number of pairs of a member and a number up to *)
(* its value.                                                              *)
Pairs(f, D, s) == {v \in D \X Nat : v[1] \in s /\ v[2] \in 1 .. f[v[1]]}

LEMMA SumCounts ==
  ASSUME NEW D, IsFiniteSet(D), NEW f \in [D -> Nat], NEW g, IsSum(g, f, D),
         NEW s \in SUBSET D
  PROVE  IsFiniteSet(Pairs(f, D, s)) /\ Cardinality(Pairs(f, D, s)) = g[s]
<1> DEFINE S == {r \in SUBSET D : /\ IsFiniteSet(Pairs(f, D, r))
                                  /\ Cardinality(Pairs(f, D, r)) = g[r]}
<1>0. f \in [D -> Int]
  OBVIOUS
<1>1. {} \in S
  <2>1. Pairs(f, D, {}) = {}
    BY DEF Pairs
  <2>2. g[{}] = 0
    BY <1>0, SumStep
  <2> QED  BY <2>1, <2>2, FS_EmptySet
<1>2. ASSUME NEW r \in SUBSET D, r # {}, \A y \in r : r \ {y} \in S PROVE r \in S
  <2> DEFINE a == AnyOf(r)  P == Pairs(f, D, r \ {a})  I == 1 .. f[a]  Q == {a} \X I
  <2>1. a \in r /\ f[a] \in Nat /\ g[r] = f[a] + g[r \ {a}]
    BY <1>0, <1>2, SumStep DEF AnyOf
  <2>2. IsFiniteSet(P) /\ Cardinality(P) = g[r \ {a}]
    BY <1>2, <2>1
  <2>3. IsFiniteSet(I) /\ Cardinality(I) = f[a]
    <3>1. 1 \in Int /\ f[a] \in Int
      BY <2>1
    <3>2. IsFiniteSet(I) /\ Cardinality(I) = IF 1 > f[a] THEN 0 ELSE f[a] - 1 + 1
      <4> HIDE DEF a
      <4> QED  BY <3>1, FS_Interval
    <3> HIDE DEF a, I
    <3> QED  BY <2>1, <3>2
  <2>4. IsFiniteSet(Q) /\ Cardinality(Q) = f[a]
    <3>1. IsFiniteSet({a}) /\ Cardinality({a}) = 1
      BY FS_Singleton
    <3> HIDE DEF a, I
    <3>2. IsFiniteSet({a} \X I) /\ Cardinality({a} \X I) = Cardinality({a}) * Cardinality(I)
      BY <2>3, <3>1, FS_Product
    <3> QED  BY <2>1, <2>3, <3>1, <3>2
  <2>5. P \cap Q = {}
    BY DEF Pairs
  <2>6. Pairs(f, D, r) = P \cup Q
    <3> HIDE DEF a
    <3> QED  BY <1>2, <2>1 DEF Pairs
  <2> HIDE DEF a, P, Q, I
  <2>7. IsFiniteSet(P \cup Q) /\ Cardinality(P \cup Q) = Cardinality(P) + Cardinality(Q) - 0
    <3>1. Cardinality(P \cap Q) = 0
      BY <2>5, FS_EmptySet
    <3> QED  BY <2>2, <2>4, <3>1, FS_Union
  <2>8. g[r \ {a}] \in Int
    BY <1>0, SumStep
  <2>9. IsFiniteSet(Pairs(f, D, r))
    BY <2>6, <2>7
  <2>10. Cardinality(Pairs(f, D, r)) = g[r]
    <3>1. Cardinality(Pairs(f, D, r)) = Cardinality(P) + Cardinality(Q) - 0
      BY <2>6, <2>7
    <3> QED  BY <2>1, <2>2, <2>4, <2>8, <3>1
  <2> QED  BY <2>9, <2>10
<1>3. s \in S
  <2> HIDE DEF S
  <2> QED  BY <1>1, <1>2, SubsetInduction
<1> QED  BY <1>3

(* The sum of f over D, and what the proofs need of it: one element more,  *)
(* one value changed, the same values.                                     *)
Total(f, D) == LET h == [x \in D |-> f[x]] IN (CHOOSE g : IsSum(g, h, D))[D]

LEMMA TotalIs ==
  ASSUME NEW D, IsFiniteSet(D), NEW f, \A x \in D : f[x] \in Int,
         NEW e \in [D -> Int], \A x \in D : f[x] = e[x], NEW g, IsSum(g, e, D)
  PROVE  Total(f, D) = g[D] /\ Total(f, D) \in Int
<1> DEFINE h == [x \in D |-> f[x]]
           k == CHOOSE k : IsSum(k, h, D)
<1>1. h = e
  OBVIOUS
<1>2. IsSum(k, h, D)
  <2> HIDE DEF h
  <2> QED  BY <1>1
<1> HIDE DEF h, k
<1>3. k[D] = g[D]
  BY <1>1, <1>2, SumAlike
<1>4. Total(f, D) = k[D]
  BY DEF Total, h, k
<1>5. g[D] \in Int
  BY DEF IsSum
<1> QED  BY <1>3, <1>4, <1>5

LEMMA TotalOfNone == ASSUME NEW f PROVE Total(f, {}) = 0
<1> DEFINE e == [x \in {} |-> f[x]]
<1>1. IsFiniteSet({}) /\ e \in [{} -> Int]
  BY FS_EmptySet
<1> HIDE DEF e
<1>2. PICK g : IsSum(g, e, {})
  BY <1>1, SumExists
<1>3. g[{}] = 0
  BY <1>1, <1>2, SumStep
<1> QED  BY <1>1, <1>2, <1>3, TotalIs

LEMMA TotalAdd ==
  ASSUME NEW D, IsFiniteSet(D), NEW y, y \notin D, NEW f, \A x \in D \cup {y} : f[x] \in Int
  PROVE  /\ Total(f, D) \in Int
         /\ Total(f, D \cup {y}) = Total(f, D) + f[y]
<1> DEFINE E == D \cup {y}
           d == [x \in D |-> f[x]]
           e == [x \in E |-> f[x]]
<1>1. IsFiniteSet(E)
  BY FS_AddElement
<1>2. d \in [D -> Int] /\ e \in [E -> Int] /\ \A x \in D : d[x] = e[x] /\ d[x] = f[x]
  OBVIOUS
<1>3. e[y] = f[y] /\ f[y] \in Int /\ \A x \in E : e[x] = f[x]
  OBVIOUS
<1>4. D \in SUBSET E /\ D \in SUBSET D /\ E \ {y} = D /\ E \in SUBSET E /\ y \in E
  OBVIOUS
<1> HIDE DEF d, e, E
<1>5. PICK g : IsSum(g, d, D)
  BY <1>2, SumExists
<1>6. PICK k : IsSum(k, e, E)
  BY <1>1, <1>2, SumExists
<1>7. k[E] = e[y] + k[D]
  BY <1>1, <1>2, <1>4, <1>6, SumAny
<1>8. g[D] = k[D]
  BY <1>1, <1>2, <1>4, <1>5, <1>6, SumAlike
<1>9. Total(f, D) = g[D] /\ Total(f, D) \in Int
  BY <1>2, <1>3, <1>5, TotalIs DEF E
<1>10. Total(f, E) = k[E]
  BY <1>1, <1>2, <1>3, <1>6, TotalIs DEF E
<1> QED  BY <1>3, <1>7, <1>8, <1>9, <1>10 DEF E

LEMMA TotalAlike ==
  ASSUME NEW D, NEW f, NEW e, \A x \in D : f[x] = e[x]
  PROVE  Total(f, D) = Total(e, D)
<1>1. [x \in D |-> f[x]] = [x \in D |-> e[x]]
  OBVIOUS
<1> QED  BY <1>1 DEF Total

LEMMA TotalChanged ==
  ASSUME NEW D, IsFiniteSet(D), NEW y \in D, NEW f, NEW e,
         \A x \in D : f[x] \in Int /\ e[x] \in Int, \A x \in D \ {y} : f[x] = e[x]
  PROVE  Total(f, D) \in Int /\ Total(e, D) = Total(f, D) - f[y] + e[y]
<1> DEFINE E == D \ {y}
<1>1. IsFiniteSet(E) /\ E \cup {y} = D /\ y \notin E
  BY FS_RemoveElement
<1>2. /\ \A x \in E \cup {y} : f[x] \in Int /\ e[x] \in Int
      /\ \A x \in E : f[x] = e[x]
  OBVIOUS
<1> HIDE DEF E
<1>3. Total(f, E) \in Int /\ Total(f, E \cup {y}) = Total(f, E) + f[y]
  BY <1>1, <1>2, TotalAdd
<1>4. Total(e, E \cup {y}) = Total(e, E) + e[y]
  BY <1>1, <1>2, TotalAdd
<1>5. Total(f, E) = Total(e, E)
  BY <1>2, TotalAlike
<1>6. f[y] \in Int /\ e[y] \in Int
  OBVIOUS
<1>7. Total(f, D) = Total(f, E) + f[y] /\ Total(e, D) = Total(e, E) + e[y]
  <2>1. E \cup {y} = D
    BY <1>1
  <2> QED  BY <1>3, <1>4, <2>1, Zenon
<1> QED  BY <1>3, <1>5, <1>6, <1>7

(* A fold that adds up f over D has this value.                            *)
Solves(g, f, D) ==
  g = [s \in SUBSET D |-> IF s = {} THEN 0 ELSE f[AnyOf(s)] + g[s \ {AnyOf(s)}]]

LEMMA FoldIsTotal ==
  ASSUME NEW D, IsFiniteSet(D), NEW f, \A x \in D : f[x] \in Int
  PROVE  /\ \E g : Solves(g, f, D)
         /\ \A g : Solves(g, f, D) => g[D] = Total(f, D)
         /\ Total(f, D) \in Int
<1> DEFINE e == [x \in D |-> f[x]]
<1>1. e \in [D -> Int] /\ \A x \in D : f[x] = e[x]
  OBVIOUS
<1>2. ASSUME NEW s \in SUBSET D, s # {} PROVE e[AnyOf(s)] = f[AnyOf(s)]
  <2>1. AnyOf(s) \in D
    BY <1>2 DEF AnyOf
  <2> HIDE DEF e
  <2> QED  BY <1>1, <2>1
<1> HIDE DEF e
<1>3. PICK g : IsSum(g, e, D)
  BY <1>1, SumExists
<1>4. Solves(g, f, D)
  <2>1. g = [s \in SUBSET D |-> IF s = {} THEN 0 ELSE e[AnyOf(s)] + g[s \ {AnyOf(s)}]]
    BY <1>3 DEF IsSum
  <2> QED  BY <1>2, <2>1 DEF Solves
<1>5. ASSUME NEW k, Solves(k, f, D) PROVE k[D] = Total(f, D) /\ Total(f, D) \in Int
  <2>1. k = [s \in SUBSET D |-> IF s = {} THEN 0 ELSE e[AnyOf(s)] + k[s \ {AnyOf(s)}]]
    BY <1>2, <1>5 DEF Solves
  <2>2. IsSum(k, e, D)
    BY <1>1, <2>1, SumIs
  <2> QED  BY <1>1, <2>2, TotalIs
<1> QED  BY <1>4, <1>5

LEMMA TotalOfZeros ==
  ASSUME NEW D, IsFiniteSet(D), NEW f, \A x \in D : f[x] = 0
  PROVE  Total(f, D) = 0
<1> DEFINE S == {s \in SUBSET D : Total(f, s) = 0}
<1>1. {} \in S
  BY TotalOfNone
<1>2. ASSUME NEW s \in SUBSET D, s # {}, \A x \in s : s \ {x} \in S PROVE s \in S
  <2>1. PICK y : y \in s
    BY <1>2
  <2> DEFINE r == s \ {y}
  <2>2. r \in SUBSET D /\ Total(f, r) = 0 /\ r \cup {y} = s /\ y \notin r
    BY <1>2, <2>1
  <2>3. IsFiniteSet(r) /\ \A x \in r \cup {y} : f[x] \in Int
    BY <2>1, <2>2, FS_Subset
  <2> HIDE DEF r
  <2>4. Total(f, r \cup {y}) = Total(f, r) + f[y]
    BY <2>2, <2>3, TotalAdd
  <2>5. f[y] = 0
    BY <2>1
  <2> QED  BY <2>2, <2>4, <2>5
<1>3. D \in S
  <2> HIDE DEF S
  <2>1. \A s \in SUBSET D : s \in S
    BY <1>1, <1>2, SubsetInduction, Zenon
  <2> QED  BY <2>1
<1> QED  BY <1>3

(* No part of a sum of naturals is more than the sum.                      *)
LEMMA TotalAtLeast ==
  ASSUME NEW D, IsFiniteSet(D), NEW f, \A x \in D : f[x] \in Nat
  PROVE  Total(f, D) \in Nat /\ \A y \in D : f[y] <= Total(f, D)
<1> DEFINE S == {s \in SUBSET D : Total(f, s) \in Nat /\ \A y \in s : f[y] <= Total(f, s)}
<1>1. {} \in S
  BY TotalOfNone
<1>2. ASSUME NEW s \in SUBSET D, s # {}, \A x \in s : s \ {x} \in S PROVE s \in S
  <2>1. ASSUME NEW y \in s PROVE Total(f, s) \in Nat /\ f[y] <= Total(f, s)
    <3> DEFINE r == s \ {y}
    <3>1. Total(f, r) \in Nat
      BY <1>2, <2>1
    <3>2. IsFiniteSet(r) /\ r \cup {y} = s /\ y \notin r /\ f[y] \in Nat /\ \A x \in r \cup {y} : f[x] \in Int
      BY <1>2, <2>1, FS_Subset
    <3> HIDE DEF r, S
    <3>3. Total(f, r \cup {y}) = Total(f, r) + f[y]
      BY <3>2, TotalAdd
    <3>4. Total(f, s) = Total(f, r) + f[y]
      BY <3>2, <3>3
    <3> QED  BY <3>1, <3>2, <3>4
  <2> QED  BY <1>2, <2>1
<1>3. D \in S
  <2> HIDE DEF S
  <2>1. \A s \in SUBSET D : s \in S
    BY <1>1, <1>2, SubsetInduction, Zenon
  <2> QED  BY <2>1
<1> QED  BY <1>3

-----------------------------------------------------------------------------
(* Powers of two: as many as there are subsets, which is how the prover    *)
(* gets hold of them.                                                      *)
LEMMA PowerStep == ASSUME NEW k \in Nat PROVE 2 ^ k \in Nat /\ 2 ^ (k + 1) = 2 * 2 ^ k
<1> DEFINE S == 1 .. k  x == k + 1  T == 1 .. k + 1
           With == {D \cup {x} : D \in SUBSET S}
<1>1. /\ IsFiniteSet(S) /\ Cardinality(S) = k
      /\ IsFiniteSet(T) /\ Cardinality(T) = k + 1
  BY FS_Interval
<1>2. /\ IsFiniteSet(SUBSET S) /\ Cardinality(SUBSET S) = 2 ^ k
      /\ IsFiniteSet(SUBSET T) /\ Cardinality(SUBSET T) = 2 ^ (k + 1)
  BY <1>1, FS_SUBSET
<1>3. x \notin S /\ T = S \cup {x}
  OBVIOUS
<1> HIDE DEF S, x, T
<1>4. IsFiniteSet(With) /\ Cardinality(With) = Cardinality(SUBSET S)
  <2> DEFINE f == [D \in SUBSET S |-> D \cup {x}]
  <2>1. f \in Bijection(SUBSET S, With)
    <3>1. f \in [SUBSET S -> With] /\ \A E \in With : \E D \in SUBSET S : f[D] = E
      OBVIOUS
    <3>2. ASSUME NEW D \in SUBSET S, NEW E \in SUBSET S, f[D] = f[E] PROVE D = E
      <4>1. D \cup {x} = E \cup {x} /\ x \notin D /\ x \notin E
        BY <1>3, <3>2
      <4>2. \A y : y \in D <=> y \in D \cup {x} /\ y # x
        BY <4>1
      <4>3. \A y : y \in E <=> y \in E \cup {x} /\ y # x
        BY <4>1
      <4> QED  BY <4>1, <4>2, <4>3
    <3> QED  BY <3>1, <3>2 DEF Bijection, Injection, Surjection, IsInjective
  <2> QED  BY <1>2, <2>1, FS_Bijection DEF ExistsBijection
<1>5. SUBSET T = (SUBSET S) \cup With /\ (SUBSET S) \cap With = {}
  <2>1. ASSUME NEW D \in SUBSET T PROVE D \in (SUBSET S) \cup With
    <3>1. CASE x \in D
      <4>1. D = (D \ {x}) \cup {x} /\ D \ {x} \in SUBSET S
        BY <1>3, <3>1
      <4> QED  BY <4>1
    <3>2. CASE x \notin D
      BY <1>3, <3>2
    <3> QED  BY <3>1, <3>2
  <2>2. (SUBSET S) \cup With \subseteq SUBSET T
    BY <1>3
  <2>3. (SUBSET S) \cap With = {}
    BY <1>3
  <2> QED  BY <2>1, <2>2, <2>3
<1> HIDE DEF With
<1> DEFINE Without == SUBSET S
<1>6. Cardinality(SUBSET T) = Cardinality(Without) + Cardinality(With) - 0
  <2> HIDE DEF Without
  <2>1. IsFiniteSet(Without) /\ Without \cap With = {} /\ SUBSET T = Without \cup With
    BY <1>2, <1>5 DEF Without
  <2>2. Cardinality(Without \cup With) = Cardinality(Without) + Cardinality(With) - Cardinality(Without \cap With)
    BY <1>4, <2>1, FS_Union
  <2> QED  BY <2>1, <2>2, FS_EmptySet
<1>7. Cardinality(SUBSET S) \in Nat
  BY <1>2, FS_CardinalityType
<1> QED  BY <1>2, <1>4, <1>6, <1>7

LEMMA PowerOfZero == 2 ^ 0 = 1
<1>1. IsFiniteSet({}) /\ Cardinality({}) = 0
  BY FS_EmptySet
<1>2. Cardinality(SUBSET {}) = 2 ^ 0
  BY <1>1, FS_SUBSET
<1>3. SUBSET {} = {{}} /\ Cardinality({{}}) = 1
  BY FS_Singleton
<1> QED  BY <1>2, <1>3

LEMMA PowersPositive == ASSUME NEW k \in Nat PROVE 2 ^ k \in Nat \ {0}
<1> DEFINE S == {i \in Nat : 2 ^ i \in Nat \ {0}}
<1>1. 0 \in S
  BY PowerOfZero
<1>2. ASSUME NEW i \in Nat, i \in S PROVE i + 1 \in S
  <2>1. 2 ^ i \in Nat \ {0} /\ 2 ^ (i + 1) = 2 * 2 ^ i
    BY <1>2, PowerStep
  <2> QED  BY <2>1
<1>3. k \in S
  <2> HIDE DEF S
  <2> QED  BY <1>1, <1>2, SetInduction
<1> QED  BY <1>3

LEMMA PowersMultiply == ASSUME NEW i \in Nat, NEW j \in Nat PROVE 2 ^ (i + j) = 2 ^ i * 2 ^ j
<1> DEFINE S == {k \in Nat : 2 ^ (i + k) = 2 ^ i * 2 ^ k}
<1>1. 0 \in S
  <2>1. 2 ^ i \in Nat /\ i + 0 = i
    BY PowersPositive
  <2> QED  BY <2>1, PowerOfZero
<1>2. ASSUME NEW k \in Nat, k \in S PROVE k + 1 \in S
  <2>1. i + (k + 1) = (i + k) + 1 /\ i + k \in Nat
    OBVIOUS
  <2>2. 2 ^ (i + (k + 1)) = 2 * 2 ^ (i + k)
    BY <2>1, PowerStep
  <2>3. 2 ^ (k + 1) = 2 * 2 ^ k /\ 2 ^ (i + k) = 2 ^ i * 2 ^ k
    BY <1>2, PowerStep
  <2>4. 2 ^ i \in Nat /\ 2 ^ k \in Nat
    BY PowersPositive
  <2>5. \A p, q \in Nat : 2 * (p * q) = p * (2 * q)
    OBVIOUS
  <2>6. 2 ^ (i + (k + 1)) = 2 ^ i * 2 ^ (k + 1)
    BY <2>2, <2>3, <2>4, <2>5
  <2> QED  BY <2>6
<1>3. j \in S
  <2> HIDE DEF S
  <2> QED  BY <1>1, <1>2, SetInduction
<1> QED  BY <1>3

-----------------------------------------------------------------------------
(* The quotient and the remainder of a division.                           *)
LEMMA DivisionIs ==
  ASSUME NEW a \in Nat, NEW d \in Nat \ {0}, NEW q \in Nat, NEW r \in 0 .. d - 1, a = d * q + r
  PROVE  a \div d = q /\ a % d = r
OBVIOUS

LEMMA Divided ==
  ASSUME NEW a \in Nat, NEW d \in Nat \ {0}
  PROVE  /\ a \div d \in Nat /\ a % d \in 0 .. d - 1
         /\ a = d * (a \div d) + (a % d)
OBVIOUS

-----------------------------------------------------------------------------
LEMMA Products ==
  ASSUME NEW p \in Nat, NEW q \in Nat
  PROVE  p * q \in Nat /\ (p # 0 /\ q # 0 => p * q # 0)
OBVIOUS

LEMMA Distributes ==
  ASSUME NEW p \in Nat, NEW q \in Nat, NEW r \in Nat
  PROVE  p * (q + r) = p * q + p * r
OBVIOUS

LEMMA RemainderScaled ==
  ASSUME NEW x \in Nat, NEW M \in Nat \ {0}, NEW B \in Nat \ {0}
  PROVE  (x * B) % (M * B) = (x % M) * B
<1> DEFINE q == x \div M  r == x % M
<1>1. q \in Nat /\ r \in 0 .. M - 1 /\ x = M * q + r
  BY Divided
<1> HIDE DEF q, r
<1>2. x * B = (M * B) * q + r * B
  BY <1>1
<1>3. r * B \in 0 .. (M * B) - 1
  <2>1. r * B \in Nat /\ (M - 1 - r) * B \in Nat
    BY <1>1, Products
  <2>2. (M - 1 - r) * B = M * B - B - r * B
    BY <1>1
  <2> QED  BY <2>1, <2>2, Products
<1>4. (x * B) % (M * B) = r * B
  <2>1. x * B \in Nat /\ M * B \in Nat \ {0}
    BY Products
  <2> QED  BY <1>1, <1>2, <1>3, <2>1, DivisionIs
<1> QED  BY <1>4 DEF r

LEMMA QuotientScaled ==
  ASSUME NEW y \in Nat, NEW J \in Nat \ {0}, NEW B \in Nat \ {0}
  PROVE  (y * B) \div (J * B) = y \div J
<1> DEFINE q == y \div J  r == y % J
<1>1. q \in Nat /\ r \in 0 .. J - 1 /\ y = J * q + r
  BY Divided
<1> HIDE DEF q, r
<1>2. y * B = (J * B) * q + r * B
  BY <1>1
<1>3. r * B \in 0 .. (J * B) - 1
  <2>1. r * B \in Nat /\ (J - 1 - r) * B \in Nat
    BY <1>1, Products
  <2>2. (J - 1 - r) * B = J * B - B - r * B
    BY <1>1
  <2> QED  BY <2>1, <2>2, Products
<1>4. (y * B) \div (J * B) = q
  <2>1. y * B \in Nat /\ J * B \in Nat \ {0}
    BY Products
  <2> QED  BY <1>1, <1>2, <1>3, <2>1, DivisionIs
<1> QED  BY <1>4 DEF q

(* A digit is not changed by dropping what is above it.                    *)
LEMMA DigitKept ==
  ASSUME NEW x \in Nat, NEW J \in Nat \ {0}, NEW c \in Nat \ {0}
  PROVE  ((x % (J * (2 * c))) \div J) % 2 = (x \div J) % 2
<1> DEFINE M == J * (2 * c)  q == x \div M  y == x % M
<1>1. M \in Nat \ {0}
  BY Products
<1>2. q \in Nat /\ y \in Nat /\ x = M * q + y
  <2> HIDE DEF M
  <2> QED  BY <1>1, Divided
<1> HIDE DEF q, y
<1> DEFINE p == y \div J  r == y % J
<1>3. p \in Nat /\ r \in 0 .. J - 1 /\ y = J * p + r
  BY <1>2, Divided
<1> HIDE DEF p, r
<1>4. c * q \in Nat /\ M * q = J * (2 * (c * q))
  BY <1>2, Products
<1> DEFINE n == c * q
<1>5. x = J * (2 * n + p) + r
  BY <1>2, <1>3, <1>4
<1> HIDE DEF M, n
<1>6. n \in Nat /\ 2 * n + p \in Nat
  BY <1>3, <1>4 DEF n
<1>7. x \div J = 2 * n + p
  BY <1>3, <1>5, <1>6, DivisionIs
<1>8. (2 * n + p) % 2 = p % 2
  BY <1>3, <1>6
<1>9. (y \div J) % 2 = (x \div J) % 2
  BY <1>7, <1>8 DEF p
<1> QED  BY <1>9 DEF y, M

(* Bit i of a word of b + m bits that has been shifted left by b.          *)
LEMMA ShiftedBit ==
  ASSUME NEW x \in Nat, NEW b \in Nat, NEW m \in Nat, NEW i \in 0 .. b + m - 1
  PROVE  LET rest == (x * 2 ^ b) % 2 ^ (b + m)
         IN  (rest \div 2 ^ i) % 2 = IF i < b THEN 0 ELSE (x \div 2 ^ (i - b)) % 2
<1> DEFINE B == 2 ^ b  M == 2 ^ m  y == x % M
<1>1. B \in Nat \ {0} /\ M \in Nat \ {0}
  BY PowersPositive
<1>2. 2 ^ (b + m) = M * B
  <2>1. 2 ^ (b + m) = B * M
    BY PowersMultiply
  <2> QED  BY <1>1, <2>1
<1>3. y \in Nat
  BY <1>1, Divided
<1>4. (x * B) % 2 ^ (b + m) = y * B
  <2> HIDE DEF B, M
  <2>1. (x * B) % (M * B) = (x % M) * B
    BY <1>1, RemainderScaled
  <2> QED  BY <1>2, <2>1
<1>5. CASE i < b
  <2> DEFINE J == 2 ^ i  c == 2 ^ (b - 1 - i)
  <2>1. i \in Nat /\ b - 1 - i \in Nat /\ b = i + ((b - 1 - i) + 1)
    BY <1>5
  <2>2. J \in Nat \ {0} /\ c \in Nat \ {0}
    BY <2>1, PowersPositive
  <2>3. B = J * (2 * c)
    <3>1. B = J * 2 ^ ((b - 1 - i) + 1)
      BY <2>1, PowersMultiply
    <3>2. 2 ^ ((b - 1 - i) + 1) = 2 * c
      BY <2>1, PowerStep
    <3> QED  BY <3>1, <3>2
  <2> DEFINE n == y * c
  <2> HIDE DEF J, c, y, B
  <2>4. n \in Nat /\ 2 * n \in Nat /\ y * B \in Nat
    BY <1>1, <1>3, <2>2, Products
  <2>5. y * B = J * (2 * n) + 0
    BY <1>3, <2>2, <2>3
  <2> HIDE DEF n
  <2>6. (y * B) \div J = 2 * n
    BY <2>2, <2>4, <2>5, DivisionIs
  <2>7. (2 * n) % 2 = 0
    BY <2>4
  <2>8. (((x * B) % 2 ^ (b + m)) \div J) % 2 = 0
    BY <1>4, <2>6, <2>7
  <2> QED  BY <1>5, <2>8 DEF B, J
<1>6. CASE ~ (i < b)
  <2> DEFINE j == i - b  J == 2 ^ j  c == 2 ^ (m - 1 - j)
  <2>1. j \in Nat /\ m - 1 - j \in Nat /\ m = j + ((m - 1 - j) + 1) /\ i = j + b
    BY <1>6
  <2>2. J \in Nat \ {0} /\ c \in Nat \ {0}
    BY <2>1, PowersPositive
  <2>3. M = J * (2 * c)
    <3>1. M = J * 2 ^ ((m - 1 - j) + 1)
      BY <2>1, PowersMultiply
    <3>2. 2 ^ ((m - 1 - j) + 1) = 2 * c
      BY <2>1, PowerStep
    <3> QED  BY <3>1, <3>2
  <2>4. 2 ^ i = J * B
    BY <2>1, PowersMultiply
  <2>5. (y * B) \div (J * B) = y \div J
    BY <1>1, <1>3, <2>2, QuotientScaled
  <2>6. (y \div J) % 2 = (x \div J) % 2
    <3> HIDE DEF J, c, M
    <3>1. ((x % (J * (2 * c))) \div J) % 2 = (x \div J) % 2
      BY <2>2, DigitKept
    <3> QED  BY <2>3, <3>1
  <2>7. (((x * B) % 2 ^ (b + m)) \div 2 ^ i) % 2 = (x \div 2 ^ (i - b)) % 2
    BY <1>4, <2>4, <2>5, <2>6
  <2> QED  BY <1>6, <2>7
<1> QED  BY <1>5, <1>6

(* What is below a product is, divided by one factor, below the other.     *)
LEMMA QuotientBelow ==
  ASSUME NEW i \in Nat, NEW j \in Nat, NEW x \in 0 .. 2 ^ (i + j) - 1
  PROVE  x \div 2 ^ j \in 0 .. 2 ^ i - 1
<1> DEFINE I == 2 ^ i  J == 2 ^ j  q == x \div J  r == x % J
<1>1. I \in Nat \ {0} /\ J \in Nat \ {0}
  BY PowersPositive
<1>2. 2 ^ (i + j) = I * J
  BY PowersMultiply
<1>3. x \in Nat /\ x < I * J
  BY <1>1, <1>2, Products
<1>4. q \in Nat /\ r \in 0 .. J - 1 /\ x = J * q + r
  BY <1>1, <1>3, Divided
<1> HIDE DEF I, J, q, r
<1>5. ASSUME q >= I PROVE FALSE
  <2>1. (q - I) * J \in Nat
    BY <1>1, <1>4, <1>5, Products
  <2>2. (q - I) * J = J * q - I * J
    BY <1>1, <1>4
  <2> QED  BY <1>1, <1>3, <1>4, <2>1, <2>2, Products
<1>6. q \in 0 .. I - 1
  BY <1>1, <1>4, <1>5
<1> QED  BY <1>6 DEF q, I, J

-----------------------------------------------------------------------------
(* Folds over a sequence, as the community modules define them: the last   *)
(* of a set of places is taken in last.                                    *)
LastOf(s) == CHOOSE x \in s : \A y \in s : x >= y

(* The values of a fold over 1 .. m, the element at k taken in by G[k].    *)
Folds(h, S, b0, G, m) ==
  /\ h \in [0 .. m -> S]
  /\ h[0] = b0
  /\ \A k \in 1 .. m : h[k] = G[k][h[k - 1]]

FoldsOn(f, S, b0, G, m) ==
  /\ f \in [SUBSET (1 .. m) -> S]
  /\ \A s \in SUBSET (1 .. m) : f[s] = IF s = {} THEN b0 ELSE G[LastOf(s)][f[s \ {LastOf(s)}]]

LEMMA LastIs ==
  ASSUME NEW m \in Nat, NEW s \in SUBSET (1 .. m), s # {}
  PROVE  LastOf(s) \in s /\ \A y \in s : y <= LastOf(s)
<1> DEFINE R == {m - x : x \in s}
<1>1. R \subseteq Nat /\ R # {}
  <2>1. \A x \in s : m - x \in Nat
    OBVIOUS
  <2>2. PICK x : x \in s
    OBVIOUS
  <2>3. m - x \in R
    BY <2>2
  <2> QED  BY <2>1, <2>3
<1>2. PICK r \in R : \A x \in R : r <= x
  <2> HIDE DEF R
  <2> QED  BY <1>1, HasLeast
<1>3. PICK x \in s : r = m - x
  BY <1>2
<1>4. ASSUME NEW y \in s PROVE x >= y
  <2>1. m - y \in R
    OBVIOUS
  <2> QED  BY <1>2, <1>3, <2>1
<1>5. LastOf(s) \in s /\ \A y \in s : LastOf(s) >= y
  BY <1>4, Zenon DEF LastOf
<1> QED  BY <1>5

LEMMA LastOfAll ==
  ASSUME NEW k \in Nat
  PROVE  LastOf(1 .. k + 1) = k + 1 /\ (1 .. k + 1) \ {k + 1} = 1 .. k
<1> DEFINE s == 1 .. k + 1
<1>1. k + 1 \in Nat /\ s \in SUBSET (1 .. k + 1) /\ k + 1 \in s
  OBVIOUS
<1>2. LastOf(s) \in s /\ \A y \in s : y <= LastOf(s)
  <2> HIDE DEF s
  <2>1. s # {}
    BY <1>1
  <2> QED  BY <1>1, <2>1, LastIs
<1> QED  BY <1>1, <1>2

(* A fold has a value on every set of elements ...                         *)
LEMMA FoldExists ==
  ASSUME NEW m \in Nat, NEW S, NEW b0 \in S, NEW G \in [1 .. m -> [S -> S]]
  PROVE  \E f : FoldsOn(f, S, b0, G, m)
<1> DEFINE T == {k \in 0 .. m : \E f : FoldsOn(f, S, b0, G, k)}
<1>1. 0 \in T
  <2> DEFINE f == [s \in SUBSET (1 .. 0) |-> b0]
  <2>1. 1 .. 0 = {}
    OBVIOUS
  <2>2. SUBSET (1 .. 0) = {{}}
    BY <2>1
  <2>3. f \in [SUBSET (1 .. 0) -> S]
    OBVIOUS
  <2>4. \A s \in SUBSET (1 .. 0) : s = {} /\ f[s] = b0
    BY <2>2
  <2> HIDE DEF f
  <2>5. FoldsOn(f, S, b0, G, 0)
    BY <2>3, <2>4 DEF FoldsOn
  <2> QED  BY <2>5
<1>2. ASSUME NEW k \in 0 .. m - 1, k \in T PROVE k + 1 \in T
  <2>1. PICK f : FoldsOn(f, S, b0, G, k)
    BY <1>2
  <2> DEFINE e == [s \in SUBSET (1 .. k + 1) |->
                     IF k + 1 \in s THEN G[k + 1][f[s \ {k + 1}]] ELSE f[s]]
  <2>2. \A s \in SUBSET (1 .. k + 1) : /\ s \ {k + 1} \in SUBSET (1 .. k)
                                       /\ k + 1 \notin s => s \in SUBSET (1 .. k)
    OBVIOUS
  <2>3. e \in [SUBSET (1 .. k + 1) -> S]
    <3>1. G[k + 1] \in [S -> S]
      OBVIOUS
    <3>2. ASSUME NEW s \in SUBSET (1 .. k + 1) PROVE (IF k + 1 \in s THEN G[k + 1][f[s \ {k + 1}]] ELSE f[s]) \in S
      BY <2>1, <2>2, <3>1 DEF FoldsOn
    <3> QED  BY <3>2
  <2>4. ASSUME NEW s \in SUBSET (1 .. k + 1)
        PROVE  e[s] = IF s = {} THEN b0 ELSE G[LastOf(s)][e[s \ {LastOf(s)}]]
    <3>1. CASE k + 1 \in s
      <4>1. LastOf(s) \in s /\ \A y \in s : y <= LastOf(s)
        <5>1. k + 1 \in Nat /\ s # {}
          BY <3>1
        <5> QED  BY <5>1, LastIs
      <4>2. LastOf(s) = k + 1
        <5>1. LastOf(s) \in 1 .. k + 1 /\ k + 1 <= LastOf(s)
          BY <3>1, <4>1
        <5> QED  BY <5>1
      <4>3. e[s \ {k + 1}] = f[s \ {k + 1}] /\ e[s] = G[k + 1][f[s \ {k + 1}]]
        BY <3>1, <2>2
      <4> QED  BY <3>1, <4>2, <4>3
    <3>2. CASE k + 1 \notin s
      <4>1. s \in SUBSET (1 .. k) /\ e[s] = f[s]
        BY <2>2, <3>2
      <4>2. CASE s = {}
        BY <2>1, <4>1, <4>2 DEF FoldsOn
      <4>3. CASE s # {}
        <5>1. e[s \ {LastOf(s)}] = f[s \ {LastOf(s)}]
          BY <3>2
        <5> QED  BY <2>1, <4>1, <4>3, <5>1 DEF FoldsOn
      <4> QED  BY <4>2, <4>3
    <3> QED  BY <3>1, <3>2
  <2> HIDE DEF e
  <2>5. FoldsOn(e, S, b0, G, k + 1)
    BY <2>3, <2>4 DEF FoldsOn
  <2>6. k + 1 \in 0 .. m
    OBVIOUS
  <2> QED  BY <2>5, <2>6
<1>3. m \in T
  <2> HIDE DEF T
  <2>1. \A k \in 0 .. m : k \in T
    BY <1>1, <1>2, SetInductionTo
  <2> QED  BY <2>1
<1> QED  BY <1>3

(* ... and a function that is b0 on none, and takes in the last of any     *)
(* beginning as G does, has the values of the fold on the beginnings.      *)
LEMMA FoldSteps ==
  ASSUME NEW m \in Nat, NEW S, NEW b0 \in S, NEW G \in [1 .. m -> [S -> S]], NEW f,
         f[{}] = b0,
         \A k \in 0 .. m - 1 : f[1 .. k] \in S => f[1 .. k + 1] = G[k + 1][f[1 .. k]]
  PROVE  Folds([k \in 0 .. m |-> f[1 .. k]], S, b0, G, m)
<1> DEFINE T == {k \in 0 .. m : f[1 .. k] \in S}
           h == [k \in 0 .. m |-> f[1 .. k]]
<1>1. 1 .. 0 = {}
  OBVIOUS
<1>2. 0 \in T
  BY <1>1
<1>3. ASSUME NEW k \in 0 .. m - 1, k \in T PROVE k + 1 \in T
  <2>1. G[k + 1] \in [S -> S] /\ f[1 .. k + 1] = G[k + 1][f[1 .. k]]
    BY <1>3
  <2> QED  BY <1>3, <2>1
<1>4. \A k \in 0 .. m : k \in T
  <2> HIDE DEF T
  <2> QED  BY <1>2, <1>3, SetInductionTo
<1>5. ASSUME NEW k \in 1 .. m PROVE h[k] = G[k][h[k - 1]]
  <2>1. k - 1 \in 0 .. m - 1 /\ (k - 1) + 1 = k /\ k - 1 \in T
    BY <1>4
  <2>2. f[1 .. (k - 1) + 1] = G[(k - 1) + 1][f[1 .. (k - 1)]]
    BY <2>1
  <2> QED  BY <2>1, <2>2
<1> QED  BY <1>1, <1>4, <1>5 DEF Folds
=============================================================================
