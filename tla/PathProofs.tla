----------------------------- MODULE PathProofs -----------------------------
(***************************************************************************)
(* The algorithms that measure paths, on graphs of any size: Bellman-Ford, *)
(* Dijkstra, guided searches and the ways walked back, breadth-first       *)
(* search, Floyd-Warshall, and the programs that use them.                 *)
(***************************************************************************)
EXTENDS PathProblems, DataFacts

-----------------------------------------------------------------------------
(* Bellman-Ford for any graph.                                             *)
Dists(g) == UNION {[A -> Int] : A \in SUBSET NodesOf(g)}

(* Nothing is further than before.                                         *)
NotFurther(D, C) == DOMAIN C \subseteq DOMAIN D /\ \A v \in DOMAIN C : D[v] <= C[v]

LEMMA WithIs ==
  ASSUME NEW D, NEW v, NEW d
  PROVE  With(D, v, d) = [x \in DOMAIN D \cup {v} |-> IF x = v THEN d ELSE D[x]]
BY DEF With

LEMMA EdgeIs ==
  ASSUME NEW g, IsGraph(g)
  PROVE  /\ Len(g.edges) \in Nat /\ DOMAIN g.edges = 1 .. Len(g.edges)
         /\ \A k \in 1 .. Len(g.edges) : /\ g.edges[k] \in EdgesOf(g)
                                         /\ g.edges[k].from \in NodesOf(g)
                                         /\ g.edges[k].to \in NodesOf(g)
                                         /\ g.edges[k].weight \in Int
         /\ \A e \in EdgesOf(g) : /\ \E k \in 1 .. Len(g.edges) : g.edges[k] = e
                                  /\ e.from \in NodesOf(g)
                                  /\ e.to \in NodesOf(g)
                                  /\ e.weight \in Int
<1> DEFINE E == [from : NodesOf(g), to : NodesOf(g), weight : Int]
<1>1. \A e \in E : e.from \in NodesOf(g) /\ e.to \in NodesOf(g) /\ e.weight \in Int
  OBVIOUS
<1>2. g.edges \in Seq(E)
  BY DEF IsGraph
<1> HIDE DEF E
<1>3. \A k \in 1 .. Len(g.edges) : g.edges[k] \in E
  BY <1>2
<1>4. Len(g.edges) \in Nat /\ DOMAIN g.edges = 1 .. Len(g.edges)
  BY <1>2
<1> QED  BY <1>1, <1>3, <1>4 DEF EdgesOf, ToSet

LEMMA RelaxIs ==
  ASSUME NEW g, IsGraph(g), NEW D \in Dists(g), NEW e \in EdgesOf(g)
  PROVE  /\ Relax(D, e) \in Dists(g)
         /\ NotFurther(Relax(D, e), D)
         /\ e.from \in DOMAIN D =>
              /\ e.to \in DOMAIN Relax(D, e)
              /\ Relax(D, e)[e.to] <= D[e.from] + e.weight
         /\ \A v \in DOMAIN Relax(D, e) :
              \/ v \in DOMAIN D /\ Relax(D, e)[v] = D[v]
              \/ v = e.to /\ e.from \in DOMAIN D /\ Relax(D, e)[v] = D[e.from] + e.weight
<1>1. e.from \in NodesOf(g) /\ e.to \in NodesOf(g) /\ e.weight \in Int
  BY EdgeIs
<1>2. PICK A \in SUBSET NodesOf(g) : D \in [A -> Int]
  BY DEF Dists
<1>3. CASE Improves(D, e)
  <2> DEFINE B == A \cup {e.to}
             d == D[e.from] + e.weight
             C == [x \in B |-> IF x = e.to THEN d ELSE D[x]]
  <2>1. Relax(D, e) = C
    <3>1. Relax(D, e) = With(D, e.to, D[e.from] + e.weight)
      BY <1>3 DEF Relax
    <3> QED  BY <1>2, <3>1, WithIs
  <2>2. e.from \in A /\ d \in Int /\ (e.to \in A => d < D[e.to])
    BY <1>1, <1>2, <1>3 DEF Improves, Closer
  <2>3. \A x \in A : D[x] \in Int
    BY <1>2
  <2>4. B \in SUBSET NodesOf(g) /\ A \subseteq B /\ e.to \in B
    BY <1>1
  <2> HIDE DEF d
  <2>5. C \in [B -> Int]
    BY <2>2, <2>3
  <2>6. C \in Dists(g)
    <3> HIDE DEF C, B
    <3> QED  BY <2>4, <2>5 DEF Dists
  <2>7. NotFurther(C, D)
    BY <1>2, <2>2, <2>3 DEF NotFurther
  <2>8. e.to \in DOMAIN C /\ C[e.to] = d
    BY <2>4
  <2>9. \A v \in DOMAIN C : (v \in DOMAIN D /\ C[v] = D[v]) \/ (v = e.to /\ C[v] = d)
    BY <1>2
  <2> HIDE DEF C, B
  <2> QED  BY <1>2, <2>1, <2>2, <2>6, <2>7, <2>8, <2>9 DEF d
<1>4. CASE ~Improves(D, e)
  <2>1. Relax(D, e) = D
    BY <1>4 DEF Relax
  <2>2. \A x \in DOMAIN D : D[x] \in Int
    BY <1>2
  <2>3. e.from \in DOMAIN D => e.to \in DOMAIN D /\ D[e.to] <= D[e.from] + e.weight
    BY <1>1, <1>4, <2>2 DEF Improves, Closer
  <2> QED  BY <2>1, <2>2, <2>3 DEF NotFurther
<1> QED  BY <1>3, <1>4

LEMMA DistIsInt == ASSUME NEW g, NEW D \in Dists(g) PROVE DOMAIN D \subseteq NodesOf(g) /\ \A v \in DOMAIN D : D[v] \in Int
BY DEF Dists

(* The states of a pass, one edge after another.                           *)
PassStates(g, D, H) ==
  /\ H \in [0 .. Len(g.edges) -> Dists(g)]
  /\ H[0] = D
  /\ \A k \in 1 .. Len(g.edges) : H[k] = Relax(H[k - 1], g.edges[k])
  /\ H[Len(g.edges)] = BellmanPass(D, g.edges)

(* A pass is the distances after each of its edges, one after another ...  *)
LEMMA PassFolds ==
  ASSUME NEW g, IsGraph(g), NEW D \in Dists(g)
  PROVE  \E H : PassStates(g, D, H)
<1> DEFINE E == g.edges
           m == Len(E)
           S == Dists(g)
           G == [k \in 1 .. m |-> [x \in S |-> Relax(x, E[k])]]
           It(f) == f = [s \in SUBSET DOMAIN E |->
                           IF s = {} THEN D
                           ELSE LET x == Max(s) IN Relax(f[s \ {x}], E[x])]
           fold == CHOOSE f : It(f)
<1>1. m \in Nat /\ DOMAIN E = 1 .. m /\ \A k \in 1 .. m : E[k] \in EdgesOf(g)
  BY EdgeIs
<1>2. \A k \in 1 .. m, x \in S : Relax(x, E[k]) \in S
  BY <1>1, RelaxIs
<1>3. BellmanPass(D, E) = fold[1 .. m]
  BY <1>1 DEF BellmanPass, FoldLeft, MapThenFoldSet
<1>4. \A s : Max(s) = LastOf(s)
  BY DEF Max, LastOf
<1> HIDE DEF E, m, S, fold
<1>5. G \in [1 .. m -> [S -> S]]
  BY <1>2
<1>6. \A k \in 1 .. m, x \in S : G[k][x] = Relax(x, E[k])
  OBVIOUS
<1> HIDE DEF G
<1>7. D \in S
  BY DEF S
<1>8. PICK f : FoldsOn(f, S, D, G, m)
  BY <1>1, <1>5, <1>7, FoldExists
<1>9. It(f)
  <2>1. ASSUME NEW s \in SUBSET (1 .. m), s # {}
        PROVE  G[LastOf(s)][f[s \ {LastOf(s)}]] = Relax(f[s \ {Max(s)}], E[Max(s)])
    <3>1. LastOf(s) \in 1 .. m
      BY <1>1, <2>1, LastIs
    <3>2. f[s \ {LastOf(s)}] \in S
      BY <1>8 DEF FoldsOn
    <3> QED  BY <1>4, <1>6, <3>1, <3>2
  <2>2. f = [s \in SUBSET (1 .. m) |-> IF s = {} THEN D ELSE Relax(f[s \ {Max(s)}], E[Max(s)])]
    <3>1. f = [s \in SUBSET (1 .. m) |-> f[s]]
      BY <1>8 DEF FoldsOn
    <3>2. \A s \in SUBSET (1 .. m) : f[s] = IF s = {} THEN D ELSE Relax(f[s \ {Max(s)}], E[Max(s)])
      BY <1>8, <2>1 DEF FoldsOn
    <3> QED  BY <3>1, <3>2
  <2> QED  BY <1>1, <2>2
<1>10. It(fold)
  BY <1>9 DEF fold
<1>11. fold[{}] = D
  BY <1>10
<1>12. ASSUME NEW k \in 0 .. m - 1, fold[1 .. k] \in S
       PROVE  fold[1 .. k + 1] = G[k + 1][fold[1 .. k]]
  <2>1. 1 .. k + 1 \in SUBSET DOMAIN E /\ 1 .. k + 1 # {}
    <3>1. 1 .. k + 1 \subseteq 1 .. m /\ 1 \in 1 .. k + 1
      BY <1>1
    <3> QED  BY <1>1, <3>1
  <2>2. Max(1 .. k + 1) = k + 1 /\ (1 .. k + 1) \ {k + 1} = 1 .. k
    <3>1. k \in Nat
      BY <1>1
    <3> QED  BY <1>4, <3>1, LastOfAll
  <2>3. fold[1 .. k + 1] = Relax(fold[(1 .. k + 1) \ {Max(1 .. k + 1)}], E[Max(1 .. k + 1)])
    BY <1>10, <2>1
  <2>4. k + 1 \in 1 .. m
    BY <1>1
  <2> QED  BY <1>6, <1>12, <2>2, <2>3, <2>4
<1> DEFINE H == [k \in 0 .. m |-> fold[1 .. k]]
<1>13. Folds(H, S, D, G, m)
  BY <1>1, <1>5, <1>7, <1>11, <1>12, FoldSteps
<1>14. H[m] = BellmanPass(D, E)
  BY <1>1, <1>3
<1> HIDE DEF H
<1>15. \A k \in 1 .. m : H[k - 1] \in S /\ H[k] = Relax(H[k - 1], E[k])
  BY <1>1, <1>6, <1>13 DEF Folds
<1> QED  BY <1>13, <1>14, <1>15 DEF Folds, PassStates, E, m, S

(* What a pass does: nothing is further than before, what an edge leads to *)
(* is no further than the edge allows, and every distance is an old one or *)
(* one relaxed.                                                            *)
LEMMA NotFurtherTrans ==
  ASSUME NEW g, NEW A \in Dists(g), NEW D \in Dists(g), NEW C \in Dists(g),
         NotFurther(A, D), NotFurther(D, C)
  PROVE  NotFurther(A, C)
<1>1. \A v \in DOMAIN C : A[v] \in Int /\ D[v] \in Int /\ C[v] \in Int
  BY DistIsInt DEF NotFurther
<1>2. \A v \in DOMAIN C : v \in DOMAIN D /\ v \in DOMAIN A /\ D[v] <= C[v] /\ A[v] <= D[v]
  BY DEF NotFurther
<1> QED  BY <1>1, <1>2 DEF NotFurther

LEMMA PassOnlyImproves ==
  ASSUME NEW g, IsGraph(g), NEW D \in Dists(g), NEW H, PassStates(g, D, H)
  PROVE  \A k \in 0 .. Len(g.edges) : NotFurther(H[k], D) /\ NotFurther(H[Len(g.edges)], H[k])
<1> DEFINE m == Len(g.edges)
           T == {k \in 0 .. m : NotFurther(H[k], D)}
           R == {k \in 0 .. m : NotFurther(H[m], H[m - k])}
<1>1. /\ m \in Nat /\ H[0] = D
      /\ \A k \in 0 .. m : H[k] \in Dists(g)
      /\ \A k \in 1 .. m : NotFurther(H[k], H[k - 1])
  <2>1. m \in Nat /\ H[0] = D /\ \A k \in 0 .. m : H[k] \in Dists(g)
    BY EdgeIs DEF PassStates
  <2>2. ASSUME NEW k \in 1 .. m PROVE NotFurther(H[k], H[k - 1])
    <3>1. H[k - 1] \in Dists(g) /\ g.edges[k] \in EdgesOf(g) /\ H[k] = Relax(H[k - 1], g.edges[k])
      BY <2>1, EdgeIs DEF PassStates
    <3> QED  BY <3>1, RelaxIs
  <2> QED  BY <2>1, <2>2
<1> HIDE DEF m
<1>2. ASSUME NEW C \in Dists(g) PROVE NotFurther(C, C)
  BY DistIsInt DEF NotFurther
<1>3. 0 \in T /\ 0 \in R
  BY <1>1, <1>2
<1>4. ASSUME NEW k \in 0 .. m - 1, k \in T PROVE k + 1 \in T
  <2>1. k + 1 \in 1 .. m /\ (k + 1) - 1 = k /\ k \in 0 .. m /\ k + 1 \in 0 .. m
    BY <1>1
  <2>2. NotFurther(H[k + 1], H[k]) /\ H[k] \in Dists(g) /\ H[k + 1] \in Dists(g)
    BY <1>1, <2>1
  <2>3. NotFurther(H[k + 1], D)
    BY <1>4, <2>2, NotFurtherTrans
  <2> QED  BY <2>1, <2>3
<1>5. ASSUME NEW k \in 0 .. m - 1, k \in R PROVE k + 1 \in R
  <2>1. m - k \in 1 .. m /\ (m - k) - 1 = m - (k + 1) /\ m - (k + 1) \in 0 .. m /\ m - k \in 0 .. m
        /\ k + 1 \in 0 .. m /\ m \in 0 .. m
    BY <1>1
  <2>2. NotFurther(H[m - k], H[m - (k + 1)])
    BY <1>1, <2>1
  <2>3. NotFurther(H[m], H[m - (k + 1)])
    <3>1. NotFurther(H[m], H[m - k])
      BY <1>5
    <3>2. H[m] \in Dists(g) /\ H[m - k] \in Dists(g) /\ H[m - (k + 1)] \in Dists(g)
      BY <1>1, <2>1
    <3> QED  BY <2>2, <3>1, <3>2, NotFurtherTrans
  <2> QED  BY <2>1, <2>3
<1>6. \A k \in 0 .. m : k \in T
  <2> HIDE DEF T
  <2> QED  BY <1>1, <1>3, <1>4, SetInductionTo
<1>7. \A k \in 0 .. m : k \in R
  <2> HIDE DEF R
  <2> QED  BY <1>1, <1>3, <1>5, SetInductionTo
<1>8. ASSUME NEW k \in 0 .. m PROVE NotFurther(H[m], H[k])
  <2>1. m - k \in 0 .. m /\ m - (m - k) = k
    BY <1>1
  <2> QED  BY <1>7, <2>1
<1> QED  BY <1>6, <1>8 DEF m

LEMMA PassIs ==
  ASSUME NEW g, IsGraph(g), NEW D \in Dists(g)
  PROVE  LET N == BellmanPass(D, g.edges)
         IN  /\ N \in Dists(g) /\ NotFurther(N, D)
             /\ \A e \in EdgesOf(g) :
                   e.from \in DOMAIN D => e.to \in DOMAIN N /\ N[e.to] <= D[e.from] + e.weight
<1> DEFINE m == Len(g.edges)
           N == BellmanPass(D, g.edges)
<1>1. PICK H : PassStates(g, D, H)
  BY PassFolds
<1>2. /\ m \in Nat /\ H[0] = D /\ H[m] = N
      /\ \A k \in 0 .. m : H[k] \in Dists(g)
      /\ \A k \in 1 .. m : H[k] = Relax(H[k - 1], g.edges[k])
  BY <1>1, EdgeIs DEF PassStates
<1>3. \A k \in 0 .. m : NotFurther(H[k], D) /\ NotFurther(N, H[k])
  BY <1>1, <1>2, PassOnlyImproves
<1> HIDE DEF N
<1>4. N \in Dists(g) /\ NotFurther(N, D)
  BY <1>2, <1>3
<1>5. ASSUME NEW e \in EdgesOf(g), e.from \in DOMAIN D
      PROVE  e.to \in DOMAIN N /\ N[e.to] <= D[e.from] + e.weight
  <2>1. PICK k \in 1 .. m : g.edges[k] = e
    BY EdgeIs
  <2>2. k \in 0 .. m /\ k - 1 \in 0 .. m
    BY <1>2
  <2>3. H[k] = Relax(H[k - 1], e) /\ H[k] \in Dists(g) /\ H[k - 1] \in Dists(g)
    BY <1>2, <2>1, <2>2
  <2>4. e.from \in DOMAIN H[k - 1] /\ H[k - 1][e.from] <= D[e.from]
    BY <1>3, <1>5, <2>2 DEF NotFurther
  <2>5. e.to \in DOMAIN H[k] /\ H[k][e.to] <= H[k - 1][e.from] + e.weight
    BY <2>3, <2>4, RelaxIs
  <2>6. e.to \in DOMAIN N /\ N[e.to] <= H[k][e.to]
    BY <1>3, <2>2, <2>5 DEF NotFurther
  <2>7. /\ D[e.from] \in Int /\ H[k - 1][e.from] \in Int /\ e.weight \in Int
        /\ H[k][e.to] \in Int /\ N[e.to] \in Int
    BY <1>4, <1>5, <2>3, <2>4, <2>5, <2>6, EdgeIs, DistIsInt
  <2> QED  BY <2>4, <2>5, <2>6, <2>7
<1> QED  BY <1>4, <1>5 DEF N

(* The states of bellmanFord, one pass after another.                      *)
RunStates(g, s, H) ==
  /\ H \in [0 .. g.n - 1 -> Dists(g)]
  /\ H[0] = OnlySource(s)
  /\ \A k \in 1 .. g.n - 1 : H[k] = BellmanPass(H[k - 1], g.edges)
  /\ H[g.n - 1] = bellmanFord(g, s)

(* ... and a run is those after each of its passes.                        *)
LEMMA RunFolds ==
  ASSUME NEW g, IsGraph(g), NEW s \in NodesOf(g)
  PROVE  \E H : RunStates(g, s, H)
<1> DEFINE m == g.n - 1
           E == [x \in 1 .. Passes(g) |-> x]
           D == OnlySource(s)
           S == Dists(g)
           G == [k \in 1 .. m |-> [x \in S |-> BellmanPass(x, g.edges)]]
           It(f) == f = [r \in SUBSET DOMAIN E |->
                           IF r = {} THEN D
                           ELSE LET x == Max(r) IN BellmanPass(f[r \ {x}], g.edges)]
           fold == CHOOSE f : It(f)
<1>1. m \in Nat /\ DOMAIN E = 1 .. m
  BY DEF IsGraph, NodesOf, Passes
<1>2. \A x \in S : BellmanPass(x, g.edges) \in S
  BY PassIs
<1>3. bellmanFord(g, s) = fold[1 .. m]
  BY <1>1 DEF bellmanFord, FoldLeft, MapThenFoldSet
<1>4. \A r : Max(r) = LastOf(r)
  BY DEF Max, LastOf
<1>7. D \in S
  <2>1. D \in [{s} -> Int] /\ {s} \in SUBSET NodesOf(g)
    BY DEF OnlySource
  <2> HIDE DEF D
  <2> QED  BY <2>1 DEF Dists
<1> HIDE DEF E, m, S, D, fold
<1>5. G \in [1 .. m -> [S -> S]]
  BY <1>2
<1>6. \A k \in 1 .. m, x \in S : G[k][x] = BellmanPass(x, g.edges)
  OBVIOUS
<1> HIDE DEF G
<1>8. PICK f : FoldsOn(f, S, D, G, m)
  BY <1>1, <1>5, <1>7, FoldExists
<1>9. It(f)
  <2>1. ASSUME NEW r \in SUBSET (1 .. m), r # {}
        PROVE  G[LastOf(r)][f[r \ {LastOf(r)}]] = BellmanPass(f[r \ {Max(r)}], g.edges)
    <3>1. LastOf(r) \in 1 .. m
      BY <1>1, <2>1, LastIs
    <3>2. f[r \ {LastOf(r)}] \in S
      BY <1>8 DEF FoldsOn
    <3> QED  BY <1>4, <1>6, <3>1, <3>2
  <2>2. f = [r \in SUBSET (1 .. m) |-> IF r = {} THEN D ELSE BellmanPass(f[r \ {Max(r)}], g.edges)]
    <3>1. f = [r \in SUBSET (1 .. m) |-> f[r]]
      BY <1>8 DEF FoldsOn
    <3>2. \A r \in SUBSET (1 .. m) : f[r] = IF r = {} THEN D ELSE BellmanPass(f[r \ {Max(r)}], g.edges)
      BY <1>8, <2>1 DEF FoldsOn
    <3> QED  BY <3>1, <3>2
  <2> QED  BY <1>1, <2>2
<1>10. It(fold)
  BY <1>9 DEF fold
<1>11. fold[{}] = D
  BY <1>10
<1>12. ASSUME NEW k \in 0 .. m - 1, fold[1 .. k] \in S
       PROVE  fold[1 .. k + 1] = G[k + 1][fold[1 .. k]]
  <2>1. 1 .. k + 1 \in SUBSET DOMAIN E /\ 1 .. k + 1 # {}
    <3>1. 1 .. k + 1 \subseteq 1 .. m /\ 1 \in 1 .. k + 1
      BY <1>1
    <3> QED  BY <1>1, <3>1
  <2>2. Max(1 .. k + 1) = k + 1 /\ (1 .. k + 1) \ {k + 1} = 1 .. k
    <3>1. k \in Nat
      BY <1>1
    <3> QED  BY <1>4, <3>1, LastOfAll
  <2>3. fold[1 .. k + 1] = BellmanPass(fold[(1 .. k + 1) \ {Max(1 .. k + 1)}], g.edges)
    BY <1>10, <2>1
  <2>4. k + 1 \in 1 .. m
    BY <1>1
  <2> QED  BY <1>6, <1>12, <2>2, <2>3, <2>4
<1> DEFINE H == [k \in 0 .. m |-> fold[1 .. k]]
<1>13. Folds(H, S, D, G, m)
  BY <1>1, <1>5, <1>7, <1>11, <1>12, FoldSteps
<1>14. H[m] = bellmanFord(g, s)
  BY <1>1, <1>3
<1> HIDE DEF H
<1>15. \A k \in 1 .. m : H[k - 1] \in S /\ H[k] = BellmanPass(H[k - 1], g.edges)
  BY <1>1, <1>6, <1>13 DEF Folds
<1> QED  BY <1>13, <1>14, <1>15 DEF Folds, RunStates, m, S, D

(* The lightest edge between two nodes is one of them.                     *)
LEMMA FiniteHasLeast ==
  ASSUME NEW S, IsFiniteSet(S), S \subseteq Int, S # {}
  PROVE  \E x \in S : \A y \in S : x <= y
<1> DEFINE T == {r \in SUBSET S : r = {} \/ \E x \in r : \A y \in r : x <= y}
<1>1. {} \in T
  OBVIOUS
<1>2. ASSUME NEW r \in SUBSET S, r # {}, \A x \in r : r \ {x} \in T PROVE r \in T
  <2>1. PICK z : z \in r
    BY <1>2
  <2>2. z \in Int /\ r \ {z} \in T
    BY <1>2, <2>1
  <2>3. CASE r \ {z} = {}
    <3>1. \A y \in r : z <= y
      BY <2>1, <2>2, <2>3
    <3> QED  BY <2>1, <3>1
  <2>4. CASE r \ {z} # {}
    <3>1. PICK x \in r \ {z} : \A y \in r \ {z} : x <= y
      BY <2>2, <2>4
    <3>2. x \in Int
      BY <1>2
    <3>3. CASE x <= z
      <4>1. \A y \in r : x <= y
        BY <3>1, <3>3
      <4> QED  BY <4>1
    <3>4. CASE ~(x <= z)
      <4>1. \A y \in r : z <= y
        <5>1. ASSUME NEW y \in r PROVE z <= y
          <6>1. y \in Int /\ (y = z \/ x <= y)
            BY <1>2, <3>1
          <6> QED  BY <2>2, <3>2, <3>4, <6>1
        <5> QED  BY <5>1
      <4> QED  BY <2>1, <4>1
    <3> QED  BY <3>3, <3>4
  <2> QED  BY <2>3, <2>4
<1>3. \A r \in SUBSET S : r \in T
  <2> HIDE DEF T
  <2> QED  BY <1>1, <1>2, SubsetInduction, Zenon
<1> QED  BY <1>3

LEMMA MinIsLeast ==
  ASSUME NEW S, S \subseteq Int, NEW x \in S, \A y \in S : x <= y
  PROVE  Min(S) = x
<1>1. Min(S) \in S /\ \A y \in S : Min(S) <= y
  BY Zenon DEF Min
<1>2. Min(S) <= x /\ x <= Min(S) /\ x \in Int /\ Min(S) \in Int
  BY <1>1
<1> QED  BY <1>2

LEMMA LightestEdge ==
  ASSUME NEW g, IsGraph(g), NEW e \in EdgesOf(g)
  PROVE  /\ WeightOf(g, e.from, e.to) \in Int
         /\ WeightOf(g, e.from, e.to) <= e.weight
         /\ \E d \in EdgesOf(g) : /\ d.from = e.from /\ d.to = e.to
                                  /\ d.weight = WeightOf(g, e.from, e.to)
<1> DEFINE F == {f \in EdgesOf(g) : f.from = e.from /\ f.to = e.to}
           V == {f.weight : f \in F}
           E == g.edges
<1>1. IsFiniteSet(V)
  <2> DEFINE R == {E[k].weight : k \in 1 .. Len(E)}
  <2>1. IsFiniteSet(1 .. Len(E))
    BY EdgeIs, FS_Interval
  <2>2. [k \in 1 .. Len(E) |-> E[k].weight] \in Surjection(1 .. Len(E), R)
    BY DEF Surjection
  <2>3. IsFiniteSet(R)
    BY <2>1, <2>2, FS_Surjection
  <2>4. V \subseteq R
    BY EdgeIs
  <2> QED  BY <2>3, <2>4, FS_Subset
<1>2. V \subseteq Int /\ e.weight \in V
  BY EdgeIs
<1> HIDE DEF V
<1>3. PICK x \in V : \A y \in V : x <= y
  BY <1>1, <1>2, FiniteHasLeast
<1>4. Min(V) = x
  BY <1>2, <1>3, MinIsLeast
<1>5. WeightOf(g, e.from, e.to) = x
  BY <1>4 DEF WeightOf, V
<1>6. \E d \in F : d.weight = x
  BY <1>3 DEF V
<1> QED  BY <1>2, <1>3, <1>5, <1>6

(* The cost at every node of a path.                                       *)
Costs(g, p, c) ==
  /\ c \in [1 .. Len(p) -> Int]
  /\ c[1] = 0
  /\ \A i \in 1 .. Len(p) - 1 : c[i + 1] = c[i] + WeightOf(g, p[i], p[i + 1])

LEMMA StepsWeigh ==
  ASSUME NEW g, IsGraph(g), NEW p, IsPath(g, p), NEW i \in 1 .. Len(p) - 1
  PROVE  /\ WeightOf(g, p[i], p[i + 1]) \in Int
         /\ \E e \in EdgesOf(g) : /\ e.from = p[i] /\ e.to = p[i + 1]
                                  /\ e.weight = WeightOf(g, p[i], p[i + 1])
<1>1. PICK e \in EdgesOf(g) : e.from = p[i] /\ e.to = p[i + 1]
  BY DEF IsPath
<1> QED  BY <1>1, LightestEdge

(* The length of a path is the cost at its last node.                      *)
LEMMA LengthFolds ==
  ASSUME NEW g, IsGraph(g), NEW p, Len(p) \in Nat \ {0}, IsPath(g, p)
  PROVE  \E c : Costs(g, p, c) /\ Length(g, p) = c[Len(p)]
<1> DEFINE m == Len(p) - 1
           E == [x \in 1 .. m |-> x]
           V(x) == WeightOf(g, p[x], p[x + 1])
           S == Int
           G == [k \in 1 .. m |-> [x \in S |-> x + V(k)]]
           It(f) == f = [r \in SUBSET DOMAIN E |->
                           IF r = {} THEN 0
                           ELSE LET x == Max(r) IN f[r \ {x}] + V(E[x])]
           fold == CHOOSE f : It(f)
<1>1. m \in Nat /\ DOMAIN E = 1 .. m /\ \A k \in 1 .. m : E[k] = k
  OBVIOUS
<1>2. \A k \in 1 .. m : V(k) \in Int
  BY StepsWeigh
<1>3. Length(g, p) = fold[1 .. m]
  BY <1>1 DEF Length, FoldLeft, MapThenFoldSet
<1>4. \A r : Max(r) = LastOf(r)
  BY DEF Max, LastOf
<1> HIDE DEF E, m, V, fold
<1>5. G \in [1 .. m -> [S -> S]]
  BY <1>2
<1>6. \A k \in 1 .. m, x \in S : G[k][x] = x + V(k)
  OBVIOUS
<1>7. 0 \in S
  OBVIOUS
<1> HIDE DEF G, S
<1>8. PICK f : FoldsOn(f, S, 0, G, m)
  BY <1>1, <1>5, <1>7, FoldExists
<1>9. It(f)
  <2>1. ASSUME NEW r \in SUBSET (1 .. m), r # {}
        PROVE  G[LastOf(r)][f[r \ {LastOf(r)}]] = f[r \ {Max(r)}] + V(E[Max(r)])
    <3>1. LastOf(r) \in 1 .. m
      BY <1>1, <2>1, LastIs
    <3>2. f[r \ {LastOf(r)}] \in S
      BY <1>8 DEF FoldsOn
    <3>3. E[Max(r)] = LastOf(r)
      BY <1>1, <1>4, <3>1
    <3> QED  BY <1>4, <1>6, <3>1, <3>2, <3>3
  <2>2. f = [r \in SUBSET (1 .. m) |-> IF r = {} THEN 0 ELSE f[r \ {Max(r)}] + V(E[Max(r)])]
    <3>1. f = [r \in SUBSET (1 .. m) |-> f[r]]
      BY <1>8 DEF FoldsOn
    <3>2. \A r \in SUBSET (1 .. m) : f[r] = IF r = {} THEN 0 ELSE f[r \ {Max(r)}] + V(E[Max(r)])
      BY <1>8, <2>1 DEF FoldsOn
    <3> QED  BY <3>1, <3>2
  <2> QED  BY <1>1, <2>2
<1>10. It(fold)
  BY <1>9 DEF fold
<1>11. fold[{}] = 0
  BY <1>10
<1>12. ASSUME NEW k \in 0 .. m - 1, fold[1 .. k] \in S
       PROVE  fold[1 .. k + 1] = G[k + 1][fold[1 .. k]]
  <2>1. 1 .. k + 1 \in SUBSET DOMAIN E /\ 1 .. k + 1 # {}
    <3>1. 1 .. k + 1 \subseteq 1 .. m /\ 1 \in 1 .. k + 1
      BY <1>1
    <3> QED  BY <1>1, <3>1
  <2>2. Max(1 .. k + 1) = k + 1 /\ (1 .. k + 1) \ {k + 1} = 1 .. k
    <3>1. k \in Nat
      BY <1>1
    <3> QED  BY <1>4, <3>1, LastOfAll
  <2>3. fold[1 .. k + 1] = fold[(1 .. k + 1) \ {Max(1 .. k + 1)}] + V(E[Max(1 .. k + 1)])
    BY <1>10, <2>1
  <2>4. k + 1 \in 1 .. m /\ E[k + 1] = k + 1
    BY <1>1
  <2> QED  BY <1>6, <1>12, <2>2, <2>3, <2>4
<1> DEFINE H == [k \in 0 .. m |-> fold[1 .. k]]
           c == [i \in 1 .. Len(p) |-> H[i - 1]]
<1>13. Folds(H, S, 0, G, m)
  <2>1. m \in Nat /\ G \in [1 .. m -> [S -> S]]
    BY <1>1, <1>5
  <2> QED  BY <2>1, <1>7, <1>11, <1>12, FoldSteps
<1>14. H[m] = Length(g, p)
  BY <1>1, <1>3
<1> HIDE DEF H
<1>15. \A k \in 1 .. m : H[k - 1] \in S /\ H[k] = H[k - 1] + V(k)
  BY <1>1, <1>6, <1>13 DEF Folds
<1>16. H \in [0 .. m -> Int] /\ H[0] = 0
  BY <1>13 DEF Folds, S
<1>17. c \in [1 .. Len(p) -> Int] /\ c[1] = 0 /\ c[Len(p)] = H[m]
  BY <1>16 DEF m
<1>18. ASSUME NEW i \in 1 .. Len(p) - 1 PROVE c[i + 1] = c[i] + WeightOf(g, p[i], p[i + 1])
  <2>1. c[i + 1] = H[i] /\ c[i] = H[i - 1] /\ i \in 1 .. m
    BY DEF m
  <2> QED  BY <1>15, <2>1 DEF V
<1> HIDE DEF c
<1>19. Costs(g, p, c)
  BY <1>17, <1>18 DEF Costs
<1> QED  BY <1>14, <1>17, <1>19

LEMMA LengthIs ==
  ASSUME NEW g, IsGraph(g), NEW p, Len(p) \in Nat \ {0}, IsPath(g, p), NEW c, Costs(g, p, c)
  PROVE  Length(g, p) = c[Len(p)] /\ Length(g, p) \in Int
<1>1. PICK d : Costs(g, p, d) /\ Length(g, p) = d[Len(p)]
  BY LengthFolds
<1> DEFINE T == {k \in 0 .. Len(p) - 1 : c[k + 1] = d[k + 1]}
<1>2. 0 \in T
  BY <1>1 DEF Costs
<1>3. ASSUME NEW k \in 0 .. (Len(p) - 1) - 1, k \in T PROVE k + 1 \in T
  <2>1. k + 1 \in 1 .. Len(p) - 1 /\ k + 1 \in 0 .. Len(p) - 1
    OBVIOUS
  <2>2. c[(k + 1) + 1] = c[k + 1] + WeightOf(g, p[k + 1], p[(k + 1) + 1])
    BY <2>1 DEF Costs
  <2>3. d[(k + 1) + 1] = d[k + 1] + WeightOf(g, p[k + 1], p[(k + 1) + 1])
    BY <1>1, <2>1 DEF Costs
  <2> QED  BY <1>3, <2>1, <2>2, <2>3
<1>4. \A k \in 0 .. Len(p) - 1 : k \in T
  <2>1. Len(p) - 1 \in Nat
    OBVIOUS
  <2> HIDE DEF T
  <2> QED  BY <1>2, <1>3, <2>1, SetInductionTo
<1>5. c[Len(p)] = d[Len(p)]
  <2>1. Len(p) - 1 \in T /\ (Len(p) - 1) + 1 = Len(p)
    BY <1>4
  <2> QED  BY <2>1
<1> QED  BY <1>1, <1>5 DEF Costs

LEMMA NodesFinite ==
  ASSUME NEW g, g.n \in Nat
  PROVE  IsFiniteSet(NodesOf(g)) /\ Cardinality(NodesOf(g)) = g.n
<1>1. /\ IsFiniteSet(0 .. g.n - 1)
      /\ Cardinality(0 .. g.n - 1) = IF 0 > g.n - 1 THEN 0 ELSE (g.n - 1) - 0 + 1
  BY FS_Interval, SMTT(60)
<1> QED  BY <1>1 DEF NodesOf

(* What the simple paths are, and how one is made ...                      *)
LEMMA SimpleIs ==
  ASSUME NEW g, IsGraph(g), NEW s, NEW p \in SimplePaths(g, s)
  PROVE  /\ Len(p) \in 1 .. g.n /\ Len(p) \in Nat \ {0}
         /\ p \in [1 .. Len(p) -> NodesOf(g)] /\ p \in Seq(NodesOf(g))
         /\ p[1] = s /\ Last(p) \in NodesOf(g) /\ Last(p) = p[Len(p)]
         /\ \A i, j \in 1 .. Len(p) : p[i] = p[j] => i = j
         /\ IsPath(g, p)
<1>1. PICK k \in 1 .. g.n : p \in [1 .. k -> NodesOf(g)]
  BY DEF SimplePaths
<1>2. p[1] = s /\ IsInjective(p) /\ IsPath(g, p)
  BY DEF SimplePaths
<1>3. k \in Nat
  BY DEF IsGraph
<1>4. p \in Seq(NodesOf(g)) /\ Len(p) = k /\ DOMAIN p = 1 .. k
  BY <1>1, <1>3
<1>5. k \in 1 .. k
  BY <1>1, <1>3
<1> QED  BY <1>1, <1>2, <1>3, <1>4, <1>5 DEF Last, IsInjective

IsSimple(g, s, k, p) ==
  /\ k \in Nat \ {0} /\ p \in [1 .. k -> NodesOf(g)] /\ p[1] = s
  /\ \A i, j \in 1 .. k : p[i] = p[j] => i = j
  /\ \A i \in 1 .. k - 1 : \E e \in EdgesOf(g) : e.from = p[i] /\ e.to = p[i + 1]

LEMMA SimpleMade ==
  ASSUME NEW g, IsGraph(g), NEW s, NEW k, NEW p, IsSimple(g, s, k, p)
  PROVE  p \in SimplePaths(g, s) /\ Len(p) = k /\ Last(p) = p[k]
<1>0. /\ k \in Nat \ {0} /\ p \in [1 .. k -> NodesOf(g)] /\ p[1] = s
      /\ \A i, j \in 1 .. k : p[i] = p[j] => i = j
      /\ \A i \in 1 .. k - 1 : \E e \in EdgesOf(g) : e.from = p[i] /\ e.to = p[i + 1]
  BY DEF IsSimple
<1>1. p \in Seq(NodesOf(g)) /\ Len(p) = k
  BY <1>0
<1>2. k <= g.n
  <2>1. g.n \in Nat
    BY DEF IsGraph
  <2>2. IsFiniteSet(NodesOf(g)) /\ Cardinality(NodesOf(g)) = g.n
    BY <2>1, NodesFinite
  <2>3. Len(p) <= Cardinality(NodesOf(g))
    BY <1>0, <1>1, <2>2, ChainIsShort
  <2> QED  BY <1>0, <1>1, <2>2, <2>3
<1>3. k \in 1 .. g.n
  BY <1>0, <1>2 DEF IsGraph
<1>4. IsInjective(p) /\ IsPath(g, p)
  BY <1>0, <1>1 DEF IsInjective, IsPath
<1>5. p \in UNION {[1 .. i -> NodesOf(g)] : i \in 1 .. g.n}
  BY <1>0, <1>3
<1> QED  BY <1>0, <1>1, <1>4, <1>5 DEF SimplePaths, Last

LEMMA SimpleCosts ==
  ASSUME NEW g, IsGraph(g), NEW s, NEW p \in SimplePaths(g, s)
  PROVE  \E c : Costs(g, p, c) /\ Length(g, p) = c[Len(p)] /\ Length(g, p) \in Int
<1>1. Len(p) \in Nat \ {0} /\ IsPath(g, p)
  BY SimpleIs
<1>2. PICK c : Costs(g, p, c) /\ Length(g, p) = c[Len(p)]
  BY <1>1, LengthFolds
<1> QED  BY <1>1, <1>2 DEF Costs

(* ... by an edge to a node that is not on it.  An edge back to one closes a*)
(* cycle, which can be left out.                                           *)
LEMMA PathExtended ==
  ASSUME NEW g, IsGraph(g), NEW s, NEW q \in SimplePaths(g, s), NEW e \in EdgesOf(g),
         e.from = Last(q), \A i \in 1 .. Len(q) : q[i] # e.to
  PROVE  \E r \in SimplePaths(g, s) :
            Last(r) = e.to /\ Length(g, r) = Length(g, q) + WeightOf(g, e.from, e.to)
<1> DEFINE k == Len(q)
           V == WeightOf(g, e.from, e.to)
           r == [i \in 1 .. k + 1 |-> IF i <= k THEN q[i] ELSE e.to]
<1>1. /\ k \in Nat \ {0} /\ q \in [1 .. k -> NodesOf(g)] /\ q[1] = s /\ q[k] = e.from
      /\ \A x, y \in 1 .. k : q[x] = q[y] => x = y
      /\ \A x \in 1 .. k - 1 : \E f \in EdgesOf(g) : f.from = q[x] /\ f.to = q[x + 1]
  <2>1. /\ k \in Nat \ {0} /\ q \in [1 .. k -> NodesOf(g)] /\ q[1] = s /\ Last(q) = q[k]
        /\ \A x, y \in 1 .. k : q[x] = q[y] => x = y
        /\ IsPath(g, q)
    BY SimpleIs
  <2> QED  BY <2>1 DEF IsPath
<1>2. V \in Int /\ e.to \in NodesOf(g)
  BY LightestEdge, EdgeIs
<1>3. PICK c : Costs(g, q, c) /\ Length(g, q) = c[k] /\ Length(g, q) \in Int
  BY SimpleCosts
<1> DEFINE d == [i \in 1 .. k + 1 |-> IF i <= k THEN c[i] ELSE c[k] + V]
<1>4. /\ c \in [1 .. k -> Int] /\ c[1] = 0
      /\ \A i \in 1 .. k - 1 : c[i + 1] = c[i] + WeightOf(g, q[i], q[i + 1])
  BY <1>3 DEF Costs
<1>5. \A i \in 1 .. k : q[i] # e.to
  OBVIOUS
<1> HIDE DEF k, V
<1>6. /\ \A i \in 1 .. k : r[i] = q[i] /\ d[i] = c[i]
      /\ r[k + 1] = e.to /\ d[k + 1] = c[k] + V
      /\ k + 1 \in Nat \ {0}
  BY <1>1
<1>7. r \in [1 .. k + 1 -> NodesOf(g)] /\ d \in [1 .. k + 1 -> Int]
  <2>1. c[k] \in Int
    BY <1>1, <1>4
  <2> QED  BY <1>1, <1>2, <1>4, <2>1
<1> HIDE DEF r, d
<1>8. r[1] = s /\ d[1] = 0
  <2>1. 1 \in 1 .. k
    BY <1>1
  <2> QED  BY <1>1, <1>4, <1>6, <2>1
<1>9. ASSUME NEW i \in 1 .. k + 1, NEW j \in 1 .. k + 1, r[i] = r[j] PROVE i = j
  <2>1. (i \in 1 .. k \/ i = k + 1) /\ (j \in 1 .. k \/ j = k + 1)
    BY <1>1
  <2> QED  BY <1>1, <1>5, <1>6, <1>9, <2>1
<1>10. ASSUME NEW i \in 1 .. (k + 1) - 1
       PROVE  /\ \E f \in EdgesOf(g) : f.from = r[i] /\ f.to = r[i + 1]
              /\ d[i + 1] = d[i] + WeightOf(g, r[i], r[i + 1])
  <2>1. CASE i = k
    <3>1. i \in 1 .. k /\ i + 1 = k + 1
      BY <1>1, <2>1
    <3>2. r[i] = e.from /\ d[i] = c[k]
      BY <1>1, <1>6, <2>1, <3>1
    <3> QED  BY <1>6, <3>1, <3>2 DEF V
  <2>2. CASE i # k
    <3>1. i \in 1 .. k - 1 /\ i \in 1 .. k /\ i + 1 \in 1 .. k
      BY <1>1, <2>2
    <3> QED  BY <1>1, <1>4, <1>6, <3>1
  <2> QED  BY <2>1, <2>2
<1>11. r \in SimplePaths(g, s) /\ Len(r) = k + 1 /\ Last(r) = e.to
  <2>1. \A x, y \in 1 .. k + 1 : r[x] = r[y] => x = y
    BY <1>9
  <2>2. \A x \in 1 .. (k + 1) - 1 : \E f \in EdgesOf(g) : f.from = r[x] /\ f.to = r[x + 1]
    BY <1>10
  <2>3. r \in SimplePaths(g, s) /\ Len(r) = k + 1 /\ Last(r) = r[k + 1]
    <3>1. IsSimple(g, s, k + 1, r)
      BY <1>6, <1>7, <1>8, <2>1, <2>2 DEF IsSimple
    <3> QED  BY <3>1, SimpleMade
  <2> QED  BY <1>6, <2>3
<1>12. Costs(g, r, d)
  BY <1>7, <1>8, <1>10, <1>11 DEF Costs
<1>13. Length(g, r) = d[k + 1]
  <2>1. Len(r) \in Nat \ {0} /\ IsPath(g, r)
    BY <1>11, SimpleIs
  <2> QED  BY <1>11, <1>12, <2>1, LengthIs
<1> QED  BY <1>3, <1>6, <1>11, <1>13 DEF V

LEMMA CycleLength ==
  ASSUME NEW g, IsGraph(g), NEW s, NEW q \in SimplePaths(g, s), NEW e \in EdgesOf(g),
         NEW i \in 1 .. Len(q), e.from = Last(q), e.to = q[i], NEW c, Costs(g, q, c)
  PROVE  /\ c[i] \in Int /\ c[Len(q)] \in Int
         /\ Length(g, SubSeq(q, i, Len(q)) \o <<q[i]>>)
              = c[Len(q)] - c[i] + WeightOf(g, e.from, e.to)
<1> DEFINE k == Len(q)
           V == WeightOf(g, e.from, e.to)
           t == SubSeq(q, i, k) \o <<q[i]>>
           l == k - i + 1
<1>1. /\ k \in Nat \ {0} /\ q \in [1 .. k -> NodesOf(g)] /\ q[1] = s /\ q[k] = e.from
      /\ \A x, y \in 1 .. k : q[x] = q[y] => x = y
      /\ \A x \in 1 .. k - 1 : \E f \in EdgesOf(g) : f.from = q[x] /\ f.to = q[x + 1]
  <2>1. /\ k \in Nat \ {0} /\ q \in [1 .. k -> NodesOf(g)] /\ q[1] = s /\ Last(q) = q[k]
        /\ \A x, y \in 1 .. k : q[x] = q[y] => x = y
        /\ IsPath(g, q)
    BY SimpleIs
  <2> QED  BY <2>1 DEF IsPath
<1>2. V \in Int /\ e.to \in NodesOf(g)
  BY LightestEdge, EdgeIs
<1>4. /\ c \in [1 .. k -> Int] /\ c[1] = 0
      /\ \A x \in 1 .. k - 1 : c[x + 1] = c[x] + WeightOf(g, q[x], q[x + 1])
  BY DEF Costs
<1>5. /\ t \in Seq(NodesOf(g)) /\ Len(t) = l + 1
      /\ \A x \in 1 .. l : t[x] = q[i + x - 1]
      /\ t[l + 1] = q[i]
  <2> DEFINE a == SubSeq(q, i, k)  z == <<q[i]>>
  <2>1. i \in Int /\ k \in Int /\ i <= k /\ \A x \in i .. k : q[x] \in NodesOf(g)
    BY <1>1
  <2>2. a \in Seq(NodesOf(g)) /\ Len(a) = l /\ \A x \in 1 .. l : a[x] = q[i + x - 1]
    <3>1. /\ a \in Seq(NodesOf(g)) /\ Len(a) = IF i <= k THEN k - i + 1 ELSE 0
          /\ \A x \in 1 .. k - i + 1 : a[x] = q[i + x - 1]
      <4> HIDE DEF k
      <4> QED  BY <2>1, SubSeqProperties
    <3> QED  BY <2>1, <3>1
  <2>3. z \in Seq(NodesOf(g)) /\ Len(z) = 1 /\ z[1] = q[i]
    BY <1>1
  <2>4. l \in Nat \ {0}
    BY <2>1
  <2> HIDE DEF a, z, l
  <2>5. /\ a \o z \in Seq(NodesOf(g)) /\ Len(a \o z) = l + 1
        /\ \A x \in 1 .. l + 1 : (a \o z)[x] = IF x <= l THEN a[x] ELSE z[x - l]
    <3>1. /\ a \o z \in Seq(NodesOf(g)) /\ Len(a \o z) = Len(a) + Len(z)
          /\ \A x \in 1 .. Len(a) + Len(z) :
               (a \o z)[x] = IF x <= Len(a) THEN a[x] ELSE z[x - Len(a)]
      BY <2>2, <2>3, ConcatProperties
    <3> QED  BY <2>2, <2>3, <3>1
  <2>6. l + 1 \in 1 .. l + 1 /\ ~(l + 1 <= l) /\ (l + 1) - l = 1
    BY <2>4
  <2>7. (a \o z)[l + 1] = q[i]
    BY <2>3, <2>5, <2>6
  <2>8. \A x \in 1 .. l : (a \o z)[x] = q[i + x - 1]
    BY <2>2, <2>4, <2>5
  <2> QED  BY <2>5, <2>7, <2>8 DEF a, z
<1>6. l \in Nat \ {0} /\ i \in Nat \ {0} /\ i <= k
  BY <1>1
<1>6a. l = k - i + 1
  OBVIOUS
<1> HIDE DEF t, k, V, l
<1> DEFINE d == [x \in 1 .. l + 1 |-> IF x <= l THEN c[i + x - 1] - c[i] ELSE c[k] - c[i] + V]
<1>8. d \in [1 .. l + 1 -> Int]
  <2>1. c[i] \in Int /\ c[k] \in Int
    BY <1>1, <1>4, <1>6
  <2>2. \A x \in 1 .. l : c[i + x - 1] \in Int
    <3>1. \A x \in 1 .. l : i + x - 1 \in 1 .. k
      BY <1>1, <1>6, <1>6a
    <3> QED  BY <1>4, <3>1
  <2>3. V \in Int
    BY <1>2
  <2>4. ASSUME NEW x \in 1 .. l + 1
        PROVE  (IF x <= l THEN c[i + x - 1] - c[i] ELSE c[k] - c[i] + V) \in Int
    <3>1. CASE x <= l
      <4>1. x \in 1 .. l /\ c[i + x - 1] \in Int
        BY <1>6, <2>2, <3>1
      <4> QED  BY <2>1, <3>1, <4>1
    <3>2. CASE ~(x <= l)
      BY <2>1, <2>3, <3>2
    <3> QED  BY <3>1, <3>2
  <2> QED  BY <2>4
<1>9. /\ \A x \in 1 .. l : d[x] = c[i + x - 1] - c[i]
      /\ d[l + 1] = c[k] - c[i] + V /\ d[1] = 0
  <2>1. 1 \in 1 .. l /\ i + 1 - 1 = i /\ c[i] \in Int /\ l + 1 \in 1 .. l + 1 /\ ~(l + 1 <= l)
    BY <1>1, <1>4, <1>6
  <2>2. \A x \in 1 .. l : d[x] = c[i + x - 1] - c[i]
    BY <1>6
  <2>3. d[l + 1] = c[k] - c[i] + V
    BY <2>1
  <2> HIDE DEF d
  <2>4. d[1] = 0
    BY <2>1, <2>2
  <2> QED  BY <2>2, <2>3, <2>4
<1> HIDE DEF d
<1>10. ASSUME NEW x \in 1 .. (l + 1) - 1
       PROVE  /\ \E f \in EdgesOf(g) : f.from = t[x] /\ f.to = t[x + 1]
              /\ d[x + 1] = d[x] + WeightOf(g, t[x], t[x + 1])
  <2>0. x \in 1 .. l
    BY <1>6
  <2>1. CASE x = l
    <3>1. i + x - 1 = k
      BY <1>1, <1>6, <1>6a, <2>1
    <3>2. t[x] = e.from /\ t[x + 1] = e.to /\ d[x] = c[k] - c[i] /\ d[x + 1] = c[k] - c[i] + V
      BY <1>1, <1>5, <1>9, <2>0, <2>1, <3>1
    <3> QED  BY <3>2 DEF V
  <2>2. CASE x # l
    <3> DEFINE y == i + x - 1
    <3>1. y \in 1 .. k - 1 /\ y \in 1 .. k /\ y + 1 \in 1 .. k /\ x + 1 \in 1 .. l /\ i + (x + 1) - 1 = y + 1
      BY <1>1, <1>6, <1>6a, <2>0, <2>2, SMTT(60)
    <3>2. t[x] = q[y] /\ t[x + 1] = q[y + 1] /\ d[x] = c[y] - c[i] /\ d[x + 1] = c[y + 1] - c[i]
      BY <1>5, <1>9, <2>0, <3>1
    <3> HIDE DEF y
    <3>3. c[y + 1] = c[y] + WeightOf(g, q[y], q[y + 1])
      BY <1>4, <3>1
    <3>4. PICK f \in EdgesOf(g) : f.from = q[y] /\ f.to = q[y + 1]
      BY <1>1, <3>1
    <3>5. WeightOf(g, q[y], q[y + 1]) \in Int
      BY <3>4, LightestEdge
    <3>6. c[i] \in Int /\ c[y] \in Int
      BY <1>1, <1>4, <1>6, <3>1
    <3> QED  BY <3>2, <3>3, <3>4, <3>5, <3>6
  <2> QED  BY <2>1, <2>2
<1>11. Len(t) \in Nat \ {0} /\ IsPath(g, t) /\ Costs(g, t, d)
  <2>1. Len(t) = l + 1 /\ Len(t) \in Nat \ {0}
    BY <1>5, <1>6
  <2>2. IsPath(g, t)
    BY <1>10, <2>1 DEF IsPath
  <2>3. Costs(g, t, d)
    BY <1>8, <1>9, <1>10, <2>1 DEF Costs
  <2> QED  BY <2>1, <2>2, <2>3
<1>12. Length(g, t) = c[k] - c[i] + V
  BY <1>5, <1>9, <1>11, LengthIs
<1>13. c[i] \in Int /\ c[k] \in Int
  BY <1>1, <1>4, <1>6
<1> QED  BY <1>12, <1>13 DEF t, k, V

LEMMA PathCut ==
  ASSUME NEW g, IsGraph(g), NEW s, NEW q \in SimplePaths(g, s), NEW e \in EdgesOf(g),
         NEW i \in 1 .. Len(q), e.from = Last(q), e.to = q[i]
  PROVE  \E r \in SimplePaths(g, s) :
            /\ Last(r) = q[i] /\ Length(g, r) \in Int
            /\ Length(g, SubSeq(q, i, Len(q)) \o <<q[i]>>) \in Int
            /\ Length(g, r) + Length(g, SubSeq(q, i, Len(q)) \o <<q[i]>>)
                 = Length(g, q) + WeightOf(g, e.from, e.to)
<1> DEFINE k == Len(q)
           V == WeightOf(g, e.from, e.to)
           r == [j \in 1 .. i |-> q[j]]
           t == SubSeq(q, i, k) \o <<q[i]>>
<1>1. /\ k \in Nat \ {0} /\ q \in [1 .. k -> NodesOf(g)] /\ q[1] = s /\ q[k] = e.from
      /\ \A x, y \in 1 .. k : q[x] = q[y] => x = y
      /\ \A x \in 1 .. k - 1 : \E f \in EdgesOf(g) : f.from = q[x] /\ f.to = q[x + 1]
  <2>1. /\ k \in Nat \ {0} /\ q \in [1 .. k -> NodesOf(g)] /\ q[1] = s /\ Last(q) = q[k]
        /\ \A x, y \in 1 .. k : q[x] = q[y] => x = y
        /\ IsPath(g, q)
    BY SimpleIs
  <2> QED  BY <2>1 DEF IsPath
<1>2. V \in Int
  BY LightestEdge
<1>3. PICK c : Costs(g, q, c) /\ Length(g, q) = c[k] /\ Length(g, q) \in Int
  BY SimpleCosts
<1>4. /\ c \in [1 .. k -> Int] /\ c[1] = 0
      /\ \A x \in 1 .. k - 1 : c[x + 1] = c[x] + WeightOf(g, q[x], q[x + 1])
  BY <1>3 DEF Costs
<1>5. c[i] \in Int /\ c[k] \in Int /\ Length(g, t) = c[k] - c[i] + V
  BY <1>3, CycleLength
<1>6. i \in Nat \ {0} /\ i <= k
  BY <1>1
<1> HIDE DEF t, k, V
<1> DEFINE b0 == [j \in 1 .. i |-> c[j]]
<1>7. /\ r \in SimplePaths(g, s) /\ Len(r) = i /\ Last(r) = q[i]
      /\ Length(g, r) = c[i]
  <2>1. r \in [1 .. i -> NodesOf(g)] /\ b0 \in [1 .. i -> Int] /\ r[1] = s /\ b0[1] = 0
    BY <1>1, <1>4, <1>6
  <2>2. \A x \in 1 .. i : x \in 1 .. k /\ r[x] = q[x] /\ b0[x] = c[x]
    BY <1>1, <1>6
  <2>3. \A x \in 1 .. i - 1 : x \in 1 .. k - 1 /\ x \in 1 .. i /\ x + 1 \in 1 .. i
    BY <1>1, <1>6
  <2> HIDE DEF r, b0
  <2>4. \A x, y \in 1 .. i : r[x] = r[y] => x = y
    BY <1>1, <2>2
  <2>5. \A x \in 1 .. i - 1 : \E f \in EdgesOf(g) : f.from = r[x] /\ f.to = r[x + 1]
    BY <1>1, <2>2, <2>3
  <2>6. r \in SimplePaths(g, s) /\ Len(r) = i /\ Last(r) = r[i]
    <3>1. IsSimple(g, s, i, r)
      BY <1>6, <2>1, <2>4, <2>5 DEF IsSimple
    <3> QED  BY <3>1, SimpleMade
  <2>7. Costs(g, r, b0)
    BY <1>4, <2>1, <2>2, <2>3, <2>6 DEF Costs
  <2>8. Length(g, r) = b0[i]
    <3>1. IsPath(g, r)
      BY <2>6, SimpleIs
    <3> QED  BY <1>6, <2>6, <2>7, <3>1, LengthIs
  <2>9. i \in 1 .. i
    BY <1>6
  <2> QED  BY <2>2, <2>6, <2>8, <2>9
<1> HIDE DEF r
<1>8. Length(g, r) \in Int /\ Length(g, t) \in Int /\ Length(g, r) + Length(g, t) = Length(g, q) + V
  BY <1>2, <1>3, <1>5, <1>7
<1> QED  BY <1>7, <1>8 DEF t, k, V

(* Without a negative cycle an edge leads on from a simple path to one     *)
(* that is no longer than the two.                                         *)
LEMMA EdgeLeadsOn ==
  ASSUME NEW g, IsGraph(g), NEW s, ~HasNegativeCycle(g, s),
         NEW q \in SimplePaths(g, s), NEW e \in EdgesOf(g), e.from = Last(q)
  PROVE  \E r \in SimplePaths(g, s) :
            Last(r) = e.to /\ Length(g, r) <= Length(g, q) + e.weight
<1> DEFINE V == WeightOf(g, e.from, e.to)
<1>1. V \in Int /\ V <= e.weight /\ e.weight \in Int
  BY LightestEdge, EdgeIs
<1>2. Length(g, q) \in Int
  BY SimpleCosts
<1> HIDE DEF V
<1>3. CASE \A i \in 1 .. Len(q) : q[i] # e.to
  <2>1. PICK r \in SimplePaths(g, s) : Last(r) = e.to /\ Length(g, r) = Length(g, q) + V
    BY <1>3, PathExtended DEF V
  <2> QED  BY <1>1, <1>2, <2>1
<1>4. ASSUME NEW i \in 1 .. Len(q), q[i] = e.to
      PROVE  \E r \in SimplePaths(g, s) :
                Last(r) = e.to /\ Length(g, r) <= Length(g, q) + e.weight
  <2> DEFINE t == SubSeq(q, i, Len(q)) \o <<q[i]>>
  <2>1. PICK r \in SimplePaths(g, s) :
           /\ Last(r) = q[i] /\ Length(g, r) \in Int /\ Length(g, t) \in Int
           /\ Length(g, r) + Length(g, t) = Length(g, q) + V
    BY <1>4, PathCut, Zenon DEF V
  <2>2. ~(Length(g, t) < 0)
    BY <1>4 DEF HasNegativeCycle
  <2> HIDE DEF t
  <2>3. Length(g, r) <= Length(g, q) + e.weight
    BY <1>1, <1>2, <2>1, <2>2
  <2> QED  BY <1>4, <2>1, <2>3
<1> QED  BY <1>3, <1>4

(* Every distance is at least the length of a path.                        *)
Attained(g, s, D) ==
  \A v \in DOMAIN D : \E q \in SimplePaths(g, s) : Last(q) = v /\ Length(g, q) <= D[v]

LEMMA RelaxAttains ==
  ASSUME NEW g, IsGraph(g), NEW s, ~HasNegativeCycle(g, s),
         NEW D \in Dists(g), Attained(g, s, D), NEW e \in EdgesOf(g)
  PROVE  Attained(g, s, Relax(D, e))
<1> DEFINE N == Relax(D, e)
<1>1. \A v \in DOMAIN N : \/ v \in DOMAIN D /\ N[v] = D[v]
                          \/ v = e.to /\ e.from \in DOMAIN D /\ N[v] = D[e.from] + e.weight
  BY RelaxIs
<1> HIDE DEF N
<1>2. ASSUME NEW v \in DOMAIN N
      PROVE  \E q \in SimplePaths(g, s) : Last(q) = v /\ Length(g, q) <= N[v]
  <2>1. CASE v \in DOMAIN D /\ N[v] = D[v]
    BY <2>1 DEF Attained
  <2>2. CASE v = e.to /\ e.from \in DOMAIN D /\ N[v] = D[e.from] + e.weight
    <3>1. PICK q \in SimplePaths(g, s) : Last(q) = e.from /\ Length(g, q) <= D[e.from]
      BY <2>2 DEF Attained
    <3>2. PICK r \in SimplePaths(g, s) : Last(r) = e.to /\ Length(g, r) <= Length(g, q) + e.weight
      BY <3>1, EdgeLeadsOn
    <3>3. Length(g, q) \in Int /\ Length(g, r) \in Int /\ D[e.from] \in Int /\ e.weight \in Int
      <4>1. Length(g, q) \in Int /\ Length(g, r) \in Int
        BY SimpleCosts
      <4> QED  BY <2>2, <4>1, DistIsInt, EdgeIs
    <3> QED  BY <2>2, <3>1, <3>2, <3>3
  <2> QED  BY <1>1, <2>1, <2>2
<1> QED  BY <1>2 DEF Attained, N

LEMMA PassAttains ==
  ASSUME NEW g, IsGraph(g), NEW s, ~HasNegativeCycle(g, s),
         NEW D \in Dists(g), Attained(g, s, D)
  PROVE  Attained(g, s, BellmanPass(D, g.edges))
<1> DEFINE m == Len(g.edges)
<1>1. PICK H : PassStates(g, D, H)
  BY PassFolds
<1>2. m \in Nat /\ \A k \in 1 .. m : g.edges[k] \in EdgesOf(g)
  BY EdgeIs
<1> DEFINE T == {k \in 0 .. m : Attained(g, s, H[k])}
<1>3. 0 \in T
  BY <1>1, <1>2 DEF PassStates
<1>4. ASSUME NEW k \in 0 .. m - 1, k \in T PROVE k + 1 \in T
  <2>1. k \in 0 .. m /\ k + 1 \in 0 .. m /\ k + 1 \in 1 .. m /\ (k + 1) - 1 = k
    BY <1>2
  <2>2. H[k] \in Dists(g) /\ H[k + 1] = Relax(H[k], g.edges[k + 1]) /\ g.edges[k + 1] \in EdgesOf(g)
    BY <1>1, <1>2, <2>1 DEF PassStates
  <2>3. Attained(g, s, H[k + 1])
    BY <1>4, <2>2, RelaxAttains
  <2> QED  BY <2>1, <2>3
<1>5. \A k \in 0 .. m : k \in T
  <2> HIDE DEF T, m
  <2> QED  BY <1>2, <1>3, <1>4, SetInductionTo
<1>6. Attained(g, s, H[m])
  BY <1>2, <1>5
<1> QED  BY <1>1, <1>6 DEF PassStates

LEMMA StartIsZero == ASSUME NEW s PROVE DOMAIN OnlySource(s) = {s} /\ OnlySource(s)[s] = 0
BY DEF OnlySource

(* The path that is only the source.                                       *)
LEMMA StartAttained ==
  ASSUME NEW g, IsGraph(g), NEW s \in NodesOf(g)
  PROVE  Attained(g, s, OnlySource(s))
<1> DEFINE k == 1
           p == [i \in 1 .. k |-> s]
           c == [i \in 1 .. k |-> 0]
<1>1. k \in Nat \ {0} /\ 1 \in 1 .. k /\ k \in 1 .. k /\ k - 1 = 0 /\ (\A i \in 1 .. k : i = k)
  OBVIOUS
<1> HIDE DEF k
<1>2. IsSimple(g, s, k, p)
  <2>1. p \in [1 .. k -> NodesOf(g)] /\ p[1] = s
    BY <1>1
  <2>2. \A i \in 1 .. k - 1 : FALSE
    BY <1>1
  <2>3. \A i, j \in 1 .. k : i = j
    BY <1>1
  <2> HIDE DEF p
  <2> QED  BY <1>1, <2>1, <2>2, <2>3 DEF IsSimple
<1>3. c \in [1 .. k -> Int] /\ c[1] = 0 /\ c[k] = 0 /\ p[k] = s
  BY <1>1
<1> HIDE DEF p, c
<1>4. p \in SimplePaths(g, s) /\ Len(p) = k /\ Last(p) = p[k]
  BY <1>2, SimpleMade
<1>5. Costs(g, p, c)
  BY <1>1, <1>3, <1>4 DEF Costs
<1>6. Length(g, p) = 0
  <2>1. Len(p) \in Nat \ {0} /\ IsPath(g, p)
    BY <1>4, SimpleIs
  <2> QED  BY <1>3, <1>4, <1>5, <2>1, LengthIs
<1>7. DOMAIN OnlySource(s) = {s} /\ OnlySource(s)[s] = 0
  BY StartIsZero
<1>8. Last(p) = s /\ Length(g, p) <= OnlySource(s)[s]
  BY <1>3, <1>4, <1>6, <1>7
<1> QED  BY <1>4, <1>7, <1>8 DEF Attained

(* So a run does not go below the least lengths without a negative cycle.  *)
LEMMA RunAttains ==
  ASSUME NEW g, IsGraph(g), NEW s \in NodesOf(g), ~HasNegativeCycle(g, s)
  PROVE  bellmanFord(g, s) \in Dists(g) /\ Attained(g, s, bellmanFord(g, s))
<1> DEFINE m == g.n - 1
<1>1. PICK H : RunStates(g, s, H)
  BY RunFolds
<1>2. m \in Nat
  BY DEF NodesOf, IsGraph
<1> DEFINE T == {k \in 0 .. m : Attained(g, s, H[k])}
<1>3. 0 \in T
  BY <1>1, <1>2, StartAttained DEF RunStates
<1>4. ASSUME NEW k \in 0 .. m - 1, k \in T PROVE k + 1 \in T
  <2>1. k \in 0 .. m /\ k + 1 \in 0 .. m /\ k + 1 \in 1 .. m /\ (k + 1) - 1 = k
    BY <1>2
  <2>2. H[k] \in Dists(g) /\ H[k + 1] = BellmanPass(H[k], g.edges)
    BY <1>1, <1>2, <2>1 DEF RunStates
  <2>3. Attained(g, s, H[k + 1])
    BY <1>4, <2>2, PassAttains
  <2> QED  BY <2>1, <2>3
<1>5. \A k \in 0 .. m : k \in T
  <2> HIDE DEF T, m
  <2> QED  BY <1>2, <1>3, <1>4, SetInductionTo
<1>6. Attained(g, s, H[m]) /\ H[m] \in Dists(g)
  BY <1>1, <1>2, <1>5 DEF RunStates
<1> QED  BY <1>1, <1>6 DEF RunStates

(* After i passes the first i + 1 nodes of a path are no further than on   *)
(* the path.                                                               *)
LEMMA RunReaches ==
  ASSUME NEW g, IsGraph(g), NEW s \in NodesOf(g), NEW p \in SimplePaths(g, s), NEW c, Costs(g, p, c)
  PROVE  LET D == bellmanFord(g, s)
         IN  /\ D \in Dists(g)
             /\ \A j \in 1 .. Len(p) : p[j] \in DOMAIN D /\ D[p[j]] <= c[j]
<1> DEFINE m == g.n - 1
           l == Len(p)
<1>1. PICK H : RunStates(g, s, H)
  BY RunFolds
<1>2. m \in Nat /\ l \in 1 .. m + 1 /\ l \in Nat \ {0} /\ p[1] = s
  <2>1. g.n \in Nat
    BY DEF IsGraph
  <2> QED  BY <2>1, SimpleIs DEF NodesOf
<1>3. \A k \in 0 .. m : H[k] \in Dists(g)
  BY <1>1, <1>2 DEF RunStates
<1>4. c \in [1 .. l -> Int] /\ c[1] = 0
  BY DEF Costs
<1> DEFINE Near(k) == \A j \in 1 .. l : j <= k + 1 => p[j] \in DOMAIN H[k] /\ H[k][p[j]] <= c[j]
           T == {k \in 0 .. m : Near(k)}
<1> HIDE DEF m, l
<1>5. 0 \in T
  <2>1. ASSUME NEW j \in 1 .. l, j <= 0 + 1 PROVE p[j] \in DOMAIN H[0] /\ H[0][p[j]] <= c[j]
    <3>1. j = 1
      BY <1>2, <2>1
    <3>2. H[0] = OnlySource(s) /\ p[j] = s /\ c[j] = 0
      BY <1>1, <1>2, <1>4, <3>1 DEF RunStates
    <3>3. DOMAIN OnlySource(s) = {s} /\ OnlySource(s)[s] = 0
      BY StartIsZero
    <3> QED  BY <3>2, <3>3
  <2> QED  BY <1>2, <2>1
<1>6. ASSUME NEW k \in 0 .. m - 1, k \in T PROVE k + 1 \in T
  <2>1. k \in 0 .. m /\ k + 1 \in 0 .. m /\ k + 1 \in 1 .. m /\ (k + 1) - 1 = k
    BY <1>2
  <2>2. H[k] \in Dists(g) /\ H[k + 1] \in Dists(g) /\ H[k + 1] = BellmanPass(H[k], g.edges)
    BY <1>1, <1>3, <2>1 DEF RunStates, m
  <2>3. /\ NotFurther(H[k + 1], H[k])
        /\ \A e \in EdgesOf(g) :
             e.from \in DOMAIN H[k] =>
               e.to \in DOMAIN H[k + 1] /\ H[k + 1][e.to] <= H[k][e.from] + e.weight
    BY <2>2, PassIs
  <2>4. ASSUME NEW j \in 1 .. l, j <= (k + 1) + 1
        PROVE  p[j] \in DOMAIN H[k + 1] /\ H[k + 1][p[j]] <= c[j]
    <3>1. CASE j = 1
      <4>1. p[1] \in DOMAIN H[k] /\ H[k][p[1]] <= c[1]
        BY <1>2, <1>6
      <4>2. p[1] \in DOMAIN H[k + 1] /\ H[k + 1][p[1]] <= H[k][p[1]]
        BY <2>3, <4>1 DEF NotFurther
      <4>3. H[k + 1][p[1]] \in Int /\ H[k][p[1]] \in Int
        BY <2>2, <4>1, <4>2, DistIsInt
      <4> QED  BY <1>4, <3>1, <4>1, <4>2, <4>3
    <3>2. CASE j # 1
      <4> DEFINE i == j - 1
      <4>1. i \in 1 .. l - 1 /\ i \in 1 .. l /\ i + 1 = j /\ i <= k + 1
        BY <1>2, <2>1, <2>4, <3>2
      <4> HIDE DEF i
      <4>2. p[i] \in DOMAIN H[k] /\ H[k][p[i]] <= c[i]
        BY <1>6, <4>1
      <4>3. PICK e \in EdgesOf(g) : /\ e.from = p[i] /\ e.to = p[i + 1]
                                    /\ e.weight = WeightOf(g, p[i], p[i + 1])
        BY <4>1, SimpleIs, StepsWeigh DEF l
      <4>4. c[j] = c[i] + e.weight
        BY <4>1, <4>3 DEF Costs, l
      <4>5. p[j] \in DOMAIN H[k + 1] /\ H[k + 1][p[j]] <= H[k][p[i]] + e.weight
        BY <2>3, <4>1, <4>2, <4>3
      <4>6. H[k + 1][p[j]] \in Int /\ H[k][p[i]] \in Int /\ e.weight \in Int /\ c[i] \in Int
        BY <1>4, <2>2, <4>1, <4>2, <4>5, DistIsInt, EdgeIs
      <4> QED  BY <4>2, <4>4, <4>5, <4>6
    <3> QED  BY <3>1, <3>2
  <2> QED  BY <2>1, <2>4
<1>7. \A k \in 0 .. m : k \in T
  <2> HIDE DEF T
  <2> QED  BY <1>2, <1>5, <1>6, SetInductionTo
<1>8. \A j \in 1 .. l : p[j] \in DOMAIN H[m] /\ H[m][p[j]] <= c[j]
  <2>1. Near(m) /\ \A j \in 1 .. l : j <= m + 1
    BY <1>2, <1>7
  <2> QED  BY <2>1
<1>9. H[m] = bellmanFord(g, s) /\ H[m] \in Dists(g)
  BY <1>1, <1>2, <1>3 DEF RunStates, m
<1> QED  BY <1>8, <1>9 DEF l

(* Without a negative cycle nothing improves after the last pass, and with *)
(* one something does.                                                     *)
LEMMA NothingImproves ==
  ASSUME NEW g, IsGraph(g), NEW s \in NodesOf(g), ~HasNegativeCycle(g, s)
  PROVE  ~negativeCycle(g, bellmanFord(g, s))
<1> DEFINE D == bellmanFord(g, s)
<1>1. D \in Dists(g) /\ Attained(g, s, D)
  BY RunAttains
<1>2. ASSUME NEW e \in EdgesOf(g), Improves(D, e) PROVE FALSE
  <2>1. e.from \in DOMAIN D
    BY <1>2 DEF Improves
  <2>2. PICK q \in SimplePaths(g, s) : Last(q) = e.from /\ Length(g, q) <= D[e.from]
    BY <1>1, <2>1 DEF Attained
  <2>3. PICK r \in SimplePaths(g, s) : Last(r) = e.to /\ Length(g, r) <= Length(g, q) + e.weight
    BY <2>2, EdgeLeadsOn
  <2>4. PICK c : Costs(g, r, c) /\ Length(g, r) = c[Len(r)]
    BY SimpleCosts
  <2>5. e.to \in DOMAIN D /\ D[e.to] <= Length(g, r)
    <3>1. Len(r) \in 1 .. Len(r) /\ r[Len(r)] = e.to
      BY <2>3, SimpleIs
    <3> QED  BY <2>4, <3>1, RunReaches
  <2>6. /\ Length(g, q) \in Int /\ Length(g, r) \in Int /\ e.weight \in Int
        /\ D[e.from] \in Int /\ D[e.to] \in Int
    <3>1. Length(g, q) \in Int /\ Length(g, r) \in Int
      BY SimpleCosts
    <3> QED  BY <1>1, <2>1, <2>5, <3>1, DistIsInt, EdgeIs
  <2>7. D[e.from] + e.weight < D[e.to]
    BY <1>2, <2>5 DEF Improves, Closer
  <2> HIDE DEF D
  <2> QED  BY <2>2, <2>3, <2>5, <2>6, <2>7
<1> QED  BY <1>2 DEF negativeCycle

LEMMA SomethingImproves ==
  ASSUME NEW g, IsGraph(g), NEW s \in NodesOf(g), HasNegativeCycle(g, s)
  PROVE  negativeCycle(g, bellmanFord(g, s))
<1> DEFINE D == bellmanFord(g, s)
<1>0. PICK p \in SimplePaths(g, s) : \E i \in 1 .. Len(p) :
         /\ \E e \in EdgesOf(g) : e.from = Last(p) /\ e.to = p[i]
         /\ Length(g, SubSeq(p, i, Len(p)) \o <<p[i]>>) < 0
  BY DEF HasNegativeCycle
<1>1. PICK i \in 1 .. Len(p) :
         /\ \E e \in EdgesOf(g) : e.from = Last(p) /\ e.to = p[i]
         /\ Length(g, SubSeq(p, i, Len(p)) \o <<p[i]>>) < 0
  BY <1>0
<1>2. PICK e \in EdgesOf(g) : e.from = Last(p) /\ e.to = p[i]
  BY <1>1
<1> DEFINE k == Len(p)
           V == WeightOf(g, e.from, e.to)
           t == SubSeq(p, i, k) \o <<p[i]>>
<1>3. /\ k \in Nat \ {0} /\ p[k] = e.from /\ IsPath(g, p) /\ i \in 1 .. k
  BY <1>2, SimpleIs
<1>4. PICK c : Costs(g, p, c) /\ Length(g, p) = c[k] /\ Length(g, p) \in Int
  BY SimpleCosts
<1>5. V \in Int /\ \E f \in EdgesOf(g) : f.from = e.from /\ f.to = e.to /\ f.weight = V
  BY LightestEdge
<1>6. D \in Dists(g) /\ \A j \in 1 .. k : p[j] \in DOMAIN D /\ D[p[j]] <= c[j]
  BY <1>4, RunReaches
<1>7. c[i] \in Int /\ Length(g, t) = c[k] - c[i] + V
  BY <1>1, <1>2, <1>4, CycleLength
<1>8. ASSUME ~negativeCycle(g, D) PROVE FALSE
  <2>1. ASSUME NEW f \in EdgesOf(g), f.from \in DOMAIN D PROVE f.to \in DOMAIN D /\ D[f.to] <= D[f.from] + f.weight
    <3>1. f.to \in DOMAIN D /\ ~(D[f.from] + f.weight < D[f.to])
      BY <1>8, <2>1 DEF negativeCycle, Improves, Closer
    <3>2. D[f.from] \in Int /\ D[f.to] \in Int /\ f.weight \in Int
      BY <1>6, <2>1, <3>1, DistIsInt, EdgeIs
    <3> HIDE DEF D
    <3> QED  BY <3>1, <3>2
  <2> HIDE DEF D, t, V, k
  <2> DEFINE T == {j \in 0 .. k - i : D[p[i + j]] <= D[p[i]] + (c[i + j] - c[i])}
  <2>2. \A j \in 1 .. k : p[j] \in DOMAIN D /\ D[p[j]] \in Int /\ c[j] \in Int
    BY <1>4, <1>6, DistIsInt DEF Costs, k
  <2>3. 0 \in T
    <3>1. i + 0 = i /\ i \in 1 .. k /\ 0 \in 0 .. k - i
      BY <1>3
    <3>2. D[p[i]] <= D[p[i]] + (c[i] - c[i])
      BY <2>2, <3>1
    <3> QED  BY <3>1, <3>2
  <2>4. ASSUME NEW j \in 0 .. (k - i) - 1, j \in T PROVE j + 1 \in T
    <3> DEFINE x == i + j
    <3>1. x \in 1 .. k - 1 /\ x \in 1 .. k /\ x + 1 \in 1 .. k /\ i \in 1 .. k /\ i + (j + 1) = x + 1 /\ j + 1 \in 0 .. k - i
      BY <1>3, SMTT(60)
    <3>2. D[p[x]] <= D[p[i]] + (c[x] - c[i])
      BY <2>4
    <3> HIDE DEF x
    <3>3. PICK f \in EdgesOf(g) : /\ f.from = p[x] /\ f.to = p[x + 1]
                                  /\ f.weight = WeightOf(g, p[x], p[x + 1])
      BY <1>3, <3>1, StepsWeigh DEF k
    <3>4. D[p[x + 1]] <= D[p[x]] + f.weight /\ f.weight \in Int
      BY <2>1, <2>2, <3>1, <3>3, EdgeIs
    <3>5. c[x + 1] = c[x] + f.weight
      BY <1>4, <3>1, <3>3 DEF Costs, k
    <3>6. D[p[x + 1]] <= D[p[i]] + (c[x + 1] - c[i])
      <4>1. /\ D[p[x + 1]] \in Int /\ D[p[x]] \in Int /\ D[p[i]] \in Int
            /\ c[x + 1] \in Int /\ c[x] \in Int /\ c[i] \in Int
        BY <2>2, <3>1
      <4> HIDE DEF D
      <4> DEFINE dx == D[p[x + 1]]  dy == D[p[x]]  di == D[p[i]]
      <4>2. dx <= dy + f.weight /\ dy <= di + (c[x] - c[i]) /\ c[x + 1] = c[x] + f.weight /\ f.weight \in Int
        BY <3>2, <3>4, <3>5
      <4>3. dx \in Int /\ dy \in Int /\ di \in Int
        BY <4>1
      <4> HIDE DEF dx, dy, di
      <4>4. dx <= di + (c[x + 1] - c[i])
        BY <4>1, <4>2, <4>3, SMTT(60)
      <4> QED  BY <4>4 DEF dx, di
    <3> QED  BY <3>1, <3>6
  <2>5. \A j \in 0 .. k - i : j \in T
    <3>1. k - i \in Nat
      BY <1>3
    <3> HIDE DEF T
    <3> QED  BY <2>3, <2>4, <3>1, SetInductionTo
  <2>6. D[p[k]] <= D[p[i]] + (c[k] - c[i])
    <3>1. k - i \in 0 .. k - i /\ i + (k - i) = k
      BY <1>3
    <3>2. k - i \in T
      BY <2>5, <3>1
    <3> QED  BY <3>1, <3>2
  <2>7. D[p[i]] <= D[p[k]] + V
    <3>1. k \in 1 .. k
      BY <1>3
    <3> QED  BY <1>2, <1>3, <1>5, <2>1, <2>2, <3>1
  <2>8. Length(g, t) < 0
    BY <1>1 DEF t, k
  <2>9. k \in 1 .. k /\ i \in 1 .. k
    BY <1>3
  <2>10. /\ D[p[i]] \in Int /\ D[p[k]] \in Int /\ c[k] \in Int
    BY <2>2, <2>9
  <2> QED  BY <1>5, <1>7, <2>6, <2>7, <2>8, <2>10
<1> QED  BY <1>8

(* Distances that are lengths of paths, and no more than any, are shortest. *)
LEMMA LeastAreShortest ==
  ASSUME NEW g, IsGraph(g), NEW s, NEW D \in Dists(g), Attained(g, s, D),
         \A q \in SimplePaths(g, s) : Last(q) \in DOMAIN D /\ D[Last(q)] <= Length(g, q)
  PROVE  D = Shortest(g, s)
<1> DEFINE P == SimplePaths(g, s)
<1>1. \A q \in P : Length(g, q) \in Int
  BY SimpleCosts
<1>2. DOMAIN D = {Last(q) : q \in P}
  BY DEF Attained
<1>3. ASSUME NEW v \in DOMAIN D PROVE Min({Length(g, p) : p \in {q \in P : Last(q) = v}}) = D[v]
  <2> DEFINE L == {Length(g, p) : p \in {q \in P : Last(q) = v}}
  <2>1. L \subseteq Int
    BY <1>1
  <2>2. D[v] \in Int
    BY <1>3, DistIsInt
  <2>3. PICK q \in P : Last(q) = v /\ Length(g, q) <= D[v]
    BY <1>3 DEF Attained
  <2>4. Length(g, q) = D[v]
    BY <1>1, <2>2, <2>3
  <2>5. D[v] \in L /\ \A y \in L : D[v] <= y
    BY <2>3, <2>4
  <2> HIDE DEF L
  <2>6. Min(L) = D[v]
    BY <2>1, <2>5, MinIsLeast
  <2> QED  BY <2>6 DEF L
<1>4. D = [v \in DOMAIN D |-> D[v]]
  BY DEF Dists
<1>5. D = [v \in {Last(p) : p \in P} |-> Min({Length(g, p) : p \in {q \in P : Last(q) = v}})]
  BY <1>2, <1>3, <1>4
<1> QED  BY <1>5 DEF Shortest

LEMMA DistancesAreShortest ==
  ASSUME NEW g, IsGraph(g), NEW s \in NodesOf(g), ~HasNegativeCycle(g, s)
  PROVE  bellmanFord(g, s) = Shortest(g, s)
<1> DEFINE D == bellmanFord(g, s)
<1>1. D \in Dists(g) /\ Attained(g, s, D)
  BY RunAttains
<1>2. ASSUME NEW q \in SimplePaths(g, s) PROVE Last(q) \in DOMAIN D /\ D[Last(q)] <= Length(g, q)
  <2>1. PICK c : Costs(g, q, c) /\ Length(g, q) = c[Len(q)]
    BY SimpleCosts
  <2>2. Len(q) \in 1 .. Len(q) /\ q[Len(q)] = Last(q)
    BY SimpleIs
  <2> QED  BY <2>1, <2>2, RunReaches
<1> HIDE DEF D
<1>3. D = Shortest(g, s)
  BY <1>1, <1>2, LeastAreShortest
<1> QED  BY <1>3 DEF D

(* bellmanFord of include/graph.hpp, and the extra pass of bellman_ford.cpp:*)
(* on every graph, also with negative weights, the pass finds an edge that *)
(* improves exactly if the source reaches a negative cycle, and if it finds*)
(* none, dist holds the least length of a path to every node that is reached.*)
THEOREM BellmanFordIsRight ==
  ASSUME NEW g, IsGraph(g), NEW s \in NodesOf(g)
  PROVE  /\ negativeCycle(g, bellmanFord(g, s)) <=> HasNegativeCycle(g, s)
         /\ ~negativeCycle(g, bellmanFord(g, s)) => bellmanFord(g, s) = Shortest(g, s)
<1>1. HasNegativeCycle(g, s) => negativeCycle(g, bellmanFord(g, s))
  BY SomethingImproves
<1>2. ~HasNegativeCycle(g, s) => ~negativeCycle(g, bellmanFord(g, s)) /\ bellmanFord(g, s) = Shortest(g, s)
  BY NothingImproves, DistancesAreShortest
<1> QED  BY <1>1, <1>2

-----------------------------------------------------------------------------
(* A search with priorities: no weight is negative, and k is positive.  H  *)
(* guides it if it contradicts no edge.                                    *)
Measures(g, k, H) ==
  /\ \A e \in EdgesOf(g) : e.weight \in Nat
  /\ k \in Nat \ {0}
  /\ H \in [NodesOf(g) -> Nat]
Guides(g, k, H) ==
  /\ Measures(g, k, H)
  /\ \A e \in EdgesOf(g) : H[e.from] <= k * e.weight + H[e.to]

Priority(k, H, d, v) == k * d + H[v]

LEMMA PriorityIs ==
  ASSUME NEW g, IsGraph(g), NEW k, NEW H, Measures(g, k, H)
  PROVE  /\ \A v \in NodesOf(g), d \in Nat : Priority(k, H, d, v) \in Nat
         /\ \A v \in NodesOf(g), c, d \in Nat : c < d <=> Priority(k, H, c, v) < Priority(k, H, d, v)
         /\ Guides(g, k, H) => \A e \in EdgesOf(g), d \in Nat :
              Priority(k, H, d, e.from) <= Priority(k, H, d + e.weight, e.to)
<1>1. k \in Nat \ {0} /\ \A v \in NodesOf(g) : H[v] \in Nat
  BY DEF Measures
<1>2. \A d \in Nat : k * d \in Nat
  BY <1>1, Products
<1>3. ASSUME NEW c \in Nat, NEW d \in Nat PROVE c < d <=> k * c < k * d
  <2>1. ASSUME NEW x \in Nat, NEW y \in Nat, x < y PROVE k * x < k * y
    <3>1. y = x + (y - x) /\ y - x \in Nat \ {0}
      BY <2>1
    <3>2. k * (x + (y - x)) = k * x + k * (y - x)
      BY <1>1, Products
    <3>3. k * (y - x) >= 1
      BY <1>1, <3>1, Products
    <3>4. k * x \in Nat /\ k * (y - x) \in Nat
      BY <1>2, <3>1
    <3> QED  BY <3>1, <3>2, <3>3, <3>4
  <2>2. k * c \in Nat /\ k * d \in Nat
    BY <1>2
  <2> QED  BY <2>1, <2>2
<1>4. ASSUME NEW v \in NodesOf(g), NEW d \in Nat PROVE Priority(k, H, d, v) \in Nat
  BY <1>1, <1>2 DEF Priority
<1>5. ASSUME NEW v \in NodesOf(g), NEW c \in Nat, NEW d \in Nat
      PROVE  c < d <=> Priority(k, H, c, v) < Priority(k, H, d, v)
  <2>1. k * c \in Nat /\ k * d \in Nat /\ H[v] \in Nat /\ (c < d <=> k * c < k * d)
    BY <1>1, <1>2, <1>3
  <2> QED  BY <2>1 DEF Priority
<1>6. ASSUME Guides(g, k, H), NEW e \in EdgesOf(g), NEW d \in Nat
      PROVE  Priority(k, H, d, e.from) <= Priority(k, H, d + e.weight, e.to)
  <2>1. e.weight \in Nat /\ H[e.from] \in Nat /\ H[e.to] \in Nat /\ H[e.from] <= k * e.weight + H[e.to]
    BY <1>1, <1>6, EdgeIs DEF Guides, Measures
  <2>2. k * (d + e.weight) = k * d + k * e.weight /\ k * d \in Nat /\ k * e.weight \in Nat
    BY <1>1, <1>2, <2>1, Distributes
  <2> QED  BY <2>1, <2>2 DEF Priority
<1> QED  BY <1>4, <1>5, <1>6

NatDists(g) == UNION {[A -> Nat] : A \in SUBSET NodesOf(g)}

LEMMA NatDistIs ==
  ASSUME NEW g, NEW D \in NatDists(g)
  PROVE  D \in Dists(g) /\ DOMAIN D \subseteq NodesOf(g) /\ \A v \in DOMAIN D : D[v] \in Nat
<1>1. PICK A \in SUBSET NodesOf(g) : D \in [A -> Nat]
  BY DEF NatDists
<1>2. D \in [A -> Int]
  BY <1>1
<1> QED  BY <1>1, <1>2 DEF Dists

(* D with the distance d at v.                                             *)
NowAt(g, D, v, d, M) ==
  /\ M \in NatDists(g)
  /\ DOMAIN M = DOMAIN D \cup {v}
  /\ M[v] = d
  /\ \A x \in DOMAIN D : x # v => M[x] = D[x]

(* The distances with that of v set.                                       *)
LEMMA NatWith ==
  ASSUME NEW g, NEW D \in NatDists(g), NEW v \in NodesOf(g), NEW d \in Nat
  PROVE  NowAt(g, D, v, d, With(D, v, d))
<1> DEFINE N == [x \in DOMAIN D \cup {v} |-> IF x = v THEN d ELSE D[x]]
<1>1. With(D, v, d) = N
  BY DEF With
<1>2. DOMAIN D \cup {v} \in SUBSET NodesOf(g) /\ N \in [DOMAIN D \cup {v} -> Nat]
  BY NatDistIs
<1> HIDE DEF N
<1>3. N \in NatDists(g)
  BY <1>2 DEF NatDists
<1> USE DEF N
<1> QED  BY <1>1, <1>3 DEF NowAt

(* The edges that leave u among the first i.                               *)
Leaving(g, u, i) == {j \in 1 .. i : g.edges[j].from = u}

(* What the first i edges make of the distances D and the queue Q when u,  *)
(* at distance d, is explored.                                             *)
Grown(g, u, d, k, H, D, Q, i, N, R) ==
  /\ N \in NatDists(g) /\ NotFurther(N, D)
  /\ R \in SUBSET (Nat \X NodesOf(g)) /\ Q \subseteq R
  /\ IsFiniteSet(R) /\ Cardinality(R) <= Cardinality(Q) + Cardinality(Leaving(g, u, i))
  /\ \A j \in Leaving(g, u, i) :
        g.edges[j].to \in DOMAIN N /\ N[g.edges[j].to] <= d + g.edges[j].weight
  /\ \A v \in DOMAIN N :
        \/ v \in DOMAIN D /\ N[v] = D[v]
        \/ /\ <<Priority(k, H, N[v], v), v>> \in R
           /\ \E e \in EdgesOf(g) : e.from = u /\ e.to = v /\ N[v] = d + e.weight
  /\ \A q \in R \ Q : \E e \in EdgesOf(g) :
        /\ e.from = u /\ q = <<Priority(k, H, d + e.weight, e.to), e.to>>
        /\ Closer(D, e.to, d + e.weight)
        /\ e.to \in DOMAIN N /\ N[e.to] <= d + e.weight

(* One edge more.                                                          *)
Offers(u, d, k, H, e, N, R, M, S) ==
  IF e.from = u /\ Closer(N, e.to, d + e.weight)
    THEN M = With(N, e.to, d + e.weight) /\ S = R \cup {<<Priority(k, H, d + e.weight, e.to), e.to>>}
    ELSE M = N /\ S = R

(* They are counted one by one.                                            *)
LEMMA LeavingIs ==
  ASSUME NEW g, NEW u, NEW i \in Nat
  PROVE  /\ IsFiniteSet(Leaving(g, u, i)) /\ Cardinality(Leaving(g, u, i)) \in Nat
         /\ Leaving(g, u, i) \subseteq Leaving(g, u, i + 1)
         /\ Leaving(g, u, i + 1) \subseteq Leaving(g, u, i) \cup {i + 1}
         /\ g.edges[i + 1].from = u =>
              /\ Leaving(g, u, i + 1) = Leaving(g, u, i) \cup {i + 1}
              /\ Cardinality(Leaving(g, u, i + 1)) = Cardinality(Leaving(g, u, i)) + 1
         /\ g.edges[i + 1].from # u => Leaving(g, u, i + 1) = Leaving(g, u, i)
         /\ Leaving(g, u, 0) = {}
<1>1. IsFiniteSet(Leaving(g, u, i))
  <2>1. IsFiniteSet(1 .. i) /\ Leaving(g, u, i) \subseteq 1 .. i
    BY FS_Interval DEF Leaving
  <2> QED  BY <2>1, FS_Subset
<1>2. Cardinality(Leaving(g, u, i)) \in Nat
  BY <1>1, FS_CardinalityType
<1>3. i + 1 \notin Leaving(g, u, i)
  BY DEF Leaving
<1>4. g.edges[i + 1].from = u => Leaving(g, u, i + 1) = Leaving(g, u, i) \cup {i + 1}
  BY DEF Leaving
<1>5. Cardinality(Leaving(g, u, i) \cup {i + 1}) = Cardinality(Leaving(g, u, i)) + 1
  BY <1>1, <1>3, FS_AddElement
<1>6. /\ Leaving(g, u, i) \subseteq Leaving(g, u, i + 1)
      /\ Leaving(g, u, i + 1) \subseteq Leaving(g, u, i) \cup {i + 1}
      /\ g.edges[i + 1].from # u => Leaving(g, u, i + 1) = Leaving(g, u, i)
      /\ Leaving(g, u, 0) = {}
  BY DEF Leaving
<1> QED  BY <1>1, <1>2, <1>4, <1>5, <1>6

(* No edge changes nothing; one more adds its offer.                       *)
LEMMA GrownStart ==
  ASSUME NEW g, NEW u, NEW d, NEW k, NEW H, NEW D \in NatDists(g),
         NEW Q \in SUBSET (Nat \X NodesOf(g)), IsFiniteSet(Q)
  PROVE  Grown(g, u, d, k, H, D, Q, 0, D, Q)
<1>1. Leaving(g, u, 0) = {} /\ Cardinality(Leaving(g, u, 0)) = 0 /\ Cardinality(Q) \in Nat
  BY LeavingIs, FS_EmptySet, FS_CardinalityType
<1>2. NotFurther(D, D)
  BY NatDistIs DEF NotFurther
<1> QED  BY <1>1, <1>2 DEF Grown

LEMMA GrownOn ==
  ASSUME NEW g, IsGraph(g), NEW k, NEW H, Measures(g, k, H), NEW u, NEW d \in Nat,
         NEW D \in NatDists(g), NEW Q, IsFiniteSet(Q),
         NEW i \in 0 .. Len(g.edges) - 1, NEW N, NEW R, Grown(g, u, d, k, H, D, Q, i, N, R),
         NEW M, NEW S, Offers(u, d, k, H, g.edges[i + 1], N, R, M, S)
  PROVE  Grown(g, u, d, k, H, D, Q, i + 1, M, S)
<1> DEFINE e == g.edges[i + 1]
           nd == d + e.weight
           key == <<Priority(k, H, nd, e.to), e.to>>
           L(j) == Leaving(g, u, j)
<1>1. i \in Nat /\ e \in EdgesOf(g) /\ e.from \in NodesOf(g) /\ e.to \in NodesOf(g)
  BY EdgeIs
<1>2. e.weight \in Nat /\ nd \in Nat
  BY <1>1 DEF Measures
<1>3. /\ N \in NatDists(g) /\ NotFurther(N, D)
      /\ R \in SUBSET (Nat \X NodesOf(g)) /\ Q \subseteq R
      /\ IsFiniteSet(R) /\ Cardinality(R) <= Cardinality(Q) + Cardinality(L(i))
  BY DEF Grown
<1>4. \A j \in L(i) : g.edges[j].to \in DOMAIN N /\ N[g.edges[j].to] <= d + g.edges[j].weight
  BY DEF Grown
<1>5. \A v \in DOMAIN N :
        \/ v \in DOMAIN D /\ N[v] = D[v]
        \/ /\ <<Priority(k, H, N[v], v), v>> \in R
           /\ \E f \in EdgesOf(g) : f.from = u /\ f.to = v /\ N[v] = d + f.weight
  BY DEF Grown
<1>6. \A q \in R \ Q : \E f \in EdgesOf(g) :
        /\ f.from = u /\ q = <<Priority(k, H, d + f.weight, f.to), f.to>>
        /\ Closer(D, f.to, d + f.weight)
        /\ f.to \in DOMAIN N /\ N[f.to] <= d + f.weight
  BY DEF Grown
<1>7. Cardinality(R) \in Nat /\ Cardinality(Q) \in Nat /\ Cardinality(L(i)) \in Nat
  BY <1>1, <1>3, FS_CardinalityType, LeavingIs
<1>8. \A j \in L(i + 1) : j \in L(i) \/ (j = i + 1 /\ e.from = u)
  BY DEF Leaving
<1>9. \A j \in L(i) : g.edges[j].weight \in Int
  BY <1>1, EdgeIs DEF Leaving
<1>10. /\ DOMAIN N \subseteq NodesOf(g) /\ \A v \in DOMAIN N : N[v] \in Nat
       /\ DOMAIN D \subseteq NodesOf(g) /\ \A v \in DOMAIN D : D[v] \in Nat
  BY <1>3, NatDistIs
<1>11. CASE e.from = u /\ Closer(N, e.to, nd)
  <2>1. M = With(N, e.to, nd) /\ S = R \cup {key}
    BY <1>11 DEF Offers
  <2>2. /\ M \in NatDists(g) /\ DOMAIN M = DOMAIN N \cup {e.to}
        /\ M[e.to] = nd
        /\ \A v \in DOMAIN N : v # e.to => M[v] = N[v]
    <3>1. NowAt(g, N, e.to, nd, With(N, e.to, nd))
      BY <1>1, <1>2, <1>3, NatWith
    <3> QED  BY <2>1, <3>1 DEF NowAt
  <2>3. e.to \in DOMAIN N => nd < N[e.to]
    BY <1>11 DEF Closer
  <2>4. \A v \in DOMAIN N : v \in DOMAIN M /\ M[v] <= N[v] /\ M[v] \in Nat
    BY <1>2, <1>10, <2>2, <2>3
  <2>5. NotFurther(M, D)
    <3>1. \A v \in DOMAIN D : v \in DOMAIN N /\ N[v] <= D[v]
      BY <1>3 DEF NotFurther
    <3> QED  BY <1>10, <2>4, <3>1 DEF NotFurther
  <2>6. Priority(k, H, nd, e.to) \in Nat
    BY <1>1, <1>2, PriorityIs
  <2>7. S \in SUBSET (Nat \X NodesOf(g)) /\ Q \subseteq S /\ R \subseteq S /\ key \in S
    BY <1>1, <1>3, <2>1, <2>6
  <2>8. Cardinality(L(i + 1)) = Cardinality(L(i)) + 1
    BY <1>1, <1>11, LeavingIs
  <2>9. IsFiniteSet(S) /\ Cardinality(S) <= Cardinality(R) + 1
    <3>1. Cardinality(R \cup {key}) = IF key \in R THEN Cardinality(R) ELSE Cardinality(R) + 1
      BY <1>3, FS_AddElement
    <3> QED  BY <1>3, <1>7, <2>1, <3>1, FS_AddElement, SMTT(60)
  <2>10. Cardinality(S) <= Cardinality(Q) + Cardinality(L(i + 1))
    <3>1. Cardinality(S) \in Nat
      BY <2>9, FS_CardinalityType
    <3> QED  BY <1>3, <1>7, <2>8, <2>9, <3>1
  <2>11. ASSUME NEW j \in L(i + 1)
         PROVE  g.edges[j].to \in DOMAIN M /\ M[g.edges[j].to] <= d + g.edges[j].weight
    <3>1. CASE j \in L(i)
      <4>1. g.edges[j].to \in DOMAIN N /\ N[g.edges[j].to] <= d + g.edges[j].weight
        BY <1>4, <3>1
      <4>2. M[g.edges[j].to] <= N[g.edges[j].to] /\ g.edges[j].to \in DOMAIN M
            /\ M[g.edges[j].to] \in Nat /\ N[g.edges[j].to] \in Nat
        BY <1>10, <2>4, <4>1
      <4>3. g.edges[j].weight \in Int
        BY <1>9, <3>1
      <4> QED  BY <4>1, <4>2, <4>3, SMTT(60)
    <3>2. CASE j = i + 1
      BY <1>2, <2>2, <3>2
    <3> QED  BY <1>8, <3>1, <3>2
  <2>12. ASSUME NEW v \in DOMAIN M
         PROVE  \/ v \in DOMAIN D /\ M[v] = D[v]
                \/ /\ <<Priority(k, H, M[v], v), v>> \in S
                   /\ \E f \in EdgesOf(g) : f.from = u /\ f.to = v /\ M[v] = d + f.weight
    <3>1. CASE v = e.to
      BY <1>1, <1>11, <2>2, <2>7, <3>1
    <3>2. CASE v # e.to
      <4>1. v \in DOMAIN N /\ M[v] = N[v]
        BY <2>2, <3>2
      <4> QED  BY <1>5, <2>7, <4>1
    <3> QED  BY <3>1, <3>2
  <2>13. ASSUME NEW q \in S \ Q
         PROVE  \E f \in EdgesOf(g) :
                  /\ f.from = u /\ q = <<Priority(k, H, d + f.weight, f.to), f.to>>
                  /\ Closer(D, f.to, d + f.weight)
                  /\ f.to \in DOMAIN M /\ M[f.to] <= d + f.weight
    <3>1. CASE q \in R
      <4>1. PICK f \in EdgesOf(g) :
               /\ f.from = u /\ q = <<Priority(k, H, d + f.weight, f.to), f.to>>
               /\ Closer(D, f.to, d + f.weight)
               /\ f.to \in DOMAIN N /\ N[f.to] <= d + f.weight
        BY <1>6, <2>13, <3>1
      <4>2. f.to \in DOMAIN M /\ M[f.to] <= N[f.to] /\ M[f.to] \in Nat /\ N[f.to] \in Nat /\ f.weight \in Nat
        BY <1>10, <2>4, <4>1 DEF Measures
      <4>3. M[f.to] <= d + f.weight
        BY <4>1, <4>2
      <4> QED  BY <4>1, <4>2, <4>3
    <3>2. CASE q = key
      <4>1. Closer(D, e.to, nd)
        <5>1. ASSUME e.to \in DOMAIN D PROVE nd < D[e.to]
          <6>1. e.to \in DOMAIN N /\ N[e.to] <= D[e.to] /\ nd < N[e.to]
            BY <1>3, <2>3, <5>1 DEF NotFurther
          <6>2. N[e.to] \in Nat /\ D[e.to] \in Nat
            BY <1>10, <5>1, <6>1
          <6> QED  BY <1>2, <6>1, <6>2
        <5> QED  BY <5>1 DEF Closer
      <4>2. e.to \in DOMAIN M /\ M[e.to] <= nd
        BY <1>2, <2>2
      <4> QED  BY <1>1, <1>11, <3>2, <4>1, <4>2
    <3> QED  BY <2>1, <2>13, <3>1, <3>2
  <2> HIDE DEF e, nd, key, L
  <2> QED  BY <2>2, <2>5, <2>7, <2>9, <2>10, <2>11, <2>12, <2>13 DEF Grown, L
<1>12. CASE ~(e.from = u /\ Closer(N, e.to, nd))
  <2>1. M = N /\ S = R
    BY <1>12 DEF Offers
  <2>2. Cardinality(S) <= Cardinality(Q) + Cardinality(L(i + 1))
    <3>1. Cardinality(L(i)) <= Cardinality(L(i + 1)) /\ Cardinality(L(i + 1)) \in Nat
      <4>1. L(i) \subseteq L(i + 1)
        BY <1>1, LeavingIs
      <4>2. IsFiniteSet(L(i + 1)) /\ Cardinality(L(i + 1)) \in Nat
        <5>1. i + 1 \in Nat
          BY <1>1
        <5> QED  BY <5>1, LeavingIs
      <4> QED  BY <4>1, <4>2, FS_Subset
    <3> QED  BY <1>3, <1>7, <2>1, <3>1
  <2>3. ASSUME NEW j \in L(i + 1)
        PROVE  g.edges[j].to \in DOMAIN M /\ M[g.edges[j].to] <= d + g.edges[j].weight
    <3>1. CASE j \in L(i)
      BY <1>4, <2>1, <3>1
    <3>2. CASE j = i + 1 /\ e.from = u
      <4>1. e.to \in DOMAIN N /\ ~(nd < N[e.to])
        BY <1>12, <3>2 DEF Closer
      <4>2. N[e.to] \in Nat
        BY <1>10, <4>1
      <4> QED  BY <1>2, <2>1, <3>2, <4>1, <4>2
    <3> QED  BY <1>8, <3>1, <3>2
  <2> HIDE DEF e, nd, key, L
  <2> QED  BY <1>3, <1>5, <1>6, <2>1, <2>2, <2>3 DEF Grown, L
<1> QED  BY <1>11, <1>12

(* What a search keeps.  Every node reached is in the queue with its       *)
(* priority until it is explored; of those explored, C, every edge is      *)
(* taken, and none is of higher priority than what is in the queue.        *)
Explored(g, k, H, D, Q, v) ==
  /\ <<Priority(k, H, D[v], v), v>> \notin Q
  /\ \A q \in Q : Priority(k, H, D[v], v) <= q[1]
  /\ \A e \in EdgesOf(g) : e.from = v => e.to \in DOMAIN D /\ D[e.to] <= D[v] + e.weight

Searching(g, s, k, H, D, Q, C) ==
  /\ D \in NatDists(g) /\ Attained(g, s, D)
  /\ s \in DOMAIN D /\ D[s] = 0
  /\ IsFiniteSet(Q) /\ Q \in SUBSET (Nat \X NodesOf(g))
  /\ \A q \in Q : q[2] \in DOMAIN D /\ Priority(k, H, D[q[2]], q[2]) <= q[1]
  /\ C \in SUBSET DOMAIN D
  /\ \A v \in DOMAIN D \ C : <<Priority(k, H, D[v], v), v>> \in Q
  /\ \A v \in C : Explored(g, k, H, D, Q, v)

(* How many turns are left at most.                                        *)
Waiting(g, C) == {j \in 1 .. Len(g.edges) : g.edges[j].from \notin C}
TurnsLeft(g, Q, C) == Cardinality(Q) + Cardinality(Waiting(g, C))

(* They are finitely many.                                                 *)
LEMMA WaitingIs ==
  ASSUME NEW g, IsGraph(g), NEW C
  PROVE  IsFiniteSet(Waiting(g, C)) /\ Cardinality(Waiting(g, C)) \in 0 .. Len(g.edges)
<1> DEFINE m == Len(g.edges)
<1>1. m \in Nat
  BY EdgeIs
<1>2. IsFiniteSet(1 .. m) /\ Cardinality(1 .. m) = m
  <2>1. Cardinality(1 .. m) = IF 1 > m THEN 0 ELSE m - 1 + 1
    BY <1>1, FS_Interval
  <2> QED  BY <1>1, <2>1, FS_Interval
<1>3. Waiting(g, C) \subseteq 1 .. m
  BY DEF Waiting
<1>4. IsFiniteSet(Waiting(g, C)) /\ Cardinality(Waiting(g, C)) <= m
  BY <1>2, <1>3, FS_Subset
<1> QED  BY <1>1, <1>4, FS_CardinalityType

(* An entry of a node explored before is dropped.                          *)
LEMMA Dropped ==
  ASSUME NEW g, IsGraph(g), NEW s, NEW k, NEW H, NEW D, NEW Q, NEW C,
         Searching(g, s, k, H, D, Q, C), NEW q \in Q, q[2] \in C
  PROVE  Searching(g, s, k, H, D, Q \ {q}, C) /\ TurnsLeft(g, Q \ {q}, C) = TurnsLeft(g, Q, C) - 1
<1> DEFINE R == Q \ {q}
<1>1. /\ D \in NatDists(g) /\ Attained(g, s, D)
      /\ s \in DOMAIN D /\ D[s] = 0
      /\ IsFiniteSet(Q) /\ Q \in SUBSET (Nat \X NodesOf(g))
      /\ C \in SUBSET DOMAIN D
  BY DEF Searching
<1>2. IsFiniteSet(R) /\ Cardinality(R) = Cardinality(Q) - 1 /\ R \in SUBSET (Nat \X NodesOf(g))
  BY <1>1, FS_RemoveElement
<1>3. \A r \in R : r[2] \in DOMAIN D /\ Priority(k, H, D[r[2]], r[2]) <= r[1]
  BY DEF Searching
<1>4. ASSUME NEW v \in DOMAIN D \ C PROVE <<Priority(k, H, D[v], v), v>> \in R
  <2>1. <<Priority(k, H, D[v], v), v>> \in Q
    BY DEF Searching
  <2>2. <<Priority(k, H, D[v], v), v>>[2] = v
    OBVIOUS
  <2> QED  BY <2>1, <2>2
<1>5. ASSUME NEW v \in C PROVE Explored(g, k, H, D, R, v)
  <2>1. Explored(g, k, H, D, Q, v)
    BY DEF Searching
  <2> QED  BY <2>1 DEF Explored
<1>6. Cardinality(Q) \in Nat
  BY <1>1, FS_CardinalityType
<1> HIDE DEF R
<1>7. Searching(g, s, k, H, D, R, C)
  BY <1>1, <1>2, <1>3, <1>4, <1>5 DEF Searching
<1>8. TurnsLeft(g, R, C) = TurnsLeft(g, Q, C) - 1
  <2>1. Cardinality(Waiting(g, C)) \in Nat
    BY WaitingIs
  <2> QED  BY <1>2, <1>6, <2>1 DEF TurnsLeft
<1> QED  BY <1>7, <1>8 DEF R

(* Fewer nodes, fewer edges that wait.                                     *)
LEMMA Lighter ==
  ASSUME NEW g, IsGraph(g), NEW k, NEW H, Measures(g, k, H), NEW v \in NodesOf(g),
         NEW c \in Nat, NEW d \in Nat
  PROVE  /\ c <= d <=> Priority(k, H, c, v) <= Priority(k, H, d, v)
         /\ Priority(k, H, c, v) \in Nat
<1>1. /\ d < c <=> Priority(k, H, d, v) < Priority(k, H, c, v)
      /\ Priority(k, H, c, v) \in Nat /\ Priority(k, H, d, v) \in Nat
  BY PriorityIs
<1> QED  BY <1>1

LEMMA WaitsLess ==
  ASSUME NEW g, IsGraph(g), NEW C, NEW u, u \notin C
  PROVE  Cardinality(Waiting(g, C))
           = Cardinality(Waiting(g, C \cup {u})) + Cardinality(Leaving(g, u, Len(g.edges)))
<1> DEFINE A == Waiting(g, C \cup {u})
           L == Leaving(g, u, Len(g.edges))
<1>1. IsFiniteSet(A) /\ IsFiniteSet(L) /\ Cardinality(A) \in Nat /\ Cardinality(L) \in Nat
  <2>1. Len(g.edges) \in Nat
    BY EdgeIs
  <2> QED  BY <2>1, WaitingIs, LeavingIs
<1>2. A \cup L = Waiting(g, C) /\ A \cap L = {}
  BY DEF Waiting, Leaving
<1> HIDE DEF A, L
<1>3. Cardinality(A \cup L) = Cardinality(A) + Cardinality(L) - Cardinality(A \cap L)
  BY <1>1, FS_Union
<1>4. Cardinality(A \cap L) = 0
  BY <1>2, FS_EmptySet
<1>5. Cardinality(A \cup L) = Cardinality(A) + Cardinality(L)
  BY <1>1, <1>3, <1>4
<1>6. Cardinality(Waiting(g, C)) = Cardinality(A) + Cardinality(L)
  BY <1>2, <1>5
<1> QED  BY <1>6 DEF A, L

(* Exploring a node leads to paths, and queues no priority below that of   *)
(* a distance.                                                             *)
LEMMA GrownAttains ==
  ASSUME NEW g, IsGraph(g), NEW s, ~HasNegativeCycle(g, s), NEW k, NEW H, Measures(g, k, H),
         NEW D \in NatDists(g), Attained(g, s, D), NEW u \in DOMAIN D,
         NEW Q, NEW i, NEW N, NEW R, Grown(g, u, D[u], k, H, D, Q, i, N, R)
  PROVE  Attained(g, s, N)
<1> DEFINE d == D[u]
<1>1. d \in Nat /\ \A e \in EdgesOf(g) : e.weight \in Nat
  BY NatDistIs DEF Measures
<1>2. \A v \in DOMAIN N :
        \/ v \in DOMAIN D /\ N[v] = D[v]
        \/ \E e \in EdgesOf(g) : e.from = u /\ e.to = v /\ N[v] = d + e.weight
  BY DEF Grown
<1> HIDE DEF d
<1> SUFFICES ASSUME NEW v \in DOMAIN N
             PROVE  \E q \in SimplePaths(g, s) : Last(q) = v /\ Length(g, q) <= N[v]
  BY DEF Attained
<1>3. CASE v \in DOMAIN D /\ N[v] = D[v]
  BY <1>3 DEF Attained
<1>4. ASSUME NEW e \in EdgesOf(g), e.from = u, e.to = v, N[v] = d + e.weight
      PROVE  \E q \in SimplePaths(g, s) : Last(q) = v /\ Length(g, q) <= N[v]
  <2>1. PICK q \in SimplePaths(g, s) : Last(q) = u /\ Length(g, q) <= d
    BY DEF Attained, d
  <2>2. PICK r \in SimplePaths(g, s) : Last(r) = v /\ Length(g, r) <= Length(g, q) + e.weight
    BY <1>4, <2>1, EdgeLeadsOn
  <2>3. Length(g, q) \in Int /\ Length(g, r) \in Int
    BY SimpleCosts
  <2>4. Length(g, r) <= N[v]
    BY <1>1, <1>4, <2>1, <2>2, <2>3
  <2> QED  BY <2>2, <2>4
<1> QED  BY <1>2, <1>3, <1>4

LEMMA GrownKeys ==
  ASSUME NEW g, IsGraph(g), NEW k, NEW H, Measures(g, k, H),
         NEW D \in NatDists(g), NEW u \in DOMAIN D,
         NEW Q, \A q \in Q : q[2] \in DOMAIN D /\ Priority(k, H, D[q[2]], q[2]) <= q[1],
         NEW i, NEW N, NEW R, Grown(g, u, D[u], k, H, D, Q, i, N, R)
  PROVE  \A q \in R : q[2] \in DOMAIN N /\ Priority(k, H, N[q[2]], q[2]) <= q[1]
<1> DEFINE d == D[u]
           P(c, v) == Priority(k, H, c, v)
<1>1. d \in Nat /\ DOMAIN D \subseteq NodesOf(g) /\ \A v \in DOMAIN D : D[v] \in Nat
  BY NatDistIs
<1>2. /\ \A v \in DOMAIN D : v \in DOMAIN N /\ N[v] <= D[v]
      /\ DOMAIN N \subseteq NodesOf(g) /\ \A v \in DOMAIN N : N[v] \in Nat
      /\ \A q \in R : q[1] \in Nat
  BY NatDistIs DEF NotFurther, Grown
<1>3. \A v \in NodesOf(g), a, c \in Nat : (a <= c <=> P(a, v) <= P(c, v)) /\ P(a, v) \in Nat
  BY Lighter
<1>4. \A q \in R \ Q : \E e \in EdgesOf(g) :
        /\ q = <<P(d + e.weight, e.to), e.to>> /\ e.to \in DOMAIN N /\ N[e.to] <= d + e.weight
  BY DEF Grown
<1>5. \A q \in Q : q[2] \in DOMAIN D /\ P(D[q[2]], q[2]) <= q[1]
  OBVIOUS
<1> HIDE DEF P, d
<1> SUFFICES ASSUME NEW q \in R PROVE q[2] \in DOMAIN N /\ P(N[q[2]], q[2]) <= q[1]
  BY DEF P
<1>6. CASE q \in Q
  <2> DEFINE v == q[2]
  <2>1. v \in DOMAIN D /\ P(D[v], v) <= q[1] /\ q[1] \in Nat
    BY <1>2, <1>5, <1>6
  <2> HIDE DEF v
  <2>2. v \in DOMAIN N /\ N[v] <= D[v] /\ N[v] \in Nat /\ D[v] \in Nat /\ v \in NodesOf(g)
    BY <1>1, <1>2, <2>1
  <2>3. P(N[v], v) <= P(D[v], v) /\ P(N[v], v) \in Nat /\ P(D[v], v) \in Nat
    BY <1>3, <2>2
  <2>4. v \in DOMAIN N /\ P(N[v], v) <= q[1]
    BY <2>1, <2>2, <2>3
  <2> QED  BY <2>4 DEF v
<1>7. CASE q \notin Q
  <2>1. PICK e \in EdgesOf(g) :
           q = <<P(d + e.weight, e.to), e.to>> /\ e.to \in DOMAIN N /\ N[e.to] <= d + e.weight
    BY <1>4, <1>7
  <2>2. d + e.weight \in Nat /\ N[e.to] \in Nat /\ e.to \in NodesOf(g)
    BY <1>1, <1>2, <2>1 DEF Measures
  <2>3. P(N[e.to], e.to) <= P(d + e.weight, e.to)
    BY <1>3, <2>1, <2>2
  <2> QED  BY <2>1, <2>3
<1> QED  BY <1>6, <1>7

LEMMA GrownTurns ==
  ASSUME NEW g, IsGraph(g), NEW Q, IsFiniteSet(Q), NEW top \in Q, NEW C, NEW u, u \notin C,
         NEW R, IsFiniteSet(R),
         Cardinality(R) <= Cardinality(Q \ {top}) + Cardinality(Leaving(g, u, Len(g.edges)))
  PROVE  TurnsLeft(g, R, C \cup {u}) <= TurnsLeft(g, Q, C) - 1
<1> DEFINE m == Len(g.edges)
           B == C \cup {u}
<1>1. Cardinality(Q \ {top}) = Cardinality(Q) - 1 /\ Cardinality(Q) \in Nat /\ Cardinality(R) \in Nat
  BY FS_RemoveElement, FS_CardinalityType
<1>2. Cardinality(Waiting(g, C)) = Cardinality(Waiting(g, B)) + Cardinality(Leaving(g, u, m))
  BY WaitsLess
<1>3. /\ Cardinality(Waiting(g, C)) \in Nat /\ Cardinality(Waiting(g, B)) \in Nat
      /\ Cardinality(Leaving(g, u, m)) \in Nat
  <2>1. m \in Nat
    BY EdgeIs
  <2>2. Cardinality(Waiting(g, C)) \in 0 .. m /\ Cardinality(Waiting(g, B)) \in 0 .. m
    BY WaitingIs
  <2> QED  BY <2>1, <2>2, LeavingIs
<1>4. Cardinality(R) <= Cardinality(Q \ {top}) + Cardinality(Leaving(g, u, m))
  OBVIOUS
<1> HIDE DEF B, m
<1>5. TurnsLeft(g, R, B) <= TurnsLeft(g, Q, C) - 1
  BY <1>1, <1>2, <1>3, <1>4 DEF TurnsLeft
<1> QED  BY <1>5 DEF B

(* A node whose priority is the least is explored for good.                *)
LEMMA Explores ==
  ASSUME NEW g, IsGraph(g), NEW k, NEW H, Guides(g, k, H), NEW s, ~HasNegativeCycle(g, s),
         NEW D, NEW Q, NEW C, Searching(g, s, k, H, D, Q, C),
         NEW top \in Q, \A q \in Q : top[1] <= q[1], NEW u, u = top[2], u \notin C,
         NEW N, NEW R, Grown(g, u, D[u], k, H, D, Q \ {top}, Len(g.edges), N, R)
  PROVE  /\ Searching(g, s, k, H, N, R, C \cup {u})
         /\ TurnsLeft(g, R, C \cup {u}) <= TurnsLeft(g, Q, C) - 1
<1> DEFINE d == D[u]
           P(c, v) == Priority(k, H, c, v)
           p == P(d, u)
           m == Len(g.edges)
           B == C \cup {u}
<1>1. /\ D \in NatDists(g) /\ Attained(g, s, D)
      /\ s \in DOMAIN D /\ D[s] = 0
      /\ IsFiniteSet(Q) /\ Q \in SUBSET (Nat \X NodesOf(g))
      /\ \A q \in Q : q[2] \in DOMAIN D /\ P(D[q[2]], q[2]) <= q[1]
      /\ C \in SUBSET DOMAIN D
      /\ \A v \in DOMAIN D \ C : <<P(D[v], v), v>> \in Q
      /\ \A v \in C : Explored(g, k, H, D, Q, v)
  BY DEF Searching
<1>2. DOMAIN D \subseteq NodesOf(g) /\ \A v \in DOMAIN D : D[v] \in Nat
  BY <1>1, NatDistIs
<1>3. /\ N \in NatDists(g) /\ NotFurther(N, D)
      /\ R \in SUBSET (Nat \X NodesOf(g)) /\ Q \ {top} \subseteq R
      /\ IsFiniteSet(R) /\ Cardinality(R) <= Cardinality(Q \ {top}) + Cardinality(Leaving(g, u, m))
  BY DEF Grown
<1>4. \A j \in Leaving(g, u, m) :
        g.edges[j].to \in DOMAIN N /\ N[g.edges[j].to] <= d + g.edges[j].weight
  BY DEF Grown
<1>5. \A v \in DOMAIN N :
        \/ v \in DOMAIN D /\ N[v] = D[v]
        \/ /\ <<P(N[v], v), v>> \in R
           /\ \E e \in EdgesOf(g) : e.from = u /\ e.to = v /\ N[v] = d + e.weight
  BY DEF Grown
<1>6. \A q \in R \ (Q \ {top}) : \E e \in EdgesOf(g) :
        /\ e.from = u /\ q = <<P(d + e.weight, e.to), e.to>>
        /\ Closer(D, e.to, d + e.weight)
        /\ e.to \in DOMAIN N /\ N[e.to] <= d + e.weight
  BY DEF Grown
<1>7. /\ \A v \in DOMAIN D : v \in DOMAIN N /\ N[v] <= D[v]
      /\ DOMAIN N \subseteq NodesOf(g) /\ \A v \in DOMAIN N : N[v] \in Nat
  BY <1>3, NatDistIs DEF NotFurther
<1>0. Measures(g, k, H)
  BY DEF Guides
<1>8. \A e \in EdgesOf(g) : e.weight \in Nat /\ e.to \in NodesOf(g)
  BY <1>0, EdgeIs DEF Measures
<1>9. u \in DOMAIN D /\ d \in Nat /\ u \in NodesOf(g) /\ top[1] \in Nat /\ top = <<top[1], u>>
  BY <1>1, <1>2
<1>10. top[1] = p /\ p \in Nat
  <2>1. P(d, u) \in Nat /\ P(d, u) <= top[1]
    BY <1>0, <1>1, <1>9, Lighter
  <2>2. <<P(d, u), u>> \in Q
    BY <1>1, <1>9
  <2>3. top[1] <= <<P(d, u), u>>[1]
    BY <2>2
  <2>4. top[1] <= P(d, u)
    BY <2>3
  <2> HIDE DEF P
  <2> QED  BY <1>9, <2>1, <2>4
<1>11. \A v \in NodesOf(g), a, c \in Nat : (a <= c <=> P(a, v) <= P(c, v)) /\ P(a, v) \in Nat
  BY <1>0, Lighter
<1>12. ASSUME NEW e \in EdgesOf(g), e.from = u
       PROVE  d + e.weight \in Nat /\ P(d + e.weight, e.to) \in Nat /\ p <= P(d + e.weight, e.to)
  <2>1. d + e.weight \in Nat /\ e.to \in NodesOf(g)
    BY <1>8, <1>9
  <2>2. P(d, e.from) <= P(d + e.weight, e.to)
    BY <1>0, <1>9, PriorityIs
  <2> HIDE DEF P, d
  <2> QED  BY <1>11, <1>12, <2>1, <2>2
<1> HIDE DEF P, d, p
<1>13. \A v \in B : v \in DOMAIN D /\ D[v] \in Nat /\ v \in NodesOf(g) /\ P(D[v], v) \in Nat /\ P(D[v], v) <= p
  <2>1. ASSUME NEW v \in C PROVE P(D[v], v) <= p
    BY <1>1, <1>10 DEF Explored, P
  <2>2. P(D[u], u) <= p
    BY <1>9, <1>10 DEF p, d
  <2>3. \A v \in B : v \in DOMAIN D
    BY <1>1, <1>9
  <2> QED  BY <1>2, <1>11, <2>1, <2>2, <2>3
<1>14. ASSUME NEW e \in EdgesOf(g), e.from = u, e.to \in B PROVE D[e.to] <= d + e.weight
  <2>1. P(D[e.to], e.to) <= p /\ p <= P(d + e.weight, e.to) /\ P(d + e.weight, e.to) \in Nat /\ d + e.weight \in Nat
    BY <1>12, <1>13, <1>14
  <2>2. P(D[e.to], e.to) <= P(d + e.weight, e.to)
    BY <1>10, <1>13, <1>14, <2>1
  <2> QED  BY <1>11, <1>13, <1>14, <2>1, <2>2
<1>15. \A v \in B : v \in DOMAIN N /\ N[v] = D[v]
  <2> SUFFICES ASSUME NEW v \in B PROVE v \in DOMAIN N /\ N[v] = D[v]
    OBVIOUS
  <2>1. v \in DOMAIN N /\ N[v] <= D[v] /\ N[v] \in Nat /\ D[v] \in Nat
    BY <1>7, <1>13
  <2>2. CASE \E e \in EdgesOf(g) : e.from = u /\ e.to = v /\ N[v] = d + e.weight
    <3>1. D[v] <= N[v]
      BY <1>14, <2>2
    <3> QED  BY <2>1, <3>1
  <2> QED  BY <1>5, <2>1, <2>2
<1>16. Attained(g, s, N)
  BY <1>0, <1>1, <1>9, GrownAttains
<1>17. s \in DOMAIN N /\ N[s] = 0
  BY <1>1, <1>7
<1>18. \A q \in R : q[2] \in DOMAIN N /\ P(N[q[2]], q[2]) <= q[1]
  <2>1. \A q \in Q \ {top} : q[2] \in DOMAIN D /\ Priority(k, H, D[q[2]], q[2]) <= q[1]
    BY <1>1 DEF P
  <2>2. \A q \in R : q[2] \in DOMAIN N /\ Priority(k, H, N[q[2]], q[2]) <= q[1]
    BY <1>0, <1>1, <1>9, <2>1, GrownKeys
  <2> QED  BY <2>2 DEF P
<1>19. B \in SUBSET DOMAIN N
  BY <1>15
<1>20. \A v \in DOMAIN N \ B : <<P(N[v], v), v>> \in R
  <2> SUFFICES ASSUME NEW v \in DOMAIN N \ B, v \in DOMAIN D, N[v] = D[v]
               PROVE  <<P(N[v], v), v>> \in R
    BY <1>5
  <2>1. <<P(D[v], v), v>> \in Q
    BY <1>1 DEF P
  <2>2. <<P(D[v], v), v>> # top
    BY <1>9
  <2> QED  BY <1>3, <2>1, <2>2
<1>21. \A v \in B : Explored(g, k, H, N, R, v)
  <2> SUFFICES ASSUME NEW v \in B PROVE Explored(g, k, H, N, R, v)
    OBVIOUS
  <2>0. v \in DOMAIN N /\ N[v] = D[v]
    BY <1>15
  <2>1. <<P(D[v], v), v>> \notin Q \ {top}
    <3>1. CASE v \in C
      BY <1>1, <3>1 DEF Explored, P
    <3>2. CASE v = u
      BY <1>9, <1>10, <3>2 DEF p, d
    <3> QED  BY <3>1, <3>2
  <2>2. ASSUME <<P(D[v], v), v>> \in R PROVE FALSE
    <3>1. PICK e \in EdgesOf(g) :
             /\ e.from = u /\ <<P(D[v], v), v>> = <<P(d + e.weight, e.to), e.to>>
             /\ Closer(D, e.to, d + e.weight)
      BY <1>6, <2>1, <2>2
    <3>2. e.to = v /\ d + e.weight \in Nat
      BY <1>12, <3>1
    <3>3. d + e.weight < D[v] /\ D[v] <= d + e.weight /\ D[v] \in Nat
      BY <1>13, <1>14, <3>1, <3>2 DEF Closer
    <3> QED  BY <3>2, <3>3
  <2>3. ASSUME NEW q \in R PROVE P(D[v], v) <= q[1]
    <3>1. P(D[v], v) <= p /\ P(D[v], v) \in Nat /\ p \in Nat
      BY <1>10, <1>13
    <3>2. q[1] \in Nat /\ p <= q[1]
      <4>1. CASE q \in Q
        BY <1>1, <1>10, <4>1
      <4>2. CASE q \notin Q
        <5>1. PICK e \in EdgesOf(g) : e.from = u /\ q = <<P(d + e.weight, e.to), e.to>>
          BY <1>6, <4>2
        <5> QED  BY <1>12, <5>1
      <4> QED  BY <4>1, <4>2
    <3> QED  BY <3>1, <3>2
  <2>4. ASSUME NEW e \in EdgesOf(g), e.from = v
        PROVE  e.to \in DOMAIN N /\ N[e.to] <= N[v] + e.weight
    <3>1. CASE v \in C
      <4>1. e.to \in DOMAIN D /\ D[e.to] <= D[v] + e.weight
        BY <1>1, <2>4, <3>1 DEF Explored
      <4>2. e.to \in DOMAIN N /\ N[e.to] <= D[e.to] /\ N[e.to] \in Nat /\ D[e.to] \in Nat
        BY <1>2, <1>7, <4>1
      <4>3. D[v] \in Nat /\ e.weight \in Nat
        BY <1>8, <1>13
      <4> QED  BY <2>0, <4>1, <4>2, <4>3
    <3>2. CASE v = u
      <4>1. PICK j \in 1 .. m : g.edges[j] = e
        BY EdgeIs
      <4>2. j \in Leaving(g, u, m)
        BY <2>4, <3>2, <4>1 DEF Leaving
      <4>3. e.to \in DOMAIN N /\ N[e.to] <= d + e.weight
        BY <1>4, <4>1, <4>2
      <4> QED  BY <2>0, <3>2, <4>3 DEF d
    <3> QED  BY <3>1, <3>2
  <2> QED  BY <2>0, <2>2, <2>3, <2>4 DEF Explored, P
<1>22. Searching(g, s, k, H, N, R, B)
  <2> HIDE DEF B
  <2> QED  BY <1>3, <1>16, <1>17, <1>18, <1>19, <1>20, <1>21 DEF Searching, P
<1>23. TurnsLeft(g, R, B) <= TurnsLeft(g, Q, C) - 1
  BY <1>1, <1>3, GrownTurns
<1> QED  BY <1>22, <1>23

LEMMA CostsRise ==
  ASSUME NEW g, IsGraph(g), NEW k, NEW H, Guides(g, k, H), NEW s, NEW p \in SimplePaths(g, s),
         NEW c, Costs(g, p, c)
  PROVE  /\ \A i \in 1 .. Len(p) : c[i] \in Nat
         /\ \A i \in 1 .. Len(p), j \in 1 .. Len(p) :
              j <= i => Priority(k, H, c[j], p[j]) <= Priority(k, H, c[i], p[i])
<1> DEFINE l == Len(p)
           P(i) == Priority(k, H, c[i], p[i])
           T == {i \in 0 .. l - 1 : c[i + 1] \in Nat /\ \A j \in 1 .. i + 1 : P(j) <= P(i + 1)}
<1>1. /\ l \in Nat \ {0} /\ IsPath(g, p) /\ \A i \in 1 .. l : p[i] \in NodesOf(g)
  BY SimpleIs
<1>2. /\ c \in [1 .. l -> Int] /\ c[1] = 0
      /\ \A i \in 1 .. l - 1 : c[i + 1] = c[i] + WeightOf(g, p[i], p[i + 1])
  BY DEF Costs
<1>0. Measures(g, k, H)
  BY DEF Guides
<1>3. \A i \in 1 .. l : c[i] \in Nat => P(i) \in Nat
  BY <1>0, <1>1, PriorityIs
<1>4. ASSUME NEW i \in 1 .. l - 1, c[i] \in Nat PROVE c[i + 1] \in Nat /\ P(i) <= P(i + 1)
  <2>1. PICK e \in EdgesOf(g) : /\ e.from = p[i] /\ e.to = p[i + 1]
                                /\ e.weight = WeightOf(g, p[i], p[i + 1])
    BY <1>1, StepsWeigh
  <2>2. e.weight \in Nat /\ c[i + 1] = c[i] + e.weight
    BY <1>0, <1>2, <2>1 DEF Measures
  <2>3. Priority(k, H, c[i], e.from) <= Priority(k, H, c[i] + e.weight, e.to)
    BY <1>0, <1>4, PriorityIs
  <2> QED  BY <1>4, <2>1, <2>2, <2>3
<1> HIDE DEF P, l
<1>5. 0 \in T
  <2>1. \A j \in 1 .. 0 + 1 : j = 1
    OBVIOUS
  <2>2. c[1] \in Nat /\ P(1) \in Nat
    BY <1>1, <1>2, <1>3
  <2>3. \A j \in 1 .. 0 + 1 : P(j) <= P(0 + 1)
    BY <2>1, <2>2
  <2> QED  BY <1>1, <2>2, <2>3
<1>6. ASSUME NEW i \in 0 .. (l - 1) - 1, i \in T PROVE i + 1 \in T
  <2>1. i + 1 \in 1 .. l - 1 /\ i + 1 \in 0 .. l - 1 /\ (i + 1) + 1 \in 1 .. l /\ i + 1 \in 1 .. l
    BY <1>1
  <2>2. c[(i + 1) + 1] \in Nat /\ P(i + 1) <= P((i + 1) + 1) /\ c[i + 1] \in Nat
    BY <1>4, <1>6, <2>1
  <2>3. P((i + 1) + 1) \in Nat /\ P(i + 1) \in Nat
    BY <1>3, <2>1, <2>2
  <2>4. ASSUME NEW j \in 1 .. (i + 1) + 1 PROVE P(j) <= P((i + 1) + 1)
    <3>1. CASE j = (i + 1) + 1
      BY <2>3, <3>1
    <3>2. CASE j # (i + 1) + 1
      <4>0. i \in Nat /\ l \in Nat /\ i + 1 <= l
        BY <1>1
      <4>1. j \in 1 .. i + 1 /\ j \in 1 .. l
        BY <3>2, <4>0
      <4>2. P(j) <= P(i + 1)
        BY <1>6, <4>1
      <4>3. P(j) \in Int
        <5>1. c[j] \in Int
          BY <1>2, <4>1
        <5>2. P(j) \in Int
          <6>1. k \in Int /\ c[j] \in Int /\ \A v \in NodesOf(g) : H[v] \in Int
            BY <1>0, <5>1 DEF Measures
          <6>2. H[p[j]] \in Int
            BY <1>1, <4>1, <6>1
          <6> QED  BY <6>1, <6>2 DEF P, Priority
        <5> QED  BY <5>2
      <4> QED  BY <2>2, <2>3, <4>2, <4>3
    <3> QED  BY <3>1, <3>2
  <2> QED  BY <2>1, <2>2, <2>4
<1>7. \A i \in 0 .. l - 1 : i \in T
  <2>1. l - 1 \in Nat
    BY <1>1
  <2> HIDE DEF T
  <2> QED  BY <1>5, <1>6, <2>1, SetInductionTo
<1>8. \A i \in 1 .. l : c[i] \in Nat
  <2> SUFFICES ASSUME NEW i \in 1 .. l PROVE c[i] \in Nat
    OBVIOUS
  <2>1. i - 1 \in 0 .. l - 1 /\ (i - 1) + 1 = i
    BY <1>1
  <2>2. i - 1 \in T
    BY <1>7, <2>1
  <2> QED  BY <2>1, <2>2
<1>9. ASSUME NEW i \in 1 .. l, NEW j \in 1 .. l, j <= i PROVE P(j) <= P(i)
  <2>1. i - 1 \in T /\ (i - 1) + 1 = i
    BY <1>1, <1>7
  <2>2. j \in 1 .. (i - 1) + 1
    BY <1>9, <2>1
  <2>3. P(j) <= P((i - 1) + 1)
    BY <2>1, <2>2
  <2> QED  BY <2>1, <2>3
<1> QED  BY <1>8, <1>9 DEF P, l

(* Along any path the search has explored every node, none further than on *)
(* the path, or reached one that it has not explored yet.                  *)
LEMMA Reaches ==
  ASSUME NEW g, IsGraph(g), NEW k, NEW H, Guides(g, k, H), NEW s,
         NEW D, NEW Q, NEW C, Searching(g, s, k, H, D, Q, C),
         NEW p \in SimplePaths(g, s), NEW c, Costs(g, p, c)
  PROVE  \/ \E j \in 1 .. Len(p) : p[j] \in DOMAIN D \ C /\ D[p[j]] <= c[j]
         \/ p[Len(p)] \in C /\ D[p[Len(p)]] <= c[Len(p)]
<1> DEFINE l == Len(p)
           Open(i) == \E j \in 1 .. i : p[j] \in DOMAIN D \ C /\ D[p[j]] <= c[j]
           Closed(i) == p[i] \in C /\ D[p[i]] <= c[i]
           T == {i \in 0 .. l - 1 : Open(i + 1) \/ Closed(i + 1)}
<1>1. /\ l \in Nat \ {0} /\ IsPath(g, p) /\ p[1] = s
  BY SimpleIs
<1>2. /\ c[1] = 0
      /\ \A i \in 1 .. l - 1 : c[i + 1] = c[i] + WeightOf(g, p[i], p[i + 1])
  BY DEF Costs
<1>3. \A i \in 1 .. l : c[i] \in Nat
  BY CostsRise
<1>4. /\ s \in DOMAIN D /\ D[s] = 0 /\ C \in SUBSET DOMAIN D
      /\ \A v \in C : Explored(g, k, H, D, Q, v)
      /\ \A v \in DOMAIN D : D[v] \in Nat
  <2>1. D \in NatDists(g)
    BY DEF Searching
  <2> QED  BY <2>1, NatDistIs DEF Searching
<1>5. ASSUME NEW i \in 1 .. l, p[i] \in DOMAIN D, D[p[i]] <= c[i] PROVE Open(i) \/ Closed(i)
  <2>1. i \in 1 .. i
    OBVIOUS
  <2> QED  BY <1>5, <2>1
<1> HIDE DEF l
<1>6. 0 \in T
  <2>1. 1 \in 1 .. l /\ 0 + 1 = 1 /\ 0 \in 0 .. l - 1
    BY <1>1
  <2>2. Open(1) \/ Closed(1)
    <3>1. p[1] \in DOMAIN D /\ D[p[1]] <= c[1]
      BY <1>1, <1>2, <1>4
    <3> HIDE DEF Open, Closed
    <3> QED  BY <1>5, <2>1, <3>1
  <2> HIDE DEF Open, Closed
  <2> QED  BY <2>1, <2>2
<1>7. ASSUME NEW i \in 0 .. (l - 1) - 1, i \in T PROVE i + 1 \in T
  <2> DEFINE x == i + 1
  <2>1. x \in 1 .. l - 1 /\ x \in 0 .. l - 1 /\ x + 1 \in 1 .. l /\ x \in 1 .. l
    BY <1>1
  <2>2. Open(x) \/ Closed(x)
    BY <1>7
  <2> HIDE DEF x
  <2>3. CASE Open(x)
    <3>1. \A j \in 1 .. x : j \in 1 .. x + 1
      BY <2>1
    <3> QED  BY <2>1, <2>3, <3>1 DEF x
  <2>4. CASE Closed(x)
    <3>1. PICK e \in EdgesOf(g) : /\ e.from = p[x] /\ e.to = p[x + 1]
                                  /\ e.weight = WeightOf(g, p[x], p[x + 1])
      BY <1>1, <2>1, StepsWeigh DEF l
    <3>2. e.to \in DOMAIN D /\ D[e.to] <= D[p[x]] + e.weight
      BY <1>4, <2>4, <3>1 DEF Explored
    <3>3. D[p[x]] \in Nat /\ D[e.to] \in Nat /\ e.weight \in Nat /\ c[x] \in Nat
          /\ c[x + 1] = c[x] + e.weight /\ D[p[x]] <= c[x]
      BY <1>2, <1>3, <1>4, <2>1, <2>4, <3>1, <3>2 DEF Guides, Measures
    <3>4. p[x + 1] \in DOMAIN D /\ D[p[x + 1]] <= c[x + 1]
      BY <3>1, <3>2, <3>3
    <3> HIDE DEF Open, Closed
    <3> QED  BY <1>5, <2>1, <3>4 DEF x
  <2> QED  BY <2>2, <2>3, <2>4
<1>8. \A i \in 0 .. l - 1 : i \in T
  <2>1. l - 1 \in Nat
    BY <1>1
  <2> HIDE DEF T
  <2> QED  BY <1>6, <1>7, <2>1, SetInductionTo
<1>9. Open(l) \/ Closed(l)
  <2>1. l - 1 \in T /\ (l - 1) + 1 = l
    BY <1>1, <1>8
  <2> HIDE DEF Open, Closed
  <2> QED  BY <2>1
<1> QED  BY <1>9 DEF l

(* A node no priority in the queue is below is no further than any path    *)
(* to it; and when the queue is empty every node is reached.               *)
LEMMA LeastIsFinal ==
  ASSUME NEW g, IsGraph(g), NEW k, NEW H, Guides(g, k, H), NEW s,
         NEW D, NEW Q, NEW C, Searching(g, s, k, H, D, Q, C),
         NEW u \in DOMAIN D, \A q \in Q : Priority(k, H, D[u], u) <= q[1],
         NEW p \in SimplePaths(g, s), Last(p) = u
  PROVE  D[u] <= Length(g, p)
<1> DEFINE l == Len(p)
           P(d, v) == Priority(k, H, d, v)
<1>0. Measures(g, k, H)
  BY DEF Guides
<1>1. PICK c : Costs(g, p, c) /\ Length(g, p) = c[l]
  BY SimpleCosts
<1>2. l \in 1 .. l /\ p[l] = u /\ \A i \in 1 .. l : p[i] \in NodesOf(g) /\ i <= l
  BY SimpleIs
<1>3. /\ \A i \in 1 .. l : c[i] \in Nat
      /\ \A j \in 1 .. l : P(c[j], p[j]) <= P(c[l], p[l])
  BY <1>1, <1>2, CostsRise
<1>4. \A v \in DOMAIN D : D[v] \in Nat
  <2>1. D \in NatDists(g)
    BY DEF Searching
  <2> QED  BY <2>1, NatDistIs
<1>5. ASSUME NEW j \in 1 .. l, p[j] \in DOMAIN D \ C, D[p[j]] <= c[j] PROVE D[u] <= c[l]
  <2>1. <<P(D[p[j]], p[j]), p[j]>> \in Q
    BY <1>5 DEF Searching
  <2>2. P(D[u], u) <= <<P(D[p[j]], p[j]), p[j]>>[1]
    BY <2>1
  <2>3. P(D[u], u) <= P(D[p[j]], p[j])
    BY <2>2
  <2>4. /\ P(D[p[j]], p[j]) <= P(c[j], p[j]) /\ P(D[p[j]], p[j]) \in Nat
    BY <1>2, <1>3, <1>4, <1>5, <1>0, Lighter
  <2>5. P(c[j], p[j]) <= P(c[l], u)
    BY <1>2, <1>3
  <2>6. P(c[j], p[j]) \in Nat /\ P(c[l], u) \in Nat /\ P(D[u], u) \in Nat
    BY <1>2, <1>3, <1>4, <1>0, Lighter
  <2> HIDE DEF P, l
  <2>7. P(D[u], u) <= P(c[l], u)
    BY <2>3, <2>4, <2>5, <2>6
  <2>8. u \in NodesOf(g) /\ D[u] \in Nat /\ c[l] \in Nat
    BY <1>2, <1>3, <1>4
  <2> QED  BY <2>7, <2>8, <1>0, Lighter DEF P
<1>6. ASSUME p[l] \in C, D[p[l]] <= c[l] PROVE D[u] <= c[l]
  BY <1>2, <1>6
<1>7. \/ \E j \in 1 .. l : p[j] \in DOMAIN D \ C /\ D[p[j]] <= c[j]
      \/ p[l] \in C /\ D[p[l]] <= c[l]
  BY <1>1, Reaches
<1> HIDE DEF l
<1>8. D[u] <= c[l]
  BY <1>5, <1>6, <1>7
<1> QED  BY <1>1, <1>8

(* With nothing in the queue the distances are the least.                  *)
LEMMA EmptyIsFinal ==
  ASSUME NEW g, IsGraph(g), NEW k, NEW H, Guides(g, k, H), NEW s,
         NEW D, NEW C, Searching(g, s, k, H, D, {}, C)
  PROVE  D = Shortest(g, s) /\ C = DOMAIN D
<1>1. D \in NatDists(g) /\ Attained(g, s, D)
  BY DEF Searching
<1>2. C = DOMAIN D
  BY DEF Searching
<1>3. ASSUME NEW q \in SimplePaths(g, s) PROVE Last(q) \in DOMAIN D /\ D[Last(q)] <= Length(g, q)
  <2>1. PICK c : Costs(g, q, c) /\ Length(g, q) = c[Len(q)]
    BY SimpleCosts
  <2>2. q[Len(q)] \in C /\ D[q[Len(q)]] <= c[Len(q)]
    BY <1>2, <2>1, Reaches
  <2>3. q[Len(q)] = Last(q)
    BY SimpleIs
  <2> QED  BY <1>2, <2>1, <2>2, <2>3
<1>4. D \in Dists(g)
  BY <1>1, NatDistIs
<1> QED  BY <1>1, <1>2, <1>3, <1>4, LeastAreShortest

(* Dijkstra is the search with no estimate.                                *)
Unguided(g) == [v \in NodesOf(g) |-> 0]

LEMMA UnguidedIs ==
  ASSUME NEW g, IsGraph(g), \A e \in EdgesOf(g) : e.weight \in Nat
  PROVE  /\ Guides(g, 1, Unguided(g))
         /\ \A v \in NodesOf(g), d \in Nat : Priority(1, Unguided(g), d, v) = d
<1>1. \A v \in NodesOf(g) : Unguided(g)[v] = 0
  BY DEF Unguided
<1>2. Unguided(g) \in [NodesOf(g) -> Nat]
  BY DEF Unguided
<1>3. ASSUME NEW e \in EdgesOf(g) PROVE Unguided(g)[e.from] <= 1 * e.weight + Unguided(g)[e.to]
  <2>1. e.from \in NodesOf(g) /\ e.to \in NodesOf(g) /\ e.weight \in Nat
    BY EdgeIs
  <2>2. Unguided(g)[e.from] = 0 /\ Unguided(g)[e.to] = 0
    BY <1>1, <2>1
  <2> QED  BY <2>1, <2>2
<1>4. ASSUME NEW v \in NodesOf(g), NEW d \in Nat PROVE Priority(1, Unguided(g), d, v) = d
  BY <1>1 DEF Priority
<1> QED  BY <1>2, <1>3, <1>4 DEF Guides, Measures

LEMMA NoNegativeCycle ==
  ASSUME NEW g, IsGraph(g), NEW s, \A e \in EdgesOf(g) : e.weight \in Nat
  PROVE  ~HasNegativeCycle(g, s)
<1> SUFFICES ASSUME NEW p \in SimplePaths(g, s), NEW i \in 1 .. Len(p), NEW e \in EdgesOf(g),
                    e.from = Last(p), e.to = p[i],
                    Length(g, SubSeq(p, i, Len(p)) \o <<p[i]>>) < 0
             PROVE  FALSE
  BY DEF HasNegativeCycle
<1> DEFINE t == SubSeq(p, i, Len(p)) \o <<p[i]>>
           V == WeightOf(g, e.from, e.to)
<1>1. PICK c : Costs(g, p, c)
  BY SimpleCosts
<1>2. Length(g, t) = c[Len(p)] - c[i] + V
  BY <1>1, CycleLength
<1>3. V \in Nat
  BY LightestEdge
<1>4. Len(p) \in 1 .. Len(p) /\ \A j \in 1 .. Len(p) : p[j] \in NodesOf(g) /\ j <= Len(p)
  BY SimpleIs
<1>5. /\ c[i] \in Nat /\ c[Len(p)] \in Nat
      /\ Priority(1, Unguided(g), c[i], p[i]) <= Priority(1, Unguided(g), c[Len(p)], p[Len(p)])
  BY <1>1, <1>4, UnguidedIs, CostsRise
<1>6. c[i] <= c[Len(p)]
  BY <1>4, <1>5, UnguidedIs
<1> HIDE DEF t, V
<1>7. c[Len(p)] - c[i] + V < 0
  BY <1>2 DEF t
<1> QED  BY <1>3, <1>5, <1>6, <1>7

(* The entry that is popped is of the least priority.                      *)
LEMMA TopIs ==
  ASSUME NEW g, NEW Q \in SUBSET (Nat \X NodesOf(g)), IsFiniteSet(Q), Q # {}, g.n \in Nat
  PROVE  Top(Q) \in Q /\ \A q \in Q : Top(Q)[1] <= q[1]
<1> DEFINE F == {q[1] : q \in Q}
<1>1. \A q \in Q : q[1] \in Nat /\ q[2] \in Nat /\ q = <<q[1], q[2]>>
  BY DEF NodesOf
<1>2. F \subseteq Nat /\ F # {}
  BY <1>1
<1>3. PICK a \in F : \A x \in F : a <= x
  <2> HIDE DEF F
  <2> QED  BY <1>2, HasLeast
<1> DEFINE S == {q[2] : q \in {r \in Q : r[1] = a}}
<1>4. S \subseteq Nat /\ S # {}
  BY <1>1
<1>5. PICK Z \in S : \A x \in S : Z <= x
  <2> HIDE DEF S
  <2> QED  BY <1>4, HasLeast
<1>6. PICK t \in Q : t[1] = a /\ t[2] = Z
  BY <1>5
<1>7. \A q \in Q : t[1] < q[1] \/ (t[1] = q[1] /\ t[2] <= q[2])
  <2> SUFFICES ASSUME NEW q \in Q PROVE t[1] < q[1] \/ (t[1] = q[1] /\ t[2] <= q[2])
    OBVIOUS
  <2>1. a <= q[1] /\ a \in Nat /\ q[1] \in Nat
    BY <1>1, <1>2, <1>3
  <2>2. CASE q[1] = a
    <3>1. q[2] \in S
      BY <2>2
    <3> QED  BY <1>5, <1>6, <2>2, <3>1
  <2> QED  BY <1>6, <2>1, <2>2
<1>8. Top(Q) \in Q /\ \A q \in Q : Top(Q)[1] < q[1] \/ (Top(Q)[1] = q[1] /\ Top(Q)[2] <= q[2])
  BY <1>7, Zenon DEF Top
<1> QED  BY <1>1, <1>8

-----------------------------------------------------------------------------
(* dijkstra                                                                *)
DijkstraStates(g, d, u) ==
  [dist : NatDists(g), pq : SUBSET (Nat \X NodesOf(g)), d : {d}, u : {u}]

LEMMA RelaxedOffers ==
  ASSUME NEW g, IsGraph(g), \A e \in EdgesOf(g) : e.weight \in Nat, NEW u, NEW d \in Nat,
         NEW x \in DijkstraStates(g, d, u), NEW e \in EdgesOf(g)
  PROVE  /\ Relaxed(x, e) \in DijkstraStates(g, d, u)
         /\ Offers(u, d, 1, Unguided(g), e, x.dist, x.pq, Relaxed(x, e).dist, Relaxed(x, e).pq)
<1> DEFINE nd == d + e.weight
           key == <<nd, e.to>>
           N == With(x.dist, e.to, nd)
<1>1. nd \in Nat /\ e.to \in NodesOf(g) /\ e.from \in NodesOf(g)
  BY EdgeIs
<1>2. /\ x.dist \in NatDists(g) /\ x.pq \in SUBSET (Nat \X NodesOf(g)) /\ x.d = d /\ x.u = u
  BY DEF DijkstraStates
<1>3. N \in NatDists(g)
  <2>1. NowAt(g, x.dist, e.to, nd, N)
    BY <1>1, <1>2, NatWith
  <2> QED  BY <2>1 DEF NowAt
<1>4. Priority(1, Unguided(g), nd, e.to) = nd
  BY <1>1, UnguidedIs
<1>5. CASE e.from = u /\ Closer(x.dist, e.to, nd)
  <2> DEFINE y == Relaxed(x, e)
             R == x.pq \cup {key}
  <2>1. y = [x EXCEPT !.dist = N, !.pq = R]
    BY <1>2, <1>5 DEF Relaxed
  <2>2. R \in SUBSET (Nat \X NodesOf(g))
    BY <1>1, <1>2
  <2> HIDE DEF N, R, y
  <2>3. y \in DijkstraStates(g, d, u) /\ y.dist = N /\ y.pq = R
    BY <1>3, <2>1, <2>2 DEF DijkstraStates
  <2>4. Offers(u, d, 1, Unguided(g), e, x.dist, x.pq, y.dist, y.pq)
    BY <1>4, <1>5, <2>3 DEF Offers, N, R
  <2> QED  BY <2>3, <2>4 DEF y
<1>6. CASE ~(e.from = u /\ Closer(x.dist, e.to, nd))
  <2>1. Relaxed(x, e) = x
    BY <1>2, <1>6 DEF Relaxed
  <2> QED  BY <1>6, <2>1 DEF Offers
<1> QED  BY <1>5, <1>6

(* The edges of a node, one after another.                                 *)
LEMMA RelaxedAll ==
  ASSUME NEW g, IsGraph(g), \A e \in EdgesOf(g) : e.weight \in Nat, NEW u, NEW d \in Nat,
         NEW Z \in DijkstraStates(g, d, u), IsFiniteSet(Z.pq)
  PROVE  LET y == FoldLeft(Relaxed, Z, g.edges)
         IN  /\ y \in DijkstraStates(g, d, u)
             /\ Grown(g, u, d, 1, Unguided(g), Z.dist, Z.pq, Len(g.edges), y.dist, y.pq)
<1> DEFINE E == g.edges
           m == Len(E)
           S == DijkstraStates(g, d, u)
           G == [i \in 1 .. m |-> [x \in S |-> Relaxed(x, E[i])]]
           It(f) == f = [s \in SUBSET DOMAIN E |->
                           IF s = {} THEN Z
                           ELSE LET x == Max(s) IN Relaxed(f[s \ {x}], E[x])]
           fold == CHOOSE f : It(f)
<1>1. m \in Nat /\ DOMAIN E = 1 .. m /\ \A i \in 1 .. m : E[i] \in EdgesOf(g)
  BY EdgeIs
<1>2. \A i \in 1 .. m, x \in S : /\ Relaxed(x, E[i]) \in S
                                 /\ Offers(u, d, 1, Unguided(g), E[i], x.dist, x.pq,
                                           Relaxed(x, E[i]).dist, Relaxed(x, E[i]).pq)
  BY <1>1, RelaxedOffers
<1>3. FoldLeft(Relaxed, Z, E) = fold[1 .. m]
  BY <1>1 DEF FoldLeft, MapThenFoldSet
<1>4. \A s : Max(s) = LastOf(s)
  BY DEF Max, LastOf
<1> HIDE DEF E, m, S, fold
<1>5. G \in [1 .. m -> [S -> S]]
  BY <1>2
<1>6. \A i \in 1 .. m, x \in S : G[i][x] = Relaxed(x, E[i])
  OBVIOUS
<1> HIDE DEF G
<1>7. Z \in S
  BY DEF S
<1>8. PICK f : FoldsOn(f, S, Z, G, m)
  BY <1>1, <1>5, <1>7, FoldExists
<1>9. It(f)
  <2>1. ASSUME NEW s \in SUBSET (1 .. m), s # {}
        PROVE  G[LastOf(s)][f[s \ {LastOf(s)}]] = Relaxed(f[s \ {Max(s)}], E[Max(s)])
    <3>1. LastOf(s) \in 1 .. m
      BY <1>1, <2>1, LastIs
    <3>2. f[s \ {LastOf(s)}] \in S
      BY <1>8 DEF FoldsOn
    <3> QED  BY <1>4, <1>6, <3>1, <3>2
  <2>2. f = [s \in SUBSET (1 .. m) |-> IF s = {} THEN Z ELSE Relaxed(f[s \ {Max(s)}], E[Max(s)])]
    <3>1. f = [s \in SUBSET (1 .. m) |-> f[s]]
      BY <1>8 DEF FoldsOn
    <3>2. \A s \in SUBSET (1 .. m) : f[s] = IF s = {} THEN Z ELSE Relaxed(f[s \ {Max(s)}], E[Max(s)])
      BY <1>8, <2>1 DEF FoldsOn
    <3> QED  BY <3>1, <3>2
  <2> QED  BY <1>1, <2>2
<1>10. It(fold)
  BY <1>9 DEF fold
<1>11. fold[{}] = Z
  BY <1>10
<1>12. ASSUME NEW i \in 0 .. m - 1, fold[1 .. i] \in S
       PROVE  fold[1 .. i + 1] = G[i + 1][fold[1 .. i]]
  <2>1. 1 .. i + 1 \in SUBSET DOMAIN E /\ 1 .. i + 1 # {}
    <3>1. 1 .. i + 1 \subseteq 1 .. m /\ 1 \in 1 .. i + 1
      BY <1>1
    <3> QED  BY <1>1, <3>1
  <2>2. Max(1 .. i + 1) = i + 1 /\ (1 .. i + 1) \ {i + 1} = 1 .. i
    <3>1. i \in Nat
      BY <1>1
    <3> QED  BY <1>4, <3>1, LastOfAll
  <2>3. fold[1 .. i + 1] = Relaxed(fold[(1 .. i + 1) \ {Max(1 .. i + 1)}], E[Max(1 .. i + 1)])
    BY <1>10, <2>1
  <2>4. i + 1 \in 1 .. m
    BY <1>1
  <2> QED  BY <1>6, <1>12, <2>2, <2>3, <2>4
<1> DEFINE z == [i \in 0 .. m |-> fold[1 .. i]]
<1>13. Folds(z, S, Z, G, m)
  BY <1>1, <1>5, <1>7, <1>11, <1>12, FoldSteps
<1>14. z[m] = FoldLeft(Relaxed, Z, E)
  BY <1>1, <1>3
<1> HIDE DEF z
<1>15. /\ z \in [0 .. m -> S] /\ z[0] = Z
       /\ \A i \in 1 .. m : z[i] = Relaxed(z[i - 1], E[i])
  <2>1. z \in [0 .. m -> S] /\ z[0] = Z
    BY <1>13 DEF Folds
  <2>2. \A i \in 1 .. m : z[i - 1] \in S /\ z[i] = G[i][z[i - 1]]
    BY <1>1, <1>13, <2>1 DEF Folds
  <2> QED  BY <1>6, <2>1, <2>2
<1> DEFINE Grew(i) == Grown(g, u, d, 1, Unguided(g), Z.dist, Z.pq, i, z[i].dist, z[i].pq)
           T == {i \in 0 .. m : Grew(i)}
<1>16. Z.dist \in NatDists(g) /\ Z.pq \in SUBSET (Nat \X NodesOf(g)) /\ Measures(g, 1, Unguided(g))
  BY <1>7, UnguidedIs DEF Guides, S, DijkstraStates
<1>17. 0 \in T
  BY <1>1, <1>15, <1>16, GrownStart
<1>18. ASSUME NEW i \in 0 .. m - 1, i \in T PROVE i + 1 \in T
  <2>1. i + 1 \in 0 .. m /\ i + 1 \in 1 .. m /\ (i + 1) - 1 = i /\ i \in 0 .. m
    BY <1>1
  <2>2. z[i] \in S /\ z[i + 1] = Relaxed(z[i], E[i + 1])
    BY <1>15, <2>1
  <2>3. Offers(u, d, 1, Unguided(g), E[i + 1], z[i].dist, z[i].pq, z[i + 1].dist, z[i + 1].pq)
    BY <1>2, <2>1, <2>2
  <2>4. Grew(i) /\ i \in 0 .. Len(g.edges) - 1
    BY <1>18 DEF m, E
  <2>5. Grew(i + 1)
    BY <1>16, <2>3, <2>4, GrownOn DEF E
  <2> QED  BY <2>1, <2>5
<1>19. \A i \in 0 .. m : i \in T
  <2> HIDE DEF T
  <2> QED  BY <1>1, <1>17, <1>18, SetInductionTo
<1>20. Grew(m) /\ z[m] \in S
  BY <1>1, <1>15, <1>19
<1> QED  BY <1>14, <1>20 DEF S, m, E

DijkstraAny(g) == [dist : NatDists(g), pq : SUBSET (Nat \X NodesOf(g)), d : Nat, u : NodesOf(g)]
DijkstraFinds(g, s, x, C) == x \in DijkstraAny(g) /\ Searching(g, s, 1, Unguided(g), x.dist, x.pq, C)

(* A turn keeps what the search keeps, and leaves fewer turns.             *)
LEMMA DijkstraTurns ==
  ASSUME NEW g, IsGraph(g), \A e \in EdgesOf(g) : e.weight \in Nat, NEW s \in NodesOf(g),
         NEW x, NEW C, DijkstraFinds(g, s, x, C)
  PROVE  \E B : /\ DijkstraFinds(g, s, DijkstraTurn(g, x), B)
                /\ x.pq # {} => TurnsLeft(g, DijkstraTurn(g, x).pq, B) <= TurnsLeft(g, x.pq, C) - 1
                /\ x.pq = {} => DijkstraTurn(g, x).pq = {}
<1> DEFINE H == Unguided(g)
           D == x.dist
           Q == x.pq
           y == DijkstraTurn(g, x)
<1>1. x \in DijkstraAny(g) /\ Searching(g, s, 1, H, D, Q, C) /\ Guides(g, 1, H)
  BY UnguidedIs DEF DijkstraFinds
<1>2. CASE Q = {}
  <2>1. y = x
    BY <1>2 DEF DijkstraTurn
  <2> QED  BY <1>2, <2>1
<1>3. CASE Q # {}
  <2> DEFINE top == Top(Q)
             u == top[2]
             Z == [x EXCEPT !.pq = Q \ {top}, !.d = top[1], !.u = u]
  <2>1. /\ D \in NatDists(g) /\ IsFiniteSet(Q) /\ Q \in SUBSET (Nat \X NodesOf(g))
        /\ \A q \in Q : q[2] \in DOMAIN D /\ Priority(1, H, D[q[2]], q[2]) <= q[1]
        /\ \A v \in DOMAIN D \ C : <<Priority(1, H, D[v], v), v>> \in Q
        /\ \A v \in C : <<Priority(1, H, D[v], v), v>> \notin Q
    BY <1>1 DEF Searching, Explored
  <2>2. top \in Q /\ \A q \in Q : top[1] <= q[1]
    <3>1. g.n \in Nat
      BY DEF IsGraph
    <3> QED  BY <1>3, <2>1, <3>1, TopIs
  <2> HIDE DEF top
  <2>3. top \in Nat \X NodesOf(g) /\ top = <<top[1], u>> /\ top[1] \in Nat /\ u \in NodesOf(g)
    BY <2>1, <2>2
  <2>4. u \in DOMAIN D /\ D[u] \in Nat /\ Priority(1, H, D[u], u) = D[u] /\ D[u] <= top[1]
    <3>1. u \in DOMAIN D /\ D[u] \in Nat
      BY <2>1, <2>2, NatDistIs
    <3>2. Priority(1, H, D[u], u) = D[u]
      BY <2>3, <3>1, UnguidedIs
    <3> QED  BY <2>1, <2>2, <3>1, <3>2
  <2>5. u \in C <=> top[1] > D[u]
    <3>1. CASE u \in C
      <4>1. <<D[u], u>> # top
        BY <2>1, <2>2, <2>4, <3>1
      <4> QED  BY <2>3, <2>4, <3>1, <4>1
    <3>2. CASE u \notin C
      <4>1. <<D[u], u>> \in Q
        BY <2>1, <2>4, <3>2
      <4>2. top[1] <= <<D[u], u>>[1]
        BY <2>2, <4>1
      <4> QED  BY <2>3, <2>4, <3>2, <4>2
    <3> QED  BY <3>1, <3>2
  <2>6. Z \in DijkstraAny(g) /\ Z \in DijkstraStates(g, top[1], u) /\ Z.dist = D /\ Z.pq = Q \ {top}
    BY <1>1, <2>3 DEF DijkstraAny, DijkstraStates
  <2>7. y = IF top[1] > D[u] THEN Z ELSE FoldLeft(Relaxed, Z, g.edges)
    BY <1>3 DEF DijkstraTurn, top
  <2> HIDE DEF Z, y, D, Q, H
  <2>8. CASE u \in C
    <3>1. Searching(g, s, 1, H, D, Q \ {top}, C) /\ TurnsLeft(g, Q \ {top}, C) = TurnsLeft(g, Q, C) - 1
      BY <1>1, <2>2, <2>8, Dropped
    <3>2. y = Z
      BY <2>5, <2>7, <2>8
    <3>3. TurnsLeft(g, Q, C) \in Int
      <4>1. Cardinality(Q) \in Nat /\ Cardinality(Waiting(g, C)) \in Nat
        <5>1. Len(g.edges) \in Nat
          BY EdgeIs
        <5> QED  BY <2>1, <5>1, WaitingIs, FS_CardinalityType
      <4> QED  BY <4>1 DEF TurnsLeft
    <3>4. y \in DijkstraAny(g) /\ y.dist = D /\ y.pq = Q \ {top}
      BY <2>6, <3>2
    <3>5. DijkstraFinds(g, s, y, C)
      BY <3>1, <3>4 DEF DijkstraFinds, H
    <3>6. TurnsLeft(g, y.pq, C) <= TurnsLeft(g, Q, C) - 1
      BY <3>1, <3>3, <3>4
    <3> QED  BY <1>3, <3>5, <3>6 DEF y, Q
  <2>9. CASE u \notin C
    <3>1. y = FoldLeft(Relaxed, Z, g.edges) /\ top[1] = D[u]
      BY <2>3, <2>4, <2>5, <2>7, <2>9
    <3>2. IsFiniteSet(Z.pq)
      BY <2>1, <2>6, FS_RemoveElement
    <3>3. /\ y \in DijkstraStates(g, D[u], u)
          /\ Grown(g, u, D[u], 1, H, Z.dist, Z.pq, Len(g.edges), y.dist, y.pq)
      BY <2>4, <2>6, <3>1, <3>2, RelaxedAll DEF H
    <3>4. Grown(g, u, D[u], 1, H, D, Q \ {top}, Len(g.edges), y.dist, y.pq)
      BY <2>6, <3>3
    <3>5. ~HasNegativeCycle(g, s)
      BY NoNegativeCycle
    <3>6. /\ Searching(g, s, 1, H, y.dist, y.pq, C \cup {u})
          /\ TurnsLeft(g, y.pq, C \cup {u}) <= TurnsLeft(g, Q, C) - 1
      BY <1>1, <2>2, <2>9, <3>4, <3>5, Explores
    <3>7. y \in DijkstraAny(g)
      BY <2>3, <2>4, <3>3 DEF DijkstraStates, DijkstraAny
    <3> QED  BY <1>3, <3>6, <3>7 DEF y, Q, H, DijkstraFinds
  <2> QED  BY <2>8, <2>9
<1> QED  BY <1>2, <1>3

LEMMA DijkstraStarts ==
  ASSUME NEW g, IsGraph(g), \A e \in EdgesOf(g) : e.weight \in Nat, NEW s \in NodesOf(g)
  PROVE  /\ DijkstraFinds(g, s, DijkstraStart(s), {})
         /\ TurnsLeft(g, DijkstraStart(s).pq, {}) <= Len(g.edges) + 1
<1> DEFINE D == OnlySource(s)
           Q == {<<0, s>>}
           H == Unguided(g)
<1>1. DijkstraStart(s) = [dist |-> D, pq |-> Q, d |-> 0, u |-> s]
  BY DEF DijkstraStart
<1>2. D \in NatDists(g) /\ DOMAIN D = {s} /\ D[s] = 0
  <2>1. D \in [{s} -> Nat] /\ {s} \in SUBSET NodesOf(g)
    BY DEF OnlySource
  <2>2. DOMAIN D = {s} /\ D[s] = 0
    BY DEF OnlySource
  <2> HIDE DEF D
  <2> QED  BY <2>1, <2>2 DEF NatDists
<1>3. Q \in SUBSET (Nat \X NodesOf(g)) /\ IsFiniteSet(Q) /\ Cardinality(Q) = 1
  <2>1. IsFiniteSet(Q) /\ Cardinality(Q) = 1
    BY FS_Singleton
  <2>2. <<0, s>> \in Nat \X NodesOf(g)
    OBVIOUS
  <2> QED  BY <2>1, <2>2
<1>4. Attained(g, s, D)
  BY StartAttained
<1>5. Priority(1, H, 0, s) = 0
  BY UnguidedIs
<1> HIDE DEF D, H
<1>6. \A q \in Q : q[2] \in DOMAIN D /\ Priority(1, H, D[q[2]], q[2]) <= q[1]
  BY <1>2, <1>5
<1>7. \A v \in DOMAIN D \ {} : <<Priority(1, H, D[v], v), v>> \in Q
  BY <1>2, <1>5
<1>8. Searching(g, s, 1, H, D, Q, {})
  BY <1>2, <1>3, <1>4, <1>6, <1>7 DEF Searching
<1>9. TurnsLeft(g, Q, {}) <= Len(g.edges) + 1
  <2>1. Cardinality(Waiting(g, {})) \in 0 .. Len(g.edges) /\ Len(g.edges) \in Nat
    BY WaitingIs, EdgeIs
  <2> QED  BY <1>3, <2>1 DEF TurnsLeft
<1>10. DijkstraStart(s) \in DijkstraAny(g)
  BY <1>1, <1>2, <1>3 DEF DijkstraAny
<1> QED  BY <1>1, <1>8, <1>9, <1>10 DEF DijkstraFinds, H

(* So Turns(g) is enough: the queue is empty at the end.                   *)
LEMMA DijkstraRuns ==
  ASSUME NEW g, IsGraph(g), \A e \in EdgesOf(g) : e.weight \in Nat, NEW s \in NodesOf(g)
  PROVE  \E C : DijkstraFinds(g, s, dijkstraSearch(g, s), C) /\ dijkstraSearch(g, s).pq = {}
<1> DEFINE E == Turns(g)
           m == Len(g.edges) + 1
           Z == DijkstraStart(s)
           S == {x \in DijkstraAny(g) : \E C : DijkstraFinds(g, s, x, C)}
           G == [i \in 1 .. m |-> [x \in S |-> DijkstraTurn(g, x)]]
           It(f) == f = [r \in SUBSET DOMAIN E |->
                           IF r = {} THEN Z
                           ELSE LET x == Max(r) IN DijkstraTurn(g, f[r \ {x}])]
           fold == CHOOSE f : It(f)
<1>1. m \in Nat /\ DOMAIN E = 1 .. m
  BY EdgeIs DEF Turns
<1>2. \A x \in S : DijkstraTurn(g, x) \in S
  <2> SUFFICES ASSUME NEW x, NEW C, DijkstraFinds(g, s, x, C) PROVE DijkstraTurn(g, x) \in S
    OBVIOUS
  <2>1. PICK B : DijkstraFinds(g, s, DijkstraTurn(g, x), B)
    BY DijkstraTurns
  <2> QED  BY <2>1 DEF DijkstraFinds
<1>3. dijkstraSearch(g, s) = fold[1 .. m]
  BY <1>1 DEF dijkstraSearch, FoldLeft, MapThenFoldSet
<1>4. \A r : Max(r) = LastOf(r)
  BY DEF Max, LastOf
<1>7. Z \in S
  BY DijkstraStarts DEF DijkstraFinds
<1> HIDE DEF E, m, S, Z, fold
<1>5. G \in [1 .. m -> [S -> S]]
  BY <1>2
<1>6. \A i \in 1 .. m, x \in S : G[i][x] = DijkstraTurn(g, x)
  OBVIOUS
<1> HIDE DEF G
<1>8. PICK f : FoldsOn(f, S, Z, G, m)
  BY <1>1, <1>5, <1>7, FoldExists
<1>9. It(f)
  <2>1. ASSUME NEW r \in SUBSET (1 .. m), r # {}
        PROVE  G[LastOf(r)][f[r \ {LastOf(r)}]] = DijkstraTurn(g, f[r \ {Max(r)}])
    <3>1. LastOf(r) \in 1 .. m
      BY <1>1, <2>1, LastIs
    <3>2. f[r \ {LastOf(r)}] \in S
      BY <1>8 DEF FoldsOn
    <3> QED  BY <1>4, <1>6, <3>1, <3>2
  <2>2. f = [r \in SUBSET (1 .. m) |-> IF r = {} THEN Z ELSE DijkstraTurn(g, f[r \ {Max(r)}])]
    <3>1. f = [r \in SUBSET (1 .. m) |-> f[r]]
      BY <1>8 DEF FoldsOn
    <3>2. \A r \in SUBSET (1 .. m) : f[r] = IF r = {} THEN Z ELSE DijkstraTurn(g, f[r \ {Max(r)}])
      BY <1>8, <2>1 DEF FoldsOn
    <3> QED  BY <3>1, <3>2
  <2> QED  BY <1>1, <2>2
<1>10. It(fold)
  BY <1>9 DEF fold
<1>11. fold[{}] = Z
  BY <1>10
<1>12. ASSUME NEW i \in 0 .. m - 1, fold[1 .. i] \in S
       PROVE  fold[1 .. i + 1] = G[i + 1][fold[1 .. i]]
  <2>1. 1 .. i + 1 \in SUBSET DOMAIN E /\ 1 .. i + 1 # {}
    <3>1. 1 .. i + 1 \subseteq 1 .. m /\ 1 \in 1 .. i + 1
      BY <1>1
    <3> QED  BY <1>1, <3>1
  <2>2. Max(1 .. i + 1) = i + 1 /\ (1 .. i + 1) \ {i + 1} = 1 .. i
    <3>1. i \in Nat
      BY <1>1
    <3> QED  BY <1>4, <3>1, LastOfAll
  <2>3. fold[1 .. i + 1] = DijkstraTurn(g, fold[(1 .. i + 1) \ {Max(1 .. i + 1)}])
    BY <1>10, <2>1
  <2>4. i + 1 \in 1 .. m
    BY <1>1
  <2> QED  BY <1>6, <1>12, <2>2, <2>3, <2>4
<1> DEFINE z == [i \in 0 .. m |-> fold[1 .. i]]
<1>13. Folds(z, S, Z, G, m)
  BY <1>1, <1>5, <1>7, <1>11, <1>12, FoldSteps
<1>14. z[m] = dijkstraSearch(g, s)
  BY <1>1, <1>3
<1> HIDE DEF z
<1>15. /\ z \in [0 .. m -> S] /\ z[0] = Z
       /\ \A i \in 1 .. m : z[i] = DijkstraTurn(g, z[i - 1])
  <2>1. z \in [0 .. m -> S] /\ z[0] = Z
    BY <1>13 DEF Folds
  <2>2. \A i \in 1 .. m : z[i - 1] \in S /\ z[i] = G[i][z[i - 1]]
    BY <1>1, <1>13, <2>1 DEF Folds
  <2> QED  BY <1>6, <2>1, <2>2
<1> DEFINE Within(i) == \E C : /\ DijkstraFinds(g, s, z[i], C)
                               /\ z[i].pq = {} \/ TurnsLeft(g, z[i].pq, C) <= m - i
           T == {i \in 0 .. m : Within(i)}
<1>16. 0 \in T
  <2>1. DijkstraFinds(g, s, Z, {}) /\ TurnsLeft(g, Z.pq, {}) <= m
    BY DijkstraStarts DEF Z, m
  <2>2. m - 0 = m /\ 0 \in 0 .. m
    BY <1>1
  <2> QED  BY <1>15, <2>1, <2>2
<1>17. ASSUME NEW i \in 0 .. m - 1, i \in T PROVE i + 1 \in T
  <2>1. i + 1 \in 0 .. m /\ i + 1 \in 1 .. m /\ (i + 1) - 1 = i /\ i \in 0 .. m
    BY <1>1
  <2>2. z[i + 1] = DijkstraTurn(g, z[i])
    BY <1>15, <2>1
  <2>3. PICK C : DijkstraFinds(g, s, z[i], C) /\ (z[i].pq = {} \/ TurnsLeft(g, z[i].pq, C) <= m - i)
    BY <1>17
  <2>4. PICK B : /\ DijkstraFinds(g, s, z[i + 1], B)
                 /\ z[i].pq # {} => TurnsLeft(g, z[i + 1].pq, B) <= TurnsLeft(g, z[i].pq, C) - 1
                 /\ z[i].pq = {} => z[i + 1].pq = {}
    BY <2>2, <2>3, DijkstraTurns
  <2>5. TurnsLeft(g, z[i + 1].pq, B) \in Int /\ TurnsLeft(g, z[i].pq, C) \in Int
    <3>1. IsFiniteSet(z[i + 1].pq) /\ IsFiniteSet(z[i].pq)
      BY <2>3, <2>4 DEF DijkstraFinds, Searching
    <3>2. Cardinality(z[i + 1].pq) \in Int /\ Cardinality(z[i].pq) \in Int
      BY <3>1, FS_CardinalityType
    <3>3. Cardinality(Waiting(g, B)) \in Int /\ Cardinality(Waiting(g, C)) \in Int
      BY WaitingIs
    <3> QED  BY <3>2, <3>3 DEF TurnsLeft
  <2>6. z[i + 1].pq = {} \/ TurnsLeft(g, z[i + 1].pq, B) <= m - (i + 1)
    BY <1>1, <2>1, <2>3, <2>4, <2>5
  <2> QED  BY <2>1, <2>4, <2>6
<1>18. \A i \in 0 .. m : i \in T
  <2> HIDE DEF T
  <2> QED  BY <1>1, <1>16, <1>17, SetInductionTo
<1>19. PICK C : DijkstraFinds(g, s, z[m], C) /\ (z[m].pq = {} \/ TurnsLeft(g, z[m].pq, C) <= m - m)
  <2>1. m \in T
    BY <1>1, <1>18
  <2> QED  BY <2>1
<1>20. z[m].pq = {}
  <2>1. IsFiniteSet(z[m].pq)
    BY <1>19 DEF DijkstraFinds, Searching
  <2>2. Cardinality(z[m].pq) \in Nat /\ Cardinality(Waiting(g, C)) \in 0 .. Len(g.edges)
    BY <2>1, FS_CardinalityType, WaitingIs
  <2>3. ASSUME TurnsLeft(g, z[m].pq, C) <= m - m PROVE z[m].pq = {}
    <3>1. Cardinality(z[m].pq) = 0
      <4>1. Cardinality(Waiting(g, C)) \in Nat
        BY <2>2, EdgeIs
      <4> QED  BY <1>1, <2>2, <2>3, <4>1 DEF TurnsLeft
    <3> QED  BY <2>1, <3>1, FS_EmptySet
  <2> QED  BY <1>19, <2>3
<1> QED  BY <1>14, <1>19, <1>20

(* dijkstra of include/graph.hpp: with weights of at least zero the queue  *)
(* is empty after no more turns than edges, and one, and dist holds the    *)
(* least length of a path to every node that is reached.                   *)
THEOREM DijkstraIsRight ==
  ASSUME NEW g, IsGraph(g), \A e \in EdgesOf(g) : e.weight \in Nat, NEW s \in NodesOf(g)
  PROVE  /\ dijkstraSearch(g, s).pq = {}
         /\ dijkstra(g, s) = Shortest(g, s)
<1> DEFINE x == dijkstraSearch(g, s)
<1>1. PICK C : DijkstraFinds(g, s, x, C) /\ x.pq = {}
  BY DijkstraRuns
<1>2. Searching(g, s, 1, Unguided(g), x.dist, {}, C) /\ Guides(g, 1, Unguided(g))
  BY <1>1, UnguidedIs DEF DijkstraFinds
<1> HIDE DEF x
<1>3. x.dist = Shortest(g, s)
  BY <1>2, EmptyIsFinal
<1> QED  BY <1>1, <1>3 DEF x, dijkstra

-----------------------------------------------------------------------------
(* What a guided search keeps, priorities in parts of 1 / k, when H        *)
(* contradicts no edge that is worth a, at least k, for each unit of its   *)
(* weight.  A closed node was closed at a distance Z, of which the edges   *)
(* were taken; it may come closer since, of which its edges hear nothing.  *)
Bounded(g, s, goal, k, a, H, v, Z) ==
  \A p \in SimplePaths(g, s) : \A c : Costs(g, p, c) =>
    \A i \in 1 .. Len(p) :
      /\ p[i] = v => k * Z <= a * c[i]
      /\ p[i] = goal => k * Z + H[v] <= a * c[i] + H[goal]

Visited(g, s, goal, k, a, H, D, v) ==
  \E Z \in Nat :
    /\ D[v] <= Z /\ Bounded(g, s, goal, k, a, H, v, Z)
    /\ v # goal => \A e \in EdgesOf(g) : e.from = v => e.to \in DOMAIN D /\ D[e.to] <= Z + e.weight

Guided(g, s, goal, k, a, H, D, Q, C) ==
  /\ D \in NatDists(g) /\ Attained(g, s, D)
  /\ s \in DOMAIN D /\ D[s] = 0
  /\ IsFiniteSet(Q) /\ Q \in SUBSET (Nat \X NodesOf(g))
  /\ \A q \in Q : q[2] \in DOMAIN D /\ Priority(k, H, D[q[2]], q[2]) <= q[1]
  /\ C \in SUBSET DOMAIN D
  /\ \A v \in DOMAIN D \ C : <<Priority(k, H, D[v], v), v>> \in Q
  /\ \A v \in C : Visited(g, s, goal, k, a, H, D, v)

(* H guides a search that counts a for each unit, k of them for sure.      *)
Steers(g, k, a, H) == Measures(g, k, H) /\ Guides(g, a, H) /\ k <= a

(* What that gives.                                                        *)
LEMMA SteersIs ==
  ASSUME NEW g, NEW k, NEW a, NEW H, Steers(g, k, a, H)
  PROVE  /\ Measures(g, k, H) /\ Guides(g, a, H) /\ Measures(g, a, H)
         /\ k \in Nat /\ a \in Nat /\ k <= a /\ \A v \in NodesOf(g) : H[v] \in Nat
         /\ \A x \in Nat, y \in Nat :
              /\ k * x \in Nat /\ a * x \in Nat /\ k * x <= a * x
              /\ k * (x + y) = k * x + k * y /\ a * (x + y) = a * x + a * y
              /\ x <= y => k * x <= k * y
<1>1. /\ Measures(g, k, H) /\ Guides(g, a, H) /\ Measures(g, a, H)
      /\ k \in Nat \ {0} /\ a \in Nat \ {0} /\ k <= a /\ \A v \in NodesOf(g) : H[v] \in Nat
  BY DEF Steers, Guides, Measures
<1>2. ASSUME NEW n \in Nat, NEW x \in Nat, NEW y \in Nat
      PROVE  n * x \in Nat /\ n * (x + y) = n * x + n * y
  BY Products
<1>3. ASSUME NEW x \in Nat PROVE k * x <= a * x
  <2>1. a = k + (a - k) /\ a - k \in Nat
    BY <1>1
  <2>2. x * (k + (a - k)) = x * k + x * (a - k)
    BY <1>1, <1>2, <2>1
  <2>3. x * (a - k) \in Nat /\ x * k \in Nat /\ x * k = k * x /\ x * a = a * x /\ k * x \in Nat
    BY <1>1, <1>2, <2>1
  <2>4. x * a = x * k + x * (a - k)
    BY <2>1, <2>2
  <2> DEFINE u == x * (a - k)  v == k * x  w == a * x
  <2>5. w = v + u /\ u \in Nat /\ v \in Nat
    BY <2>3, <2>4
  <2> HIDE DEF u, v, w
  <2>6. v <= w
    BY <2>5
  <2> QED  BY <2>6 DEF v, w
<1>4. ASSUME NEW x \in Nat, NEW y \in Nat, x <= y PROVE k * x <= k * y
  <2>1. y = x + (y - x) /\ y - x \in Nat
    BY <1>4
  <2>2. k * (x + (y - x)) = k * x + k * (y - x) /\ k * x \in Nat /\ k * (y - x) \in Nat
    BY <1>1, <1>2, <2>1
  <2>3. k * y = k * x + k * (y - x)
    BY <2>1, <2>2
  <2> DEFINE u == k * (y - x)  v == k * x  w == k * y
  <2>4. w = v + u /\ u \in Nat /\ v \in Nat
    BY <2>2, <2>3
  <2> HIDE DEF u, v, w
  <2>5. v <= w
    BY <2>4
  <2> QED  BY <2>5 DEF v, w
<1> QED  BY <1>1, <1>2, <1>3, <1>4

LEMMA WorthKept ==
  ASSUME NEW g, NEW k, NEW a, NEW H, Steers(g, k, a, H), NEW Z \in Nat, NEW w \in Nat,
         NEW d \in Nat, NEW c \in Nat, d <= Z + w, k * Z <= a * c
  PROVE  k * d <= a * (c + w)
<1> DEFINE t1 == k * d  t2 == k * (Z + w)  t3 == k * Z  t4 == k * w
           t5 == a * c  t6 == a * w  t7 == a * (c + w)
<1>1. Z + w \in Nat /\ c + w \in Nat
  OBVIOUS
<1>2. t1 \in Nat /\ t2 \in Nat /\ t3 \in Nat /\ t4 \in Nat /\ t5 \in Nat /\ t6 \in Nat /\ t7 \in Nat
  BY <1>1, SteersIs
<1>3. t1 <= t2
  BY <1>1, SteersIs
<1>4. t2 = t3 + t4 /\ t4 <= t6 /\ t7 = t5 + t6
  <2>1. k \in Nat /\ a \in Nat /\ t4 <= t6
    BY SteersIs
  <2> QED  BY <2>1, Distributes
<1>5. t3 <= t5
  OBVIOUS
<1> HIDE DEF t1, t2, t3, t4, t5, t6, t7
<1>6. t1 <= t7
  BY <1>2, <1>3, <1>4, <1>5
<1> QED  BY <1>6 DEF t1, t7

(* Before the goal is closed, up to any node of a path, the search has     *)
(* reached a node it has not closed, at no more than the path is worth,    *)
(* or has closed the node.                                                 *)
LEMMA GuidedReaches ==
  ASSUME NEW g, IsGraph(g), NEW s, NEW goal, NEW k, NEW a, NEW H, Steers(g, k, a, H),
         NEW D, NEW Q, NEW C, Guided(g, s, goal, k, a, H, D, Q, C), goal \notin C,
         NEW p \in SimplePaths(g, s), NEW c, Costs(g, p, c)
  PROVE  \A i \in 1 .. Len(p) :
           \/ \E j \in 1 .. i : p[j] \in DOMAIN D \ C /\ k * D[p[j]] <= a * c[j]
           \/ p[i] \in C
<1> DEFINE l == Len(p)
           Open(i) == \E j \in 1 .. i : p[j] \in DOMAIN D \ C /\ k * D[p[j]] <= a * c[j]
           T == {i \in 0 .. l - 1 : Open(i + 1) \/ p[i + 1] \in C}
<1>1. /\ l \in Nat \ {0} /\ IsPath(g, p) /\ p[1] = s
  BY SimpleIs
<1>2. /\ c[1] = 0
      /\ \A i \in 1 .. l - 1 : c[i + 1] = c[i] + WeightOf(g, p[i], p[i + 1])
  BY DEF Costs
<1>3. \A i \in 1 .. l : c[i] \in Nat
  BY SteersIs, CostsRise
<1>4. /\ s \in DOMAIN D /\ D[s] = 0 /\ C \in SUBSET DOMAIN D
      /\ \A v \in C : Visited(g, s, goal, k, a, H, D, v)
      /\ \A v \in DOMAIN D : D[v] \in Nat
  <2>1. D \in NatDists(g)
    BY DEF Guided
  <2> QED  BY <2>1, NatDistIs DEF Guided
<1>5. ASSUME NEW i \in 1 .. l, p[i] \in DOMAIN D, k * D[p[i]] <= a * c[i] PROVE Open(i) \/ p[i] \in C
  <2>1. i \in 1 .. i
    OBVIOUS
  <2> QED  BY <1>5, <2>1
<1> HIDE DEF l
<1>6. 0 \in T
  <2>1. 1 \in 1 .. l /\ 0 + 1 = 1 /\ 0 \in 0 .. l - 1
    BY <1>1
  <2>2. Open(1) \/ p[1] \in C
    <3>1. p[1] \in DOMAIN D /\ D[p[1]] = c[1] /\ c[1] \in Nat
      BY <1>1, <1>2, <1>4
    <3>2. k * D[p[1]] <= a * c[1]
      BY <3>1, SteersIs
    <3> HIDE DEF Open
    <3> QED  BY <1>5, <2>1, <3>1, <3>2
  <2> HIDE DEF Open
  <2> QED  BY <2>1, <2>2
<1>7. ASSUME NEW i \in 0 .. (l - 1) - 1, i \in T PROVE i + 1 \in T
  <2> DEFINE x == i + 1
  <2>1. x \in 1 .. l - 1 /\ x \in 0 .. l - 1 /\ x + 1 \in 1 .. l /\ x \in 1 .. l
    BY <1>1
  <2>2. Open(x) \/ p[x] \in C
    BY <1>7
  <2> HIDE DEF x
  <2>3. CASE Open(x)
    <3>1. \A j \in 1 .. x : j \in 1 .. x + 1
      BY <2>1
    <3> QED  BY <2>1, <2>3, <3>1 DEF x
  <2>4. CASE p[x] \in C
    <3>1. PICK e \in EdgesOf(g) : /\ e.from = p[x] /\ e.to = p[x + 1]
                                  /\ e.weight = WeightOf(g, p[x], p[x + 1])
      BY <1>1, <2>1, StepsWeigh DEF l
    <3>2. PICK Z \in Nat :
             /\ Bounded(g, s, goal, k, a, H, p[x], Z)
             /\ p[x] # goal => \A f \in EdgesOf(g) : f.from = p[x] => f.to \in DOMAIN D /\ D[f.to] <= Z + f.weight
      BY <1>4, <2>4 DEF Visited
    <3>3. e.to \in DOMAIN D /\ D[e.to] <= Z + e.weight
      BY <2>4, <3>1, <3>2
    <3>4. k * Z <= a * c[x]
      BY <2>1, <3>2 DEF Bounded, l
    <3>5. /\ D[e.to] \in Nat /\ e.weight \in Nat /\ c[x] \in Nat /\ c[x + 1] = c[x] + e.weight
          /\ Z + e.weight \in Nat
      BY <1>2, <1>3, <1>4, <2>1, <3>1, <3>3, SteersIs DEF Measures
    <3>6. k * D[e.to] <= a * c[x + 1]
      <4>1. k * D[e.to] <= a * (c[x] + e.weight)
        BY <3>3, <3>4, <3>5, WorthKept
      <4> QED  BY <3>5, <4>1
    <3>7. p[x + 1] \in DOMAIN D /\ k * D[p[x + 1]] <= a * c[x + 1]
      BY <3>1, <3>3, <3>6
    <3> HIDE DEF Open
    <3> QED  BY <1>5, <2>1, <3>7 DEF x
  <2> QED  BY <2>2, <2>3, <2>4
<1>8. \A i \in 0 .. l - 1 : i \in T
  <2>1. l - 1 \in Nat
    BY <1>1
  <2> HIDE DEF T
  <2> QED  BY <1>6, <1>7, <2>1, SetInductionTo
<1>9. ASSUME NEW i \in 1 .. l PROVE Open(i) \/ p[i] \in C
  <2>1. i - 1 \in T /\ (i - 1) + 1 = i
    BY <1>1, <1>8
  <2> HIDE DEF Open
  <2> QED  BY <2>1
<1> QED  BY <1>9 DEF l

(* The least priority is at most what any path is worth that leads to a    *)
(* node not closed.                                                        *)
LEMMA LeastIsBounded ==
  ASSUME NEW g, IsGraph(g), NEW s, NEW goal, NEW k, NEW a, NEW H, Steers(g, k, a, H),
         NEW D, NEW Q, NEW C, Guided(g, s, goal, k, a, H, D, Q, C), goal \notin C,
         NEW t \in Nat, \A q \in Q : t <= q[1],
         NEW p \in SimplePaths(g, s), NEW c, Costs(g, p, c),
         NEW i \in 1 .. Len(p), p[i] \notin C
  PROVE  t <= a * c[i] + H[p[i]] /\ Q # {}
<1>1. PICK j \in 1 .. i : p[j] \in DOMAIN D \ C /\ k * D[p[j]] <= a * c[j]
  BY GuidedReaches
<1>2. <<Priority(k, H, D[p[j]], p[j]), p[j]>> \in Q
  BY <1>1 DEF Guided
<1>3. t <= <<Priority(k, H, D[p[j]], p[j]), p[j]>>[1]
  BY <1>2
<1>4. t <= k * D[p[j]] + H[p[j]]
  BY <1>3 DEF Priority
<1>5. j \in 1 .. Len(p) /\ j <= i /\ p[j] \in NodesOf(g) /\ p[i] \in NodesOf(g)
  BY SimpleIs
<1>6. c[i] \in Nat /\ c[j] \in Nat /\ a * c[j] + H[p[j]] <= a * c[i] + H[p[i]]
  BY <1>5, SteersIs, CostsRise DEF Priority
<1>7. D[p[j]] \in Nat
  BY <1>1, NatDistIs DEF Guided
<1> DEFINE x == k * D[p[j]]  y == a * c[j]  z == a * c[i]
<1>8. x \in Nat /\ y \in Nat /\ z \in Nat /\ H[p[j]] \in Nat /\ H[p[i]] \in Nat
  BY <1>5, <1>6, <1>7, SteersIs
<1>9. t <= x + H[p[j]] /\ x <= y /\ y + H[p[j]] <= z + H[p[i]]
  BY <1>1, <1>4, <1>6
<1> HIDE DEF x, y, z
<1>10. t <= z + H[p[i]]
  BY <1>8, <1>9
<1> QED  BY <1>2, <1>10 DEF z

(* So a node popped first is closed at a bounded distance.                 *)
LEMMA TopIsBounded ==
  ASSUME NEW g, IsGraph(g), NEW s, NEW goal, NEW k, NEW a, NEW H, Steers(g, k, a, H),
         NEW D, NEW Q, NEW C, Guided(g, s, goal, k, a, H, D, Q, C), goal \notin C,
         NEW top \in Q, \A q \in Q : top[1] <= q[1], NEW u, u = top[2], u \notin C
  PROVE  Bounded(g, s, goal, k, a, H, u, D[u]) /\ u \in DOMAIN D /\ D[u] \in Nat
<1>1. /\ u \in DOMAIN D /\ Priority(k, H, D[u], u) <= top[1] /\ top[1] \in Nat
  BY DEF Guided
<1>2. D[u] \in Nat /\ u \in NodesOf(g)
  BY <1>1, NatDistIs DEF Guided
<1> DEFINE x == k * D[u]
<1>3. x + H[u] <= top[1] /\ x \in Nat /\ H[u] \in Nat
  BY <1>1, <1>2, SteersIs DEF Priority
<1> SUFFICES ASSUME NEW p \in SimplePaths(g, s), NEW c, Costs(g, p, c), NEW i \in 1 .. Len(p)
             PROVE  /\ p[i] = u => x <= a * c[i]
                    /\ p[i] = goal => x + H[u] <= a * c[i] + H[goal]
  BY <1>1, <1>2 DEF Bounded
<1> HIDE DEF x
<1>4. c[i] \in Nat /\ a * c[i] \in Nat /\ p[i] \in NodesOf(g) /\ H[p[i]] \in Nat
  <2>1. c[i] \in Nat /\ p[i] \in NodesOf(g)
    <3>1. Guides(g, a, H)
      BY SteersIs
    <3>2. c[i] \in Nat
      BY <3>1, CostsRise
    <3> QED  BY <3>2, SimpleIs
  <2> QED  BY <2>1, SteersIs
<1>5. p[i] \notin C => top[1] <= a * c[i] + H[p[i]]
  BY <1>1, LeastIsBounded
<1> DEFINE z == a * c[i]
<1> HIDE DEF z
<1>6. z \in Nat /\ (p[i] \notin C => top[1] <= z + H[p[i]])
  BY <1>4, <1>5 DEF z
<1>7. (p[i] = u => x <= z) /\ (p[i] = goal => x + H[u] <= z + H[goal])
  BY <1>1, <1>3, <1>4, <1>6
<1> QED  BY <1>7 DEF z

(* A node is closed ...                                                    *)
LEMMA GuidedCloses ==
  ASSUME NEW g, IsGraph(g), NEW s, NEW goal, NEW k, NEW a, NEW H, Steers(g, k, a, H),
         NEW D, NEW Q, NEW C, Guided(g, s, goal, k, a, H, D, Q, C), goal \notin C,
         NEW top \in Q, \A q \in Q : top[1] <= q[1], goal = top[2]
  PROVE  Guided(g, s, goal, k, a, H, D, Q \ {top}, C \cup {goal})
<1> DEFINE R == Q \ {top}
           B == C \cup {goal}
<1>1. /\ D \in NatDists(g) /\ Attained(g, s, D)
      /\ s \in DOMAIN D /\ D[s] = 0
      /\ IsFiniteSet(Q) /\ Q \in SUBSET (Nat \X NodesOf(g))
      /\ C \in SUBSET DOMAIN D
      /\ \A v \in C : Visited(g, s, goal, k, a, H, D, v)
  BY DEF Guided
<1>2. Bounded(g, s, goal, k, a, H, goal, D[goal]) /\ goal \in DOMAIN D /\ D[goal] \in Nat
  BY TopIsBounded
<1>3. Visited(g, s, goal, k, a, H, D, goal)
  <2>1. D[goal] <= D[goal]
    BY <1>2
  <2> QED  BY <1>2, <2>1 DEF Visited
<1>4. \A q \in R : q[2] \in DOMAIN D /\ Priority(k, H, D[q[2]], q[2]) <= q[1]
  BY DEF Guided
<1>5. ASSUME NEW v \in DOMAIN D \ B PROVE <<Priority(k, H, D[v], v), v>> \in R
  <2>1. <<Priority(k, H, D[v], v), v>> \in Q
    BY DEF Guided
  <2>2. <<Priority(k, H, D[v], v), v>>[2] = v
    OBVIOUS
  <2> QED  BY <2>1, <2>2
<1>6. IsFiniteSet(R) /\ R \in SUBSET (Nat \X NodesOf(g)) /\ B \in SUBSET DOMAIN D
  BY <1>1, <1>2, FS_RemoveElement
<1>7. \A v \in B : Visited(g, s, goal, k, a, H, D, v)
  BY <1>1, <1>3
<1> HIDE DEF R, B
<1>8. Guided(g, s, goal, k, a, H, D, R, B)
  BY <1>1, <1>4, <1>5, <1>6, <1>7 DEF Guided
<1> QED  BY <1>8 DEF R, B

(* ... and, unless it is the goal, its edges are taken; an entry of a node *)
(* that is closed is dropped.                                              *)
LEMMA GuidedExplores ==
  ASSUME NEW g, IsGraph(g), NEW s, NEW goal, NEW k, NEW a, NEW H, Steers(g, k, a, H),
         NEW D, NEW Q, NEW C, Guided(g, s, goal, k, a, H, D, Q, C), goal \notin C,
         NEW top \in Q, \A q \in Q : top[1] <= q[1], NEW u, u = top[2], u \notin C, u # goal,
         NEW N, NEW R, Grown(g, u, D[u], k, H, D, Q \ {top}, Len(g.edges), N, R)
  PROVE  Guided(g, s, goal, k, a, H, N, R, C \cup {u})
<1> DEFINE B == C \cup {u}
           m == Len(g.edges)
<1>0. Measures(g, k, H) /\ ~HasNegativeCycle(g, s)
  <2>1. Measures(g, k, H)
    BY SteersIs
  <2>2. \A e \in EdgesOf(g) : e.weight \in Nat
    BY <2>1 DEF Measures
  <2> QED  BY <2>1, <2>2, NoNegativeCycle
<1>1. /\ D \in NatDists(g) /\ Attained(g, s, D)
      /\ s \in DOMAIN D /\ D[s] = 0
      /\ IsFiniteSet(Q) /\ Q \in SUBSET (Nat \X NodesOf(g))
      /\ \A q \in Q : q[2] \in DOMAIN D /\ Priority(k, H, D[q[2]], q[2]) <= q[1]
      /\ C \in SUBSET DOMAIN D
      /\ \A v \in DOMAIN D \ C : <<Priority(k, H, D[v], v), v>> \in Q
      /\ \A v \in C : Visited(g, s, goal, k, a, H, D, v)
  BY DEF Guided
<1>2. Bounded(g, s, goal, k, a, H, u, D[u]) /\ u \in DOMAIN D /\ D[u] \in Nat
  BY TopIsBounded
<1>3. /\ N \in NatDists(g) /\ NotFurther(N, D)
      /\ R \in SUBSET (Nat \X NodesOf(g)) /\ Q \ {top} \subseteq R
      /\ IsFiniteSet(R) /\ Cardinality(R) <= Cardinality(Q \ {top}) + Cardinality(Leaving(g, u, m))
      /\ \A j \in Leaving(g, u, m) :
           g.edges[j].to \in DOMAIN N /\ N[g.edges[j].to] <= D[u] + g.edges[j].weight
      /\ \A v \in DOMAIN N : \/ v \in DOMAIN D /\ N[v] = D[v]
                             \/ <<Priority(k, H, N[v], v), v>> \in R
  BY DEF Grown
<1>4. /\ \A v \in DOMAIN D : v \in DOMAIN N /\ N[v] <= D[v] /\ D[v] \in Nat
      /\ \A v \in DOMAIN N : N[v] \in Nat
  BY <1>1, <1>3, NatDistIs DEF NotFurther
<1>5. Attained(g, s, N)
  BY <1>0, <1>1, <1>2, GrownAttains
<1>6. s \in DOMAIN N /\ N[s] = 0
  BY <1>1, <1>4
<1>7. \A q \in R : q[2] \in DOMAIN N /\ Priority(k, H, N[q[2]], q[2]) <= q[1]
  BY <1>0, <1>1, <1>2, GrownKeys
<1>8. B \in SUBSET DOMAIN N
  BY <1>1, <1>2, <1>4
<1>9. ASSUME NEW v \in DOMAIN N \ B PROVE <<Priority(k, H, N[v], v), v>> \in R
  <2>1. CASE v \in DOMAIN D /\ N[v] = D[v]
    <3>1. <<Priority(k, H, D[v], v), v>> \in Q
      BY <1>1, <2>1
    <3>2. <<Priority(k, H, D[v], v), v>>[2] = v
      OBVIOUS
    <3>3. <<Priority(k, H, D[v], v), v>> # top
      BY <3>2
    <3> QED  BY <1>3, <2>1, <3>1, <3>3
  <2> QED  BY <1>3, <2>1
<1>10. ASSUME NEW v \in C PROVE Visited(g, s, goal, k, a, H, N, v)
  <2>1. PICK Z \in Nat :
           /\ D[v] <= Z /\ Bounded(g, s, goal, k, a, H, v, Z)
           /\ v # goal => \A e \in EdgesOf(g) : e.from = v => e.to \in DOMAIN D /\ D[e.to] <= Z + e.weight
    BY <1>1 DEF Visited
  <2>2. N[v] <= Z
    <3>1. v \in DOMAIN D /\ N[v] <= D[v] /\ D[v] \in Nat /\ N[v] \in Nat
      BY <1>1, <1>4
    <3> QED  BY <2>1, <3>1
  <2>3. ASSUME v # goal, NEW e \in EdgesOf(g), e.from = v
        PROVE  e.to \in DOMAIN N /\ N[e.to] <= Z + e.weight
    <3>1. e.to \in DOMAIN D /\ D[e.to] <= Z + e.weight /\ e.weight \in Nat
      BY <1>0, <2>1, <2>3 DEF Measures
    <3>2. e.to \in DOMAIN N /\ N[e.to] <= D[e.to] /\ N[e.to] \in Nat /\ D[e.to] \in Nat
      BY <1>4, <3>1
    <3> QED  BY <3>1, <3>2
  <2> QED  BY <2>1, <2>2, <2>3 DEF Visited
<1>11. Visited(g, s, goal, k, a, H, N, u)
  <2>1. N[u] <= D[u]
    BY <1>2, <1>4
  <2>2. ASSUME NEW e \in EdgesOf(g), e.from = u PROVE e.to \in DOMAIN N /\ N[e.to] <= D[u] + e.weight
    <3>1. PICK j \in 1 .. m : g.edges[j] = e
      BY EdgeIs
    <3>2. j \in Leaving(g, u, m)
      BY <2>2, <3>1 DEF Leaving
    <3> QED  BY <1>3, <3>1, <3>2
  <2> QED  BY <1>2, <2>1, <2>2 DEF Visited
<1>12. \A v \in B : Visited(g, s, goal, k, a, H, N, v)
  BY <1>10, <1>11
<1> HIDE DEF B
<1>13. Guided(g, s, goal, k, a, H, N, R, B)
  BY <1>3, <1>5, <1>6, <1>7, <1>8, <1>9, <1>12 DEF Guided
<1> QED  BY <1>13 DEF B

LEMMA GuidedDrops ==
  ASSUME NEW g, IsGraph(g), NEW s, NEW goal, NEW k, NEW a, NEW H,
         NEW D, NEW Q, NEW C, Guided(g, s, goal, k, a, H, D, Q, C), NEW q \in Q, q[2] \in C
  PROVE  /\ Guided(g, s, goal, k, a, H, D, Q \ {q}, C)
         /\ TurnsLeft(g, Q \ {q}, C) <= TurnsLeft(g, Q, C) - 1
<1> DEFINE R == Q \ {q}
<1>1. /\ D \in NatDists(g) /\ Attained(g, s, D)
      /\ s \in DOMAIN D /\ D[s] = 0
      /\ IsFiniteSet(Q) /\ Q \in SUBSET (Nat \X NodesOf(g))
      /\ C \in SUBSET DOMAIN D
      /\ \A v \in C : Visited(g, s, goal, k, a, H, D, v)
  BY DEF Guided
<1>2. IsFiniteSet(R) /\ Cardinality(R) = Cardinality(Q) - 1 /\ R \in SUBSET (Nat \X NodesOf(g))
      /\ Cardinality(Q) \in Nat
  BY <1>1, FS_RemoveElement, FS_CardinalityType
<1>3. \A r \in R : r[2] \in DOMAIN D /\ Priority(k, H, D[r[2]], r[2]) <= r[1]
  BY DEF Guided
<1>4. ASSUME NEW v \in DOMAIN D \ C PROVE <<Priority(k, H, D[v], v), v>> \in R
  <2>1. <<Priority(k, H, D[v], v), v>> \in Q
    BY DEF Guided
  <2>2. <<Priority(k, H, D[v], v), v>>[2] = v
    OBVIOUS
  <2> QED  BY <2>1, <2>2
<1> HIDE DEF R
<1>5. Guided(g, s, goal, k, a, H, D, R, C)
  BY <1>1, <1>2, <1>3, <1>4 DEF Guided
<1>6. TurnsLeft(g, R, C) <= TurnsLeft(g, Q, C) - 1
  <2>1. Cardinality(Waiting(g, C)) \in Nat
    BY WaitingIs
  <2> QED  BY <1>2, <2>1 DEF TurnsLeft
<1> QED  BY <1>5, <1>6 DEF R

-----------------------------------------------------------------------------
(* The turns of the guided search.                                         *)
Parents(g) == UNION {[A -> NodesOf(g)] : A \in SUBSET NodesOf(g)}
GuidedStates(g) ==
  [dist : NatDists(g), parent : Parents(g), closed : SUBSET NodesOf(g),
   pq : SUBSET (Nat \X NodesOf(g)), u : NodesOf(g)]
Exploring(g, C, u, d) ==
  {x \in GuidedStates(g) : x.closed = C /\ x.u = u /\ u \in DOMAIN x.dist /\ x.dist[u] = d}

LEMMA ParentWith ==
  ASSUME NEW g, NEW F \in Parents(g), NEW v \in NodesOf(g), NEW u \in NodesOf(g)
  PROVE  With(F, v, u) \in Parents(g)
<1> DEFINE N == [x \in DOMAIN F \cup {v} |-> IF x = v THEN u ELSE F[x]]
<1>1. With(F, v, u) = N
  BY DEF With
<1>2. PICK A \in SUBSET NodesOf(g) : F \in [A -> NodesOf(g)]
  BY DEF Parents
<1>3. DOMAIN F \cup {v} \in SUBSET NodesOf(g) /\ N \in [DOMAIN F \cup {v} -> NodesOf(g)]
  BY <1>2
<1> HIDE DEF N
<1> QED  BY <1>1, <1>3 DEF Parents

LEMMA OfferedOffers ==
  ASSUME NEW g, IsGraph(g), NEW k, NEW H, Measures(g, k, H), NEW C, NEW u, NEW d \in Nat,
         NEW x \in Exploring(g, C, u, d), NEW e \in EdgesOf(g)
  PROVE  /\ Offered(x, e, k, H) \in Exploring(g, C, u, d)
         /\ Offers(u, d, k, H, e, x.dist, x.pq, Offered(x, e, k, H).dist, Offered(x, e, k, H).pq)
<1> DEFINE nd == d + e.weight
           key == <<k * nd + H[e.to], e.to>>
           N == With(x.dist, e.to, nd)
           F == With(x.parent, e.to, u)
           R == x.pq \cup {key}
           y == Offered(x, e, k, H)
<1>1. nd \in Nat /\ e.weight \in Nat /\ e.to \in NodesOf(g) /\ e.from \in NodesOf(g)
  BY EdgeIs DEF Measures
<1>2. /\ x.dist \in NatDists(g) /\ x.parent \in Parents(g) /\ x.pq \in SUBSET (Nat \X NodesOf(g))
      /\ x.u = u /\ u \in NodesOf(g) /\ u \in DOMAIN x.dist /\ x.dist[u] = d /\ x.closed = C
      /\ x \in GuidedStates(g)
  BY DEF GuidedStates, Exploring
<1>3. NowAt(g, x.dist, e.to, nd, N) /\ F \in Parents(g)
  BY <1>1, <1>2, NatWith, ParentWith
<1>4. key[1] = Priority(k, H, nd, e.to) /\ key[1] \in Nat /\ key \in Nat \X NodesOf(g)
  <2>1. Priority(k, H, nd, e.to) \in Nat
    BY <1>1, PriorityIs
  <2> QED  BY <1>1, <2>1 DEF Priority
<1>5. CASE e.from = u /\ Closer(x.dist, e.to, nd)
  <2>1. y = [x EXCEPT !.dist = N, !.parent = F, !.pq = R]
    BY <1>2, <1>5 DEF Offered
  <2>2. R \in SUBSET (Nat \X NodesOf(g))
    BY <1>2, <1>4
  <2>3. N \in NatDists(g) /\ u \in DOMAIN N /\ N[u] = d
    <3>1. e.to # u
      BY <1>1, <1>2, <1>5 DEF Closer
    <3> QED  BY <1>2, <1>3, <3>1 DEF NowAt
  <2>4. R = x.pq \cup {<<Priority(k, H, nd, e.to), e.to>>}
    BY DEF Priority
  <2> HIDE DEF N, F, R, y
  <2>5. /\ y \in GuidedStates(g) /\ y.dist = N /\ y.pq = R /\ y.u = x.u /\ y.closed = x.closed
    BY <1>2, <1>3, <2>1, <2>2, <2>3 DEF GuidedStates
  <2>6. y \in Exploring(g, C, u, d)
    BY <1>2, <2>3, <2>5 DEF Exploring
  <2>7. Offers(u, d, k, H, e, x.dist, x.pq, y.dist, y.pq)
    BY <1>5, <2>4, <2>5 DEF Offers, N
  <2> QED  BY <2>6, <2>7 DEF y
<1>6. CASE ~(e.from = u /\ Closer(x.dist, e.to, nd))
  <2>1. y = x
    BY <1>2, <1>6 DEF Offered
  <2> QED  BY <1>6, <2>1 DEF Offers
<1> QED  BY <1>5, <1>6

(* The edges of a graph offered to Z one after another, within S.          *)
OfferStates(g, k, H, S, Z, z) ==
  /\ z \in [0 .. Len(g.edges) -> S] /\ z[0] = Z
  /\ \A i \in 1 .. Len(g.edges) : z[i] = Offered(z[i - 1], g.edges[i], k, H)
  /\ z[Len(g.edges)] = EdgesOffered(g, k, H, Z)

LEMMA OffersFold ==
  ASSUME NEW g, IsGraph(g), NEW k, NEW H, NEW S, NEW Z \in S,
         \A x \in S, e \in EdgesOf(g) : Offered(x, e, k, H) \in S
  PROVE  \E z : OfferStates(g, k, H, S, Z, z)
<1> DEFINE E == g.edges
           m == Len(E)
           G == [i \in 1 .. m |-> [x \in S |-> Offered(x, E[i], k, H)]]
           It(f) == f = [s \in SUBSET DOMAIN E |->
                           IF s = {} THEN Z
                           ELSE LET x == Max(s) IN Offered(f[s \ {x}], E[x], k, H)]
           fold == CHOOSE f : It(f)
           whole == EdgesOffered(g, k, H, Z)
<1>1. m \in Nat /\ DOMAIN E = 1 .. m /\ \A i \in 1 .. m : E[i] \in EdgesOf(g)
  BY EdgeIs
<1>2. \A i \in 1 .. m, x \in S : Offered(x, E[i], k, H) \in S
  BY <1>1
<1>3. whole = fold[1 .. m]
  BY <1>1 DEF EdgesOffered, FoldLeft, MapThenFoldSet
<1>4. \A s : Max(s) = LastOf(s)
  BY DEF Max, LastOf
<1> HIDE DEF E, m, fold, whole
<1>5. G \in [1 .. m -> [S -> S]]
  BY <1>2
<1>6. \A i \in 1 .. m, x \in S : G[i][x] = Offered(x, E[i], k, H)
  OBVIOUS
<1> HIDE DEF G
<1>7. Z \in S
  OBVIOUS
<1>8. PICK f : FoldsOn(f, S, Z, G, m)
  BY <1>1, <1>5, <1>7, FoldExists
<1>9. It(f)
  <2>1. ASSUME NEW s \in SUBSET (1 .. m), s # {}
        PROVE  G[LastOf(s)][f[s \ {LastOf(s)}]] = Offered(f[s \ {Max(s)}], E[Max(s)], k, H)
    <3>1. LastOf(s) \in 1 .. m
      BY <1>1, <2>1, LastIs
    <3>2. f[s \ {LastOf(s)}] \in S
      BY <1>8 DEF FoldsOn
    <3> QED  BY <1>4, <1>6, <3>1, <3>2
  <2>2. f = [s \in SUBSET (1 .. m) |-> IF s = {} THEN Z ELSE Offered(f[s \ {Max(s)}], E[Max(s)], k, H)]
    <3>1. f = [s \in SUBSET (1 .. m) |-> f[s]]
      BY <1>8 DEF FoldsOn
    <3>2. \A s \in SUBSET (1 .. m) : f[s] = IF s = {} THEN Z ELSE Offered(f[s \ {Max(s)}], E[Max(s)], k, H)
      BY <1>8, <2>1 DEF FoldsOn
    <3> QED  BY <3>1, <3>2
  <2> QED  BY <1>1, <2>2
<1>10. It(fold)
  BY <1>9 DEF fold
<1>11. fold[{}] = Z
  BY <1>10
<1>12. ASSUME NEW i \in 0 .. m - 1, fold[1 .. i] \in S
       PROVE  fold[1 .. i + 1] = G[i + 1][fold[1 .. i]]
  <2>1. 1 .. i + 1 \in SUBSET DOMAIN E /\ 1 .. i + 1 # {}
    <3>1. 1 .. i + 1 \subseteq 1 .. m /\ 1 \in 1 .. i + 1
      BY <1>1
    <3> QED  BY <1>1, <3>1
  <2>2. Max(1 .. i + 1) = i + 1 /\ (1 .. i + 1) \ {i + 1} = 1 .. i
    <3>1. i \in Nat
      BY <1>1
    <3> QED  BY <1>4, <3>1, LastOfAll
  <2>3. fold[1 .. i + 1] = Offered(fold[(1 .. i + 1) \ {Max(1 .. i + 1)}], E[Max(1 .. i + 1)], k, H)
    BY <1>10, <2>1
  <2>4. i + 1 \in 1 .. m
    BY <1>1
  <2> QED  BY <1>6, <1>12, <2>2, <2>3, <2>4
<1> DEFINE z == [i \in 0 .. m |-> fold[1 .. i]]
<1>13. Folds(z, S, Z, G, m)
  BY <1>1, <1>5, <1>7, <1>11, <1>12, FoldSteps
<1>14. z[m] = whole
  BY <1>1, <1>3
<1> HIDE DEF z
<1>15. /\ z \in [0 .. m -> S] /\ z[0] = Z
       /\ \A i \in 1 .. m : z[i] = Offered(z[i - 1], E[i], k, H)
  <2>1. z \in [0 .. m -> S] /\ z[0] = Z
    BY <1>13 DEF Folds
  <2>2. \A i \in 1 .. m : z[i - 1] \in S /\ z[i] = G[i][z[i - 1]]
    BY <1>1, <1>13, <2>1 DEF Folds
  <2> QED  BY <1>6, <2>1, <2>2
<1> QED  BY <1>14, <1>15 DEF OfferStates, m, E, whole

(* The edges of a node, one after another.                                 *)
LEMMA OfferedAll ==
  ASSUME NEW g, IsGraph(g), NEW k, NEW H, Measures(g, k, H), NEW C, NEW u, NEW d \in Nat,
         NEW Z \in Exploring(g, C, u, d), IsFiniteSet(Z.pq)
  PROVE  LET y == EdgesOffered(g, k, H, Z)
         IN  /\ y \in Exploring(g, C, u, d)
             /\ Grown(g, u, d, k, H, Z.dist, Z.pq, Len(g.edges), y.dist, y.pq)
<1> DEFINE m == Len(g.edges)
           S == Exploring(g, C, u, d)
<1>1. m \in Nat /\ \A i \in 1 .. m : g.edges[i] \in EdgesOf(g)
  BY EdgeIs
<1>2. \A x \in S, e \in EdgesOf(g) :
        /\ Offered(x, e, k, H) \in S
        /\ Offers(u, d, k, H, e, x.dist, x.pq, Offered(x, e, k, H).dist, Offered(x, e, k, H).pq)
  BY OfferedOffers
<1>7. Z \in S
  OBVIOUS
<1> HIDE DEF m, S
<1>3. PICK z : OfferStates(g, k, H, S, Z, z)
  BY <1>2, <1>7, OffersFold
<1>15. /\ z \in [0 .. m -> S] /\ z[0] = Z
       /\ \A i \in 1 .. m : z[i] = Offered(z[i - 1], g.edges[i], k, H)
       /\ z[m] = EdgesOffered(g, k, H, Z)
  BY <1>3 DEF OfferStates, m
<1> DEFINE Grew(i) == Grown(g, u, d, k, H, Z.dist, Z.pq, i, z[i].dist, z[i].pq)
           T == {i \in 0 .. m : Grew(i)}
<1>16. Z.dist \in NatDists(g) /\ Z.pq \in SUBSET (Nat \X NodesOf(g)) /\ Measures(g, k, H)
  BY <1>7 DEF S, Exploring, GuidedStates
<1>17. 0 \in T
  BY <1>1, <1>15, <1>16, GrownStart
<1>18. ASSUME NEW i \in 0 .. m - 1, i \in T PROVE i + 1 \in T
  <2>1. i + 1 \in 0 .. m /\ i + 1 \in 1 .. m /\ (i + 1) - 1 = i /\ i \in 0 .. m
    BY <1>1
  <2>2. z[i] \in S /\ z[i + 1] = Offered(z[i], g.edges[i + 1], k, H)
    BY <1>15, <2>1
  <2>3. Offers(u, d, k, H, g.edges[i + 1], z[i].dist, z[i].pq, z[i + 1].dist, z[i + 1].pq)
    BY <1>1, <1>2, <2>1, <2>2
  <2>4. Grew(i) /\ i \in 0 .. Len(g.edges) - 1
    BY <1>18 DEF m
  <2>5. Grew(i + 1)
    BY <1>16, <2>3, <2>4, GrownOn
  <2> QED  BY <2>1, <2>5
<1>19. \A i \in 0 .. m : i \in T
  <2> HIDE DEF T
  <2> QED  BY <1>1, <1>17, <1>18, SetInductionTo
<1>20. Grew(m) /\ z[m] \in S
  BY <1>1, <1>15, <1>19
<1> QED  BY <1>15, <1>20 DEF S, m

(* The parents at the start.                                               *)
LEMMA NoParents ==
  ASSUME NEW g
  PROVE  <<>> \in Parents(g)
<1>1. <<>> \in [{} -> NodesOf(g)]
  OBVIOUS
<1>2. {} \in SUBSET NodesOf(g)
  OBVIOUS
<1> QED  BY <1>1, <1>2 DEF Parents

(* A turn keeps what a guided search keeps; it ends it, or leaves fewer.   *)
LEMMA GuidedTurns ==
  ASSUME NEW g, IsGraph(g), NEW s, NEW goal, NEW k, NEW a, NEW H, Steers(g, k, a, H),
         NEW x, x \in GuidedStates(g),
         Guided(g, s, goal, k, a, H, x.dist, x.pq, x.closed)
  PROVE  LET y == GuidedTurn(g, goal, k, H, x)
         IN  /\ y \in GuidedStates(g) /\ Guided(g, s, goal, k, a, H, y.dist, y.pq, y.closed)
             /\ \/ Finished(goal, y)
                \/ ~Finished(goal, x) /\ TurnsLeft(g, y.pq, y.closed) <= TurnsLeft(g, x.pq, x.closed) - 1
<1> DEFINE D == x.dist
           Q == x.pq
           C == x.closed
           y == GuidedTurn(g, goal, k, H, x)
<1>1. CASE Finished(goal, x)
  <2>1. y = x
    BY <1>1 DEF GuidedTurn
  <2> QED  BY <1>1, <2>1
<1>2. CASE ~Finished(goal, x)
  <2> DEFINE top == Top(Q)
             u == top[2]
             R == Q \ {top}
             B == C \cup {u}
             popped == [x EXCEPT !.pq = R, !.u = u]
             closed == [popped EXCEPT !.closed = B]
  <2>0. Q # {} /\ goal \notin C
    BY <1>2 DEF Finished
  <2>1. /\ D \in NatDists(g) /\ IsFiniteSet(Q) /\ Q \in SUBSET (Nat \X NodesOf(g))
        /\ C \in SUBSET DOMAIN D /\ \A q \in Q : q[2] \in DOMAIN D
        /\ DOMAIN D \subseteq NodesOf(g)
    BY NatDistIs DEF Guided
  <2>2. top \in Q /\ \A q \in Q : top[1] <= q[1]
    <3>1. g.n \in Nat
      BY DEF IsGraph
    <3> QED  BY <2>0, <2>1, <3>1, TopIs
  <2> HIDE DEF top
  <2>3. u \in NodesOf(g) /\ u \in DOMAIN D /\ D[u] \in Nat
    BY <2>1, <2>2, NatDistIs
  <2>4. R \in SUBSET (Nat \X NodesOf(g)) /\ IsFiniteSet(R) /\ B \in SUBSET NodesOf(g)
    BY <2>1, <2>2, <2>3, FS_RemoveElement
  <2>5. /\ y = IF u \in C THEN popped ELSE IF u = goal THEN closed ELSE EdgesOffered(g, k, H, closed)
    BY <1>2 DEF GuidedTurn, top
  <2> HIDE DEF u, R, B, y
  <2>6. /\ popped \in GuidedStates(g) /\ popped.dist = D /\ popped.pq = R /\ popped.closed = C
    BY <2>3, <2>4 DEF GuidedStates
  <2>7. /\ closed \in GuidedStates(g) /\ closed.dist = D /\ closed.pq = R /\ closed.closed = B
        /\ closed.u = u
    BY <2>3, <2>4 DEF GuidedStates
  <2> HIDE DEF popped, closed, D, Q, C
  <2>8. CASE u \in C
    <3>1. Guided(g, s, goal, k, a, H, D, R, C) /\ TurnsLeft(g, R, C) <= TurnsLeft(g, Q, C) - 1
      BY <2>2, <2>8, GuidedDrops DEF D, Q, C, R, u
    <3>2. /\ y \in GuidedStates(g) /\ y.dist = D /\ y.pq = R /\ y.closed = C
      BY <2>5, <2>6, <2>8
    <3> QED  BY <1>2, <3>1, <3>2 DEF y, Q, C
  <2>9. CASE u \notin C /\ u = goal
    <3>1. Guided(g, s, goal, k, a, H, D, R, B)
      BY <2>0, <2>2, <2>9, GuidedCloses DEF D, Q, C, R, B, u
    <3>2. /\ y \in GuidedStates(g) /\ y.dist = D /\ y.pq = R /\ y.closed = B
      BY <2>5, <2>7, <2>9
    <3>3. Finished(goal, y)
      BY <2>9, <3>2 DEF Finished, B
    <3> QED  BY <3>1, <3>2, <3>3 DEF y
  <2>10. CASE u \notin C /\ u # goal
    <3>1. y = EdgesOffered(g, k, H, closed)
      BY <2>5, <2>10
    <3>2. closed \in Exploring(g, B, u, D[u]) /\ IsFiniteSet(closed.pq)
      BY <2>3, <2>4, <2>7 DEF Exploring
    <3>3. Measures(g, k, H)
      BY SteersIs
    <3>4. /\ y \in Exploring(g, B, u, D[u])
          /\ Grown(g, u, D[u], k, H, closed.dist, closed.pq, Len(g.edges), y.dist, y.pq)
      BY <2>3, <3>1, <3>2, <3>3, OfferedAll
    <3>5. y \in GuidedStates(g) /\ y.closed = B
      BY <3>4 DEF Exploring
    <3>6. Grown(g, u, D[u], k, H, D, R, Len(g.edges), y.dist, y.pq)
      BY <2>7, <3>4
    <3>7. Guided(g, s, goal, k, a, H, y.dist, y.pq, B)
      <4>1. Guided(g, s, goal, k, a, H, D, Q, C)
        BY DEF D, Q, C
      <4>2. \A v : v = top[2] /\ v \notin C /\ v # goal =>
              \A N, P : Grown(g, v, D[v], k, H, D, Q \ {top}, Len(g.edges), N, P) =>
                Guided(g, s, goal, k, a, H, N, P, C \cup {v})
        BY <2>0, <2>2, <4>1, GuidedExplores
      <4> QED  BY <2>10, <3>6, <4>2 DEF B, R, u
    <3>8. TurnsLeft(g, y.pq, B) <= TurnsLeft(g, Q, C) - 1
      <4>1. IsFiniteSet(y.pq) /\ Cardinality(y.pq) <= Cardinality(R) + Cardinality(Leaving(g, u, Len(g.edges)))
        BY <3>6 DEF Grown
      <4> QED  BY <2>1, <2>2, <2>10, <4>1, GrownTurns DEF B, R
    <3> QED  BY <1>2, <3>5, <3>7, <3>8 DEF y, Q, C
  <2> QED  BY <2>8, <2>9, <2>10
<1> QED  BY <1>1, <1>2

(* It holds at the start ...                                               *)
LEMMA GuidedStarts ==
  ASSUME NEW g, IsGraph(g), NEW k, NEW a, NEW H, Steers(g, k, a, H), NEW goal, NEW s \in NodesOf(g)
  PROVE  LET x == GuidedStart(s, H)
         IN  /\ x \in GuidedStates(g) /\ Guided(g, s, goal, k, a, H, x.dist, x.pq, x.closed)
             /\ TurnsLeft(g, x.pq, x.closed) <= Len(g.edges) + 1
<1> DEFINE x == GuidedStart(s, H)
           D == OnlySource(s)
           Q == {<<H[s], s>>}
<1>1. x = [dist |-> D, parent |-> <<>>, closed |-> {}, pq |-> Q, u |-> s]
  BY DEF GuidedStart
<1>2. D \in NatDists(g) /\ DOMAIN D = {s} /\ D[s] = 0
  <2>1. D \in [{s} -> Nat] /\ {s} \in SUBSET NodesOf(g)
    BY DEF OnlySource
  <2>2. DOMAIN D = {s} /\ D[s] = 0
    BY DEF OnlySource
  <2> HIDE DEF D
  <2> QED  BY <2>1, <2>2 DEF NatDists
<1>3. Q \in SUBSET (Nat \X NodesOf(g)) /\ IsFiniteSet(Q) /\ Cardinality(Q) = 1
  <2>1. IsFiniteSet(Q) /\ Cardinality(Q) = 1
    BY FS_Singleton
  <2>2. <<H[s], s>> \in Nat \X NodesOf(g)
    BY SteersIs
  <2> QED  BY <2>1, <2>2
<1>4. Attained(g, s, D)
  BY StartAttained
<1>5. Priority(k, H, 0, s) = H[s] /\ H[s] \in Nat
  <2>1. k \in Nat /\ H[s] \in Nat
    BY SteersIs
  <2> QED  BY <2>1 DEF Priority
<1> HIDE DEF D
<1>6. \A q \in Q : q[2] \in DOMAIN D /\ Priority(k, H, D[q[2]], q[2]) <= q[1]
  BY <1>2, <1>5
<1>7. \A v \in DOMAIN D \ {} : <<Priority(k, H, D[v], v), v>> \in Q
  BY <1>2, <1>5
<1> HIDE DEF Q
<1>8. Guided(g, s, goal, k, a, H, D, Q, {})
  BY <1>2, <1>3, <1>4, <1>6, <1>7 DEF Guided
<1>9. TurnsLeft(g, Q, {}) <= Len(g.edges) + 1
  <2>1. Cardinality(Waiting(g, {})) \in 0 .. Len(g.edges) /\ Len(g.edges) \in Nat
    BY WaitingIs, EdgeIs
  <2> QED  BY <1>3, <2>1 DEF TurnsLeft
<1>10. x \in GuidedStates(g)
  BY <1>1, <1>2, <1>3, NoParents DEF GuidedStates
<1>11. x.dist = D /\ x.pq = Q /\ x.closed = {}
  BY <1>1
<1> HIDE DEF x
<1> QED  BY <1>8, <1>9, <1>10, <1>11 DEF x

GuidedFinds(g, s, goal, k, a, H, x) ==
  x \in GuidedStates(g) /\ Guided(g, s, goal, k, a, H, x.dist, x.pq, x.closed)

LEMMA TurnsLeftIs ==
  ASSUME NEW g, IsGraph(g), NEW s, NEW goal, NEW k, NEW a, NEW H, NEW x,
         GuidedFinds(g, s, goal, k, a, H, x)
  PROVE  TurnsLeft(g, x.pq, x.closed) \in Nat
<1>1. IsFiniteSet(x.pq)
  BY DEF GuidedFinds, Guided
<1>2. Cardinality(Waiting(g, x.closed)) \in 0 .. Len(g.edges) /\ Len(g.edges) \in Nat
  BY WaitingIs, EdgeIs
<1>3. Cardinality(x.pq) \in Nat
  BY <1>1, FS_CardinalityType
<1> QED  BY <1>2, <1>3 DEF TurnsLeft

(* The turns of a search, within S.                                        *)
TurnStates(g, s, goal, k, H, S, z) ==
  LET m == Len(g.edges) + 1
  IN  /\ z \in [0 .. m -> S] /\ z[0] = GuidedStart(s, H)
      /\ \A i \in 1 .. m : z[i] = GuidedTurn(g, goal, k, H, z[i - 1])
      /\ z[m] = guidedSearch(g, s, goal, k, H)

LEMMA TurnsFold ==
  ASSUME NEW g, IsGraph(g), NEW k, NEW H, NEW s, NEW goal, NEW S, GuidedStart(s, H) \in S,
         \A x \in S : GuidedTurn(g, goal, k, H, x) \in S
  PROVE  \E z : TurnStates(g, s, goal, k, H, S, z)
<1> DEFINE E == Turns(g)
           m == Len(g.edges) + 1
           Z == GuidedStart(s, H)
           G == [i \in 1 .. m |-> [x \in S |-> GuidedTurn(g, goal, k, H, x)]]
           It(f) == f = [r \in SUBSET DOMAIN E |->
                           IF r = {} THEN Z
                           ELSE LET x == Max(r) IN GuidedTurn(g, goal, k, H, f[r \ {x}])]
           fold == CHOOSE f : It(f)
<1>1. m \in Nat /\ DOMAIN E = 1 .. m
  BY EdgeIs DEF Turns
<1>3. guidedSearch(g, s, goal, k, H) = fold[1 .. m]
  BY <1>1 DEF guidedSearch, FoldLeft, MapThenFoldSet
<1>4. \A r : Max(r) = LastOf(r)
  BY DEF Max, LastOf
<1>7. Z \in S
  OBVIOUS
<1> HIDE DEF E, m, Z, fold
<1>5. G \in [1 .. m -> [S -> S]]
  OBVIOUS
<1>6. \A i \in 1 .. m, x \in S : G[i][x] = GuidedTurn(g, goal, k, H, x)
  OBVIOUS
<1> HIDE DEF G
<1>8. PICK f : FoldsOn(f, S, Z, G, m)
  BY <1>1, <1>5, <1>7, FoldExists
<1>9. It(f)
  <2>1. ASSUME NEW r \in SUBSET (1 .. m), r # {}
        PROVE  G[LastOf(r)][f[r \ {LastOf(r)}]] = GuidedTurn(g, goal, k, H, f[r \ {Max(r)}])
    <3>1. LastOf(r) \in 1 .. m
      BY <1>1, <2>1, LastIs
    <3>2. f[r \ {LastOf(r)}] \in S
      BY <1>8 DEF FoldsOn
    <3> QED  BY <1>4, <1>6, <3>1, <3>2
  <2>2. f = [r \in SUBSET (1 .. m) |-> IF r = {} THEN Z ELSE GuidedTurn(g, goal, k, H, f[r \ {Max(r)}])]
    <3>1. f = [r \in SUBSET (1 .. m) |-> f[r]]
      BY <1>8 DEF FoldsOn
    <3>2. \A r \in SUBSET (1 .. m) : f[r] = IF r = {} THEN Z ELSE GuidedTurn(g, goal, k, H, f[r \ {Max(r)}])
      BY <1>8, <2>1 DEF FoldsOn
    <3> QED  BY <3>1, <3>2
  <2> QED  BY <1>1, <2>2
<1>10. It(fold)
  BY <1>9 DEF fold
<1>11. fold[{}] = Z
  BY <1>10
<1>12. ASSUME NEW i \in 0 .. m - 1, fold[1 .. i] \in S
       PROVE  fold[1 .. i + 1] = G[i + 1][fold[1 .. i]]
  <2>1. 1 .. i + 1 \in SUBSET DOMAIN E /\ 1 .. i + 1 # {}
    <3>1. 1 .. i + 1 \subseteq 1 .. m /\ 1 \in 1 .. i + 1
      BY <1>1
    <3> QED  BY <1>1, <3>1
  <2>2. Max(1 .. i + 1) = i + 1 /\ (1 .. i + 1) \ {i + 1} = 1 .. i
    <3>1. i \in Nat
      BY <1>1
    <3> QED  BY <1>4, <3>1, LastOfAll
  <2>3. fold[1 .. i + 1] = GuidedTurn(g, goal, k, H, fold[(1 .. i + 1) \ {Max(1 .. i + 1)}])
    BY <1>10, <2>1
  <2>4. i + 1 \in 1 .. m
    BY <1>1
  <2> QED  BY <1>6, <1>12, <2>2, <2>3, <2>4
<1> DEFINE z == [i \in 0 .. m |-> fold[1 .. i]]
<1>13. Folds(z, S, Z, G, m)
  BY <1>1, <1>5, <1>7, <1>11, <1>12, FoldSteps
<1>14. z[m] = guidedSearch(g, s, goal, k, H)
  BY <1>1, <1>3
<1> HIDE DEF z
<1>15. /\ z \in [0 .. m -> S] /\ z[0] = Z
       /\ \A i \in 1 .. m : z[i] = GuidedTurn(g, goal, k, H, z[i - 1])
  <2>1. z \in [0 .. m -> S] /\ z[0] = Z
    BY <1>13 DEF Folds
  <2>2. \A i \in 1 .. m : z[i - 1] \in S /\ z[i] = G[i][z[i - 1]]
    BY <1>1, <1>13, <2>1 DEF Folds
  <2> QED  BY <1>6, <2>1, <2>2
<1> QED  BY <1>14, <1>15 DEF TurnStates, m, Z

(* ... and at the end, which is reached.                                   *)
LEMMA GuidedRuns ==
  ASSUME NEW g, IsGraph(g), NEW k, NEW a, NEW H, Steers(g, k, a, H), NEW goal, NEW s \in NodesOf(g)
  PROVE  LET x == guidedSearch(g, s, goal, k, H)
         IN  GuidedFinds(g, s, goal, k, a, H, x) /\ Finished(goal, x)
<1> DEFINE m == Len(g.edges) + 1
           Z == GuidedStart(s, H)
           S == {x \in GuidedStates(g) : GuidedFinds(g, s, goal, k, a, H, x)}
<1>1. m \in Nat
  BY EdgeIs
<1>2. \A x \in S : GuidedTurn(g, goal, k, H, x) \in S
  BY GuidedTurns DEF GuidedFinds
<1>7. Z \in S
  BY GuidedStarts DEF GuidedFinds
<1> HIDE DEF S
<1>3. PICK z : TurnStates(g, s, goal, k, H, S, z)
  BY <1>2, <1>7, TurnsFold
<1>15. /\ z \in [0 .. m -> S] /\ z[0] = Z
       /\ \A i \in 1 .. m : z[i] = GuidedTurn(g, goal, k, H, z[i - 1])
  BY <1>3 DEF TurnStates
<1>14. z[m] = guidedSearch(g, s, goal, k, H)
  BY <1>3 DEF TurnStates
<1> HIDE DEF m, Z
<1> DEFINE Within(i) == Finished(goal, z[i]) \/ TurnsLeft(g, z[i].pq, z[i].closed) <= m - i
           T == {i \in 0 .. m : Within(i)}
<1>16. 0 \in T
  <2>1. TurnsLeft(g, Z.pq, Z.closed) <= m
    BY GuidedStarts DEF Z, m
  <2>2. m - 0 = m /\ 0 \in 0 .. m
    BY <1>1
  <2> QED  BY <1>15, <2>1, <2>2
<1>17. ASSUME NEW i \in 0 .. m - 1, i \in T PROVE i + 1 \in T
  <2>1. i + 1 \in 0 .. m /\ i + 1 \in 1 .. m /\ (i + 1) - 1 = i /\ i \in 0 .. m
    BY <1>1
  <2>2. z[i + 1] = GuidedTurn(g, goal, k, H, z[i]) /\ z[i] \in S /\ z[i + 1] \in S
    BY <1>15, <2>1
  <2>3. \/ Finished(goal, z[i + 1])
        \/ /\ ~Finished(goal, z[i])
           /\ TurnsLeft(g, z[i + 1].pq, z[i + 1].closed) <= TurnsLeft(g, z[i].pq, z[i].closed) - 1
    BY <2>2, GuidedTurns DEF S, GuidedFinds
  <2>4. Within(i)
    BY <1>17
  <2>5. TurnsLeft(g, z[i + 1].pq, z[i + 1].closed) \in Nat /\ TurnsLeft(g, z[i].pq, z[i].closed) \in Nat
    BY <2>2, TurnsLeftIs DEF S
  <2>6. Within(i + 1)
    BY <1>1, <2>1, <2>3, <2>4, <2>5
  <2> QED  BY <2>1, <2>6
<1>18. \A i \in 0 .. m : i \in T
  <2> HIDE DEF T
  <2> QED  BY <1>1, <1>16, <1>17, SetInductionTo
<1>19. z[m] \in S /\ Within(m)
  <2>1. m \in 0 .. m
    BY <1>1
  <2>2. m \in T
    BY <1>18, <2>1
  <2> QED  BY <1>15, <2>1, <2>2
<1>20. Finished(goal, z[m])
  <2>1. GuidedFinds(g, s, goal, k, a, H, z[m])
    BY <1>19 DEF S
  <2>2. IsFiniteSet(z[m].pq)
    BY <2>1 DEF GuidedFinds, Guided
  <2>3. Cardinality(z[m].pq) \in Nat /\ Cardinality(Waiting(g, z[m].closed)) \in Nat
    <3>1. Cardinality(Waiting(g, z[m].closed)) \in 0 .. Len(g.edges) /\ Len(g.edges) \in Nat
      BY WaitingIs, EdgeIs
    <3> QED  BY <2>2, <3>1, FS_CardinalityType
  <2>4. ASSUME TurnsLeft(g, z[m].pq, z[m].closed) <= m - m PROVE z[m].pq = {}
    <3>1. Cardinality(z[m].pq) = 0
      BY <1>1, <2>3, <2>4 DEF TurnsLeft
    <3> QED  BY <2>2, <3>1, FS_EmptySet
  <2> QED  BY <1>19, <2>4 DEF Finished
<1> QED  BY <1>14, <1>19, <1>20 DEF S

(* The least lengths, one by one.                                          *)
LEMMA ShortestIs ==
  ASSUME NEW g, IsGraph(g), \A e \in EdgesOf(g) : e.weight \in Nat, NEW s
  PROVE  LET best == Shortest(g, s)
         IN  /\ \A p \in SimplePaths(g, s) : Last(p) \in DOMAIN best /\ best[Last(p)] <= Length(g, p)
             /\ \A v \in DOMAIN best :
                  best[v] \in Nat /\ \E p \in SimplePaths(g, s) : Last(p) = v /\ Length(g, p) = best[v]
<1> DEFINE P == SimplePaths(g, s)
           best == Shortest(g, s)
           L(v) == {Length(g, p) : p \in {q \in P : Last(q) = v}}
<1>1. ASSUME NEW p \in P PROVE Length(g, p) \in Nat
  <2>1. PICK c : Costs(g, p, c) /\ Length(g, p) = c[Len(p)]
    BY SimpleCosts
  <2>2. Len(p) \in 1 .. Len(p)
    BY SimpleIs
  <2>3. Guides(g, 1, Unguided(g))
    BY UnguidedIs
  <2> QED  BY <2>1, <2>2, <2>3, CostsRise
<1>2. best = [v \in {Last(p) : p \in P} |-> Min(L(v))]
  BY DEF Shortest
<1>3. ASSUME NEW v \in {Last(p) : p \in P}
      PROVE  best[v] \in L(v) /\ best[v] \in Nat /\ \A x \in L(v) : best[v] <= x
  <2>1. L(v) \subseteq Nat /\ L(v) # {}
    BY <1>1
  <2>2. PICK x \in L(v) : \A y \in L(v) : x <= y
    <3> HIDE DEF L
    <3> QED  BY <2>1, HasLeast
  <2>3. Min(L(v)) = x
    <3> HIDE DEF L
    <3> QED  BY <2>1, <2>2, MinIsLeast
  <2>4. best[v] = x
    BY <1>2, <2>3
  <2> QED  BY <2>1, <2>2, <2>4
<1>4. DOMAIN best = {Last(p) : p \in P}
  BY <1>2
<1> HIDE DEF best
<1>5. ASSUME NEW p \in P PROVE Last(p) \in DOMAIN best /\ best[Last(p)] <= Length(g, p)
  BY <1>3, <1>4
<1>6. ASSUME NEW v \in DOMAIN best
      PROVE  best[v] \in Nat /\ \E p \in P : Last(p) = v /\ Length(g, p) = best[v]
  BY <1>3, <1>4
<1> QED  BY <1>5, <1>6 DEF best

(* The search of astar_search.cpp and of the scripts, with an estimate that*)
(* is scaled up: if the estimate contradicts no edge when each unit of     *)
(* weight is worth a, where priorities count k of it, the search ends with *)
(* the goal closed exactly if it can be reached; a node is closed at a     *)
(* distance of at most a / k times the least, and only if the way over it, *)
(* by the estimate, is worth no more than the least way to the goal at a.  *)
THEOREM GuidedIsRight ==
  ASSUME NEW g, IsGraph(g), NEW k, NEW a, NEW H, Steers(g, k, a, H),
         NEW s \in NodesOf(g), NEW goal \in NodesOf(g)
  PROVE  LET r == guidedSearch(g, s, goal, k, H)
             best == Shortest(g, s)
         IN  /\ Finished(goal, r)
             /\ goal \in r.closed <=> goal \in DOMAIN best
             /\ goal \in DOMAIN r.dist <=> goal \in DOMAIN best
             /\ \A u \in r.closed :
                  /\ u \in DOMAIN best
                  /\ best[u] <= r.dist[u] /\ k * r.dist[u] <= a * best[u]
                  /\ goal \in DOMAIN best => k * best[u] + H[u] <= a * best[goal] + H[goal]
<1> DEFINE r == guidedSearch(g, s, goal, k, H)
           best == Shortest(g, s)
           D == r.dist
           Q == r.pq
           C == r.closed
<1>1. Guided(g, s, goal, k, a, H, D, Q, C) /\ Finished(goal, r)
  BY GuidedRuns DEF GuidedFinds
<1>2. /\ \A e \in EdgesOf(g) : e.weight \in Nat
      /\ Guides(g, a, H) /\ \A v \in NodesOf(g) : H[v] \in Nat
      /\ \A x \in Nat : k * x \in Nat /\ a * x \in Nat
      /\ \A x, y \in Nat : x <= y => k * x <= k * y
  BY SteersIs DEF Measures
<1>3. /\ \A p \in SimplePaths(g, s) : Last(p) \in DOMAIN best /\ best[Last(p)] <= Length(g, p)
      /\ \A v \in DOMAIN best :
           best[v] \in Nat /\ \E p \in SimplePaths(g, s) : Last(p) = v /\ Length(g, p) = best[v]
  BY <1>2, ShortestIs
<1> HIDE DEF r, best, D, Q, C
<1>4. ASSUME NEW v \in DOMAIN D PROVE v \in DOMAIN best /\ best[v] <= D[v] /\ D[v] \in Nat /\ v \in NodesOf(g)
  <2>1. PICK p \in SimplePaths(g, s) : Last(p) = v /\ Length(g, p) <= D[v]
    BY <1>1 DEF Guided, Attained
  <2>2. v \in DOMAIN best /\ best[v] <= Length(g, p) /\ best[v] \in Nat
    BY <1>3, <2>1
  <2>3. D[v] \in Nat /\ v \in NodesOf(g)
    BY <1>1, NatDistIs DEF Guided
  <2>4. Length(g, p) \in Int
    BY SimpleCosts
  <2> QED  BY <2>1, <2>2, <2>3, <2>4
<1>5. ASSUME NEW v \in DOMAIN best
      PROVE  \E p \in SimplePaths(g, s) : \E c :
               Costs(g, p, c) /\ p[Len(p)] = v /\ c[Len(p)] = best[v] /\ Len(p) \in 1 .. Len(p)
  <2>1. PICK p \in SimplePaths(g, s) : Last(p) = v /\ Length(g, p) = best[v]
    BY <1>3
  <2>2. PICK c : Costs(g, p, c) /\ Length(g, p) = c[Len(p)]
    BY SimpleCosts
  <2>3. Len(p) \in 1 .. Len(p) /\ Last(p) = p[Len(p)]
    BY SimpleIs
  <2> QED  BY <2>1, <2>2, <2>3
<1>6. C \subseteq DOMAIN D
  BY <1>1 DEF Guided
<1>7. ASSUME NEW u \in C
      PROVE  /\ u \in DOMAIN best /\ best[u] <= D[u] /\ k * D[u] <= a * best[u]
             /\ goal \in DOMAIN best => k * best[u] + H[u] <= a * best[goal] + H[goal]
  <2>1. /\ u \in DOMAIN best /\ best[u] <= D[u] /\ D[u] \in Nat /\ best[u] \in Nat
        /\ H[u] \in Nat /\ H[goal] \in Nat
    BY <1>2, <1>3, <1>4, <1>6, <1>7
  <2>2. PICK Z \in Nat : D[u] <= Z /\ Bounded(g, s, goal, k, a, H, u, Z)
    BY <1>1, <1>7 DEF Guided, Visited
  <2>3. k * Z <= a * best[u]
    <3>1. PICK p, c :
            p \in SimplePaths(g, s) /\ Costs(g, p, c) /\ p[Len(p)] = u /\ c[Len(p)] = best[u] /\ Len(p) \in 1 .. Len(p)
      BY <1>5, <2>1
    <3> QED  BY <2>2, <3>1 DEF Bounded
  <2>4. ASSUME goal \in DOMAIN best PROVE k * Z + H[u] <= a * best[goal] + H[goal] /\ a * best[goal] \in Nat
    <3>1. PICK p, c :
            p \in SimplePaths(g, s) /\ Costs(g, p, c) /\ p[Len(p)] = goal /\ c[Len(p)] = best[goal] /\ Len(p) \in 1 .. Len(p)
      BY <1>5, <2>4
    <3>2. k * Z + H[u] <= a * c[Len(p)] + H[goal]
      BY <2>2, <3>1 DEF Bounded
    <3>3. best[goal] \in Nat
      BY <1>3, <2>4
    <3> QED  BY <1>2, <3>1, <3>2, <3>3
  <2>5. /\ k * best[u] <= k * D[u] /\ k * D[u] <= k * Z
        /\ k * best[u] \in Nat /\ k * D[u] \in Nat /\ k * Z \in Nat /\ a * best[u] \in Nat
    BY <1>2, <2>1, <2>2
  <2> DEFINE w == k * best[u]  x == k * D[u]  y == k * Z  z == a * best[goal]  t == a * best[u]
  <2>6. /\ w <= x /\ x <= y /\ w \in Nat /\ x \in Nat /\ y \in Nat /\ t \in Nat /\ y <= t
        /\ goal \in DOMAIN best => y + H[u] <= z + H[goal] /\ z \in Nat
    BY <2>3, <2>4, <2>5
  <2> HIDE DEF w, x, y, z, t
  <2>7. x <= t /\ (goal \in DOMAIN best => w + H[u] <= z + H[goal])
    BY <2>1, <2>6
  <2> QED  BY <2>1, <2>7 DEF w, x, z, t
<1>8. goal \in C \/ (goal \notin DOMAIN D /\ goal \notin DOMAIN best)
  <2> SUFFICES ASSUME goal \notin C PROVE goal \notin DOMAIN D /\ goal \notin DOMAIN best
    OBVIOUS
  <2>1. Q = {}
    BY <1>1 DEF Finished, Q, C
  <2>2. DOMAIN D = C
    BY <1>1, <2>1 DEF Guided
  <2>3. ASSUME goal \in DOMAIN best PROVE FALSE
    <3>1. PICK p, c :
            p \in SimplePaths(g, s) /\ Costs(g, p, c) /\ p[Len(p)] = goal /\ c[Len(p)] = best[goal] /\ Len(p) \in 1 .. Len(p)
      BY <1>5, <2>3
    <3>2. \A q \in Q : 0 <= q[1]
      BY <2>1
    <3>3. Q # {}
      BY <1>1, <3>1, <3>2, LeastIsBounded
    <3> QED  BY <2>1, <3>3
  <2> QED  BY <2>2, <2>3
<1> QED  BY <1>1, <1>6, <1>7, <1>8 DEF r, best, D, C

(* With an estimate that contradicts no edge the search is optimal: a closed*)
(* node, the goal above all, has its least distance, and none is closed that*)
(* is, with what is estimated to remain, further than the goal.            *)
THEOREM AStarIsRight ==
  ASSUME NEW g, IsGraph(g), NEW k, NEW H, Guides(g, k, H),
         NEW s \in NodesOf(g), NEW goal \in NodesOf(g)
  PROVE  LET r == guidedSearch(g, s, goal, k, H)
             best == Shortest(g, s)
         IN  /\ goal \in DOMAIN best => goal \in r.closed
             /\ \A u \in r.closed :
                  /\ u \in DOMAIN best /\ r.dist[u] = best[u]
                  /\ goal \in DOMAIN best => k * best[u] + H[u] <= k * best[goal] + H[goal]
<1> DEFINE r == guidedSearch(g, s, goal, k, H)
           best == Shortest(g, s)
<1>1. Steers(g, k, k, H)
  BY DEF Steers, Guides, Measures
<1>2. /\ Finished(goal, r)
      /\ goal \in DOMAIN best => goal \in r.closed
      /\ \A u \in r.closed :
           /\ u \in DOMAIN best
           /\ best[u] <= r.dist[u] /\ k * r.dist[u] <= k * best[u]
           /\ goal \in DOMAIN best => k * best[u] + H[u] <= k * best[goal] + H[goal]
  BY <1>1, GuidedIsRight
<1>3. ASSUME NEW u \in r.closed PROVE r.dist[u] = best[u]
  <2>1. r.dist[u] \in Nat /\ best[u] \in Nat
    <3>1. \A v \in DOMAIN best : best[v] \in Nat
      BY ShortestIs DEF Guides, Measures
    <3>2. GuidedFinds(g, s, goal, k, k, H, r)
      BY <1>1, GuidedRuns
    <3>3. r.closed \subseteq DOMAIN r.dist /\ r.dist \in NatDists(g)
      BY <3>2 DEF GuidedFinds, Guided
    <3> QED  BY <1>2, <3>1, <3>3, NatDistIs
  <2>2. k \in Nat \ {0} /\ best[u] <= r.dist[u] /\ k * r.dist[u] <= k * best[u]
    BY <1>2 DEF Guides, Measures
  <2> HIDE DEF r, best
  <2>3. ASSUME NEW x \in Nat, NEW y \in Nat, x <= y, k * y <= k * x PROVE x = y
    <3>1. ASSUME x < y PROVE FALSE
      <4>1. y = x + (y - x) /\ y - x \in Nat \ {0}
        BY <3>1
      <4>2. k * (x + (y - x)) = k * x + k * (y - x) /\ k * (y - x) >= 1 /\ k * x \in Nat
            /\ k * (y - x) \in Nat
        BY <2>2, <4>1, Products
      <4> DEFINE t == k * (y - x)  w == k * x  z == k * y
      <4>3. z = w + t /\ t >= 1 /\ w \in Nat /\ t \in Nat /\ z <= w
        BY <2>3, <4>1, <4>2
      <4> HIDE DEF t, w, z
      <4> QED  BY <4>3
    <3> QED  BY <2>3, <3>1
  <2> QED  BY <2>1, <2>2, <2>3
<1> QED  BY <1>2, <1>3

-----------------------------------------------------------------------------
(* Every node but the source has a parent, an edge away, that is nearer by *)
(* at least the edge, and no set of nodes is closed under going to the     *)
(* parent.                                                                 *)
Rooted(g, s, D, F) ==
  /\ s \in DOMAIN D /\ D[s] = 0 /\ DOMAIN F = DOMAIN D \ {s}
  /\ \A v \in DOMAIN F :
        /\ F[v] \in DOMAIN D
        /\ \E e \in EdgesOf(g) : e.from = F[v] /\ e.to = v /\ D[F[v]] + e.weight <= D[v]
  /\ \A X \in SUBSET DOMAIN F : (\A v \in X : F[v] \in X) => X = {}

LEMMA RootedOn ==
  ASSUME NEW g, IsGraph(g), \A e \in EdgesOf(g) : e.weight \in Nat,
         NEW s, NEW D \in NatDists(g), NEW F, Rooted(g, s, D, F),
         NEW e \in EdgesOf(g), NEW u, e.from = u, u \in DOMAIN D, Closer(D, e.to, D[u] + e.weight)
  PROVE  Rooted(g, s, With(D, e.to, D[u] + e.weight), With(F, e.to, u))
<1> DEFINE v == e.to
           d == D[u] + e.weight
           N == With(D, v, d)
           M == With(F, v, u)
<1>1. /\ \A x \in DOMAIN D : D[x] \in Nat
      /\ D[u] \in Nat /\ e.weight \in Nat /\ d \in Nat /\ v \in NodesOf(g)
  <2>1. v \in NodesOf(g)
    BY EdgeIs
  <2> QED  BY <2>1, NatDistIs
<1>2. NowAt(g, D, v, d, N)
  BY <1>1, NatWith
<1>3. DOMAIN M = DOMAIN F \cup {v} /\ M[v] = u /\ \A x \in DOMAIN F : x # v => M[x] = F[x]
  BY DEF With
<1>4. /\ s \in DOMAIN D /\ D[s] = 0 /\ DOMAIN F = DOMAIN D \ {s}
      /\ \A x \in DOMAIN F :
            /\ F[x] \in DOMAIN D
            /\ \E f \in EdgesOf(g) : f.from = F[x] /\ f.to = x /\ D[F[x]] + f.weight <= D[x]
      /\ \A X \in SUBSET DOMAIN F : (\A x \in X : F[x] \in X) => X = {}
  BY DEF Rooted
<1>5. v \in DOMAIN D => d < D[v]
  BY DEF Closer
<1> HIDE DEF N, M, v, d
<1>6. v # s /\ v # u
  BY <1>1, <1>4, <1>5 DEF d
<1>7. /\ DOMAIN N = DOMAIN D \cup {v} /\ N[v] = d /\ \A x \in DOMAIN D : x # v => N[x] = D[x]
      /\ \A x \in DOMAIN D : N[x] \in Nat /\ N[x] <= D[x]
  <2>1. DOMAIN N = DOMAIN D \cup {v} /\ N[v] = d /\ \A x \in DOMAIN D : x # v => N[x] = D[x]
    BY <1>2 DEF NowAt
  <2> QED  BY <1>1, <1>5, <2>1
<1>8. s \in DOMAIN N /\ N[s] = 0 /\ DOMAIN M = DOMAIN N \ {s}
  BY <1>3, <1>4, <1>6, <1>7
<1>9. ASSUME NEW x \in DOMAIN M
      PROVE  /\ M[x] \in DOMAIN N
             /\ \E f \in EdgesOf(g) : f.from = M[x] /\ f.to = x /\ N[M[x]] + f.weight <= N[x]
  <2>1. CASE x = v
    <3>1. N[u] = D[u] /\ u \in DOMAIN N /\ M[x] = u /\ N[x] = d
      BY <1>3, <1>6, <1>7, <2>1
    <3> QED  BY <1>1, <2>1, <3>1 DEF v, d
  <2>2. CASE x # v
    <3>1. x \in DOMAIN F /\ M[x] = F[x] /\ N[x] = D[x] /\ x \in DOMAIN D
      BY <1>3, <1>4, <1>7, <2>2
    <3>2. PICK f \in EdgesOf(g) : f.from = F[x] /\ f.to = x /\ D[F[x]] + f.weight <= D[x]
      BY <1>4, <3>1
    <3>3. F[x] \in DOMAIN D /\ N[F[x]] \in Nat /\ N[F[x]] <= D[F[x]] /\ D[F[x]] \in Nat /\ D[x] \in Nat
      BY <1>1, <1>4, <1>7, <3>1
    <3>4. f.weight \in Nat
      OBVIOUS
    <3>5. N[F[x]] + f.weight <= D[x]
      BY <3>2, <3>3, <3>4
    <3> QED  BY <1>7, <3>1, <3>2, <3>3, <3>5
  <2> QED  BY <2>1, <2>2
<1>10. ASSUME NEW X \in SUBSET DOMAIN M, \A x \in X : M[x] \in X PROVE X = {}
  <2>1. CASE v \notin X
    <3>1. X \in SUBSET DOMAIN F /\ \A x \in X : F[x] \in X
      BY <1>3, <1>10, <2>1
    <3> QED  BY <1>4, <3>1
  <2>2. CASE v \in X
    <3> DEFINE Y == {x \in X : x # v /\ D[x] <= D[u]}
    <3>1. u \in Y
      BY <1>1, <1>3, <1>6, <1>10, <2>2
    <3>2. ASSUME NEW x \in Y PROVE x \in DOMAIN F /\ F[x] \in Y
      <4>1. x \in DOMAIN F /\ F[x] = M[x] /\ F[x] \in X /\ x \in DOMAIN D
        BY <1>3, <1>4, <1>10
      <4>2. PICK f \in EdgesOf(g) : f.from = F[x] /\ f.to = x /\ D[F[x]] + f.weight <= D[x]
        BY <1>4, <4>1
      <4>3. F[x] \in DOMAIN D /\ D[F[x]] \in Nat /\ D[x] \in Nat /\ f.weight \in Nat
        BY <1>1, <1>4, <4>1
      <4>4. D[F[x]] <= D[u]
        BY <1>1, <3>2, <4>2, <4>3
      <4>5. F[x] # v
        BY <1>1, <1>5, <4>3, <4>4 DEF d
      <4> QED  BY <4>1, <4>4, <4>5
    <3>3. Y \in SUBSET DOMAIN F
      BY <3>2
    <3> HIDE DEF Y
    <3> QED  BY <1>4, <3>1, <3>2, <3>3
  <2> QED  BY <2>1, <2>2
<1>11. Rooted(g, s, N, M)
  BY <1>8, <1>9, <1>10 DEF Rooted
<1> QED  BY <1>11 DEF N, M, v, d

(* A path that is walked back by the parents.                              *)
LedBack(g, s, F, p) ==
  p \in SimplePaths(g, s) /\ \A i \in 1 .. Len(p) - 1 : p[i + 1] \in DOMAIN F /\ F[p[i + 1]] = p[i]

LEMMA LedBackIsShort ==
  ASSUME NEW g, IsGraph(g), NEW s, NEW D \in NatDists(g), NEW F, Rooted(g, s, D, F),
         NEW p, LedBack(g, s, F, p)
  PROVE  Last(p) \in DOMAIN D /\ Length(g, p) <= D[Last(p)]
<1> DEFINE m == Len(p) - 1
<1>1. /\ Len(p) \in Nat \ {0} /\ p[1] = s /\ Last(p) = p[Len(p)]
      /\ \A i \in 1 .. m : p[i + 1] \in DOMAIN F /\ F[p[i + 1]] = p[i]
  BY SimpleIs DEF LedBack
<1>2. PICK c : Costs(g, p, c) /\ Length(g, p) = c[Len(p)]
  BY SimpleCosts DEF LedBack
<1>3. /\ c \in [1 .. Len(p) -> Int] /\ c[1] = 0
      /\ \A i \in 1 .. m : c[i + 1] = c[i] + WeightOf(g, p[i], p[i + 1])
  BY <1>2 DEF Costs
<1>4. /\ s \in DOMAIN D /\ D[s] = 0
      /\ \A v \in DOMAIN F :
            /\ F[v] \in DOMAIN D /\ v \in DOMAIN D
            /\ \E e \in EdgesOf(g) : e.from = F[v] /\ e.to = v /\ D[F[v]] + e.weight <= D[v]
  BY DEF Rooted
<1> DEFINE Near(i) == p[i + 1] \in DOMAIN D /\ c[i + 1] <= D[p[i + 1]]
           T == {i \in 0 .. m : Near(i)}
<1>5. m \in Nat
  BY <1>1
<1>6. 0 \in T
  BY <1>1, <1>3, <1>4, <1>5
<1>7. ASSUME NEW i \in 0 .. m - 1, i \in T PROVE i + 1 \in T
  <2>1. i + 1 \in 1 .. m /\ i + 1 \in 0 .. m /\ i + 1 \in 1 .. Len(p) /\ (i + 1) + 1 \in 1 .. Len(p)
    BY <1>1
  <2> DEFINE j == i + 1
             u == p[j]
             v == p[j + 1]
  <2>2. c[j + 1] = c[j] + WeightOf(g, u, v) /\ c[j] \in Int /\ c[j + 1] \in Int
    BY <1>3, <2>1
  <2>3. v \in DOMAIN F /\ F[v] = u
    BY <1>1, <2>1
  <2>4. PICK e \in EdgesOf(g) : e.from = u /\ e.to = v /\ D[u] + e.weight <= D[v]
    BY <1>4, <2>3
  <2>5. WeightOf(g, u, v) \in Int /\ WeightOf(g, u, v) <= e.weight /\ e.weight \in Int
    BY <2>4, LightestEdge, EdgeIs
  <2>6. D[u] \in Nat /\ D[v] \in Nat /\ v \in DOMAIN D /\ c[j] <= D[u]
    BY <1>4, <1>7, <2>3, NatDistIs
  <2> HIDE DEF j, u, v
  <2>7. c[j + 1] <= D[v]
    BY <2>2, <2>4, <2>5, <2>6
  <2> QED  BY <2>1, <2>6, <2>7 DEF j, v
<1>8. \A i \in 0 .. m : i \in T
  <2> HIDE DEF T, m
  <2> QED  BY <1>5, <1>6, <1>7, SetInductionTo
<1>9. m \in T /\ m + 1 = Len(p)
  <2>1. m \in 0 .. m
    BY <1>5
  <2>2. m + 1 = Len(p)
    BY <1>1
  <2> QED  BY <1>8, <2>1, <2>2
<1> QED  BY <1>1, <1>2, <1>9

LEMMA WaysLead ==
  ASSUME NEW g, IsGraph(g), NEW s \in NodesOf(g), NEW D \in NatDists(g), NEW F, Rooted(g, s, D, F),
         NEW v \in DOMAIN D
  PROVE  \E p : LedBack(g, s, F, p) /\ Last(p) = v
<1> DEFINE Led(x) == \E p : LedBack(g, s, F, p) /\ Last(p) = x
           X == {x \in DOMAIN D : ~Led(x)}
<1>1. /\ s \in DOMAIN D /\ D[s] = 0 /\ DOMAIN F = DOMAIN D \ {s}
      /\ \A x \in DOMAIN F :
            /\ F[x] \in DOMAIN D
            /\ \E e \in EdgesOf(g) : e.from = F[x] /\ e.to = x /\ D[F[x]] + e.weight <= D[x]
      /\ \A Y \in SUBSET DOMAIN F : (\A x \in Y : F[x] \in Y) => Y = {}
  BY DEF Rooted
<1>2. DOMAIN D \subseteq NodesOf(g)
  BY NatDistIs
<1>3. Led(s)
  <2> DEFINE p == [i \in 1 .. 1 |-> s]
  <2>1. IsSimple(g, s, 1, p)
    BY DEF IsSimple
  <2>2. p \in SimplePaths(g, s) /\ Len(p) = 1 /\ Last(p) = p[1]
    BY <2>1, SimpleMade
  <2>3. LedBack(g, s, F, p)
    BY <2>2 DEF LedBack
  <2> QED  BY <2>2, <2>3
<1>4. ASSUME NEW x \in DOMAIN F, Led(F[x]) PROVE Led(x)
  <2>1. PICK p : LedBack(g, s, F, p) /\ Last(p) = F[x]
    BY <1>4
  <2> DEFINE k == Len(p)
  <2>2. /\ k \in Nat \ {0} /\ p \in [1 .. k -> NodesOf(g)] /\ p[1] = s /\ p[k] = F[x]
        /\ \A i, j \in 1 .. k : p[i] = p[j] => i = j
        /\ \A i \in 1 .. k - 1 : \E e \in EdgesOf(g) : e.from = p[i] /\ e.to = p[i + 1]
        /\ \A i \in 1 .. k - 1 : p[i + 1] \in DOMAIN F /\ F[p[i + 1]] = p[i]
    <3>1. /\ p \in SimplePaths(g, s) /\ Last(p) = F[x]
          /\ \A i \in 1 .. Len(p) - 1 : p[i + 1] \in DOMAIN F /\ F[p[i + 1]] = p[i]
      BY <2>1 DEF LedBack
    <3>2. /\ k \in Nat \ {0} /\ p \in [1 .. k -> NodesOf(g)] /\ p[1] = s /\ p[k] = F[x]
          /\ \A i, j \in 1 .. k : p[i] = p[j] => i = j
          /\ IsPath(g, p)
      BY <3>1, SimpleIs
    <3> QED  BY <3>1, <3>2 DEF IsPath
  <2> HIDE DEF k
  <2>3. CASE \E i \in 1 .. k : p[i] = x
    <3>1. PICK i \in 1 .. k : p[i] = x
      BY <2>3
    <3> DEFINE q == [j \in 1 .. i |-> p[j]]
    <3>2. IsSimple(g, s, i, q)
      <4>1. i \in Nat \ {0} /\ i \in 1 .. k /\ 1 .. i \subseteq 1 .. k /\ 1 .. i - 1 \subseteq 1 .. k - 1
        BY <2>2
      <4>2. q \in [1 .. i -> NodesOf(g)] /\ q[1] = s
        BY <2>2, <4>1
      <4>3. \A j \in 1 .. i : q[j] = p[j]
        OBVIOUS
      <4> HIDE DEF q
      <4>4. \A j, l \in 1 .. i : q[j] = q[l] => j = l
        BY <2>2, <4>1, <4>3
      <4>5. ASSUME NEW j \in 1 .. i - 1 PROVE \E e \in EdgesOf(g) : e.from = q[j] /\ e.to = q[j + 1]
        <5>1. j \in 1 .. i /\ j + 1 \in 1 .. i /\ j \in 1 .. k - 1
          BY <4>1
        <5> QED  BY <2>2, <4>3, <5>1
      <4> QED  BY <4>1, <4>2, <4>4, <4>5 DEF IsSimple
    <3>3. q \in SimplePaths(g, s) /\ Len(q) = i /\ Last(q) = q[i]
      BY <3>2, SimpleMade
    <3>4. \A j \in 1 .. i - 1 : q[j + 1] \in DOMAIN F /\ F[q[j + 1]] = q[j]
      BY <2>2
    <3>5. q[i] = x
      BY <2>2, <3>1
    <3> HIDE DEF q
    <3>6. LedBack(g, s, F, q)
      BY <3>3, <3>4 DEF LedBack
    <3> QED  BY <3>3, <3>5, <3>6
  <2>4. CASE \A i \in 1 .. k : p[i] # x
    <3> DEFINE q == [j \in 1 .. k + 1 |-> IF j = k + 1 THEN x ELSE p[j]]
    <3>1. PICK e \in EdgesOf(g) : e.from = F[x] /\ e.to = x
      BY <1>1
    <3>2. x \in NodesOf(g)
      BY <1>1, <1>2
    <3>3. /\ q \in [1 .. k + 1 -> NodesOf(g)] /\ q[k + 1] = x /\ \A j \in 1 .. k : q[j] = p[j]
      BY <2>2, <3>2
    <3> HIDE DEF q
    <3>4. \A i, j \in 1 .. k + 1 : q[i] = q[j] => i = j
      <4>1. \A i \in 1 .. k + 1 : i \in 1 .. k \/ i = k + 1
        BY <2>2
      <4> QED  BY <2>2, <2>4, <3>3, <4>1
    <3>5. ASSUME NEW i \in 1 .. (k + 1) - 1
          PROVE  /\ \E f \in EdgesOf(g) : f.from = q[i] /\ f.to = q[i + 1]
                 /\ q[i + 1] \in DOMAIN F /\ F[q[i + 1]] = q[i]
      <4>1. CASE i = k
        <5>1. k \in 1 .. k
          BY <2>2
        <5> QED  BY <2>2, <3>1, <3>3, <4>1, <5>1
      <4>2. CASE i # k
        <5>1. i \in 1 .. k - 1 /\ i \in 1 .. k /\ i + 1 \in 1 .. k
          BY <2>2, <4>2
        <5> QED  BY <2>2, <3>3, <5>1
      <4> QED  BY <4>1, <4>2
    <3>6. q[1] = s /\ k + 1 \in Nat \ {0}
      BY <2>2, <3>3
    <3>7. IsSimple(g, s, k + 1, q)
      BY <3>3, <3>4, <3>5, <3>6 DEF IsSimple
    <3>8. q \in SimplePaths(g, s) /\ Len(q) = k + 1 /\ Last(q) = q[k + 1]
      BY <3>7, SimpleMade
    <3>9. LedBack(g, s, F, q)
      BY <3>5, <3>8 DEF LedBack
    <3> QED  BY <3>3, <3>8, <3>9
  <2> QED  BY <2>3, <2>4
<1> HIDE DEF Led
<1>5. X \in SUBSET DOMAIN F /\ \A x \in X : F[x] \in X
  BY <1>1, <1>3, <1>4
<1>6. X = {}
  BY <1>1, <1>5
<1>7. Led(v)
  BY <1>6
<1> QED  BY <1>7 DEF Led

(* What the search keeps whatever the estimate: nodes that are not closed  *)
(* wait in the queue, and the edges of those that are lead to nodes with a *)
(* distance.                                                               *)
Walks(g, s, goal, x) ==
  /\ x \in GuidedStates(g) /\ IsFiniteSet(x.pq)
  /\ Rooted(g, s, x.dist, x.parent)
  /\ x.closed \subseteq DOMAIN x.dist
  /\ \A q \in x.pq : q[2] \in DOMAIN x.dist
  /\ \A v \in DOMAIN x.dist \ x.closed : \E q \in x.pq : q[2] = v
  /\ \A e \in EdgesOf(g) : e.from \in x.closed /\ e.from # goal => e.to \in DOMAIN x.dist

LEMMA OfferedRooted ==
  ASSUME NEW g, IsGraph(g), NEW k, NEW H, Measures(g, k, H), NEW s, NEW C, NEW u, NEW d \in Nat,
         NEW x \in Exploring(g, C, u, d), Rooted(g, s, x.dist, x.parent), NEW e \in EdgesOf(g)
  PROVE  LET y == Offered(x, e, k, H)
         IN  y \in Exploring(g, C, u, d) /\ Rooted(g, s, y.dist, y.parent)
<1> DEFINE nd == x.dist[x.u] + e.weight
           y == Offered(x, e, k, H)
<1>1. y \in Exploring(g, C, u, d)
  BY OfferedOffers
<1>2. x \in GuidedStates(g) /\ x.u = u /\ u \in DOMAIN x.dist /\ x.dist \in NatDists(g)
  BY DEF Exploring, GuidedStates
<1>3. CASE e.from = x.u /\ Closer(x.dist, e.to, nd)
  <2>1. y.dist = With(x.dist, e.to, nd) /\ y.parent = With(x.parent, e.to, x.u)
    BY <1>2, <1>3 DEF Offered, GuidedStates
  <2>2. \A f \in EdgesOf(g) : f.weight \in Nat
    BY DEF Measures
  <2>3. Rooted(g, s, With(x.dist, e.to, nd), With(x.parent, e.to, x.u))
    BY <1>2, <1>3, <2>2, RootedOn
  <2> QED  BY <1>1, <2>1, <2>3
<1>4. CASE ~(e.from = x.u /\ Closer(x.dist, e.to, nd))
  <2>1. y = x
    BY <1>4 DEF Offered
  <2> QED  BY <1>1, <2>1
<1> QED  BY <1>3, <1>4

LEMMA EdgesRooted ==
  ASSUME NEW g, IsGraph(g), NEW k, NEW H, Measures(g, k, H), NEW s, NEW C, NEW u, NEW d \in Nat,
         NEW x \in Exploring(g, C, u, d), Rooted(g, s, x.dist, x.parent)
  PROVE  LET y == EdgesOffered(g, k, H, x) IN Rooted(g, s, y.dist, y.parent)
<1> DEFINE S == {y \in Exploring(g, C, u, d) : Rooted(g, s, y.dist, y.parent)}
<1>1. \A y \in S, e \in EdgesOf(g) : Offered(y, e, k, H) \in S
  BY OfferedRooted
<1>2. x \in S
  OBVIOUS
<1> HIDE DEF S
<1>3. PICK z : OfferStates(g, k, H, S, x, z)
  BY <1>1, <1>2, OffersFold
<1>4. Len(g.edges) \in 0 .. Len(g.edges)
  BY EdgeIs
<1>5. EdgesOffered(g, k, H, x) \in S
  BY <1>3, <1>4 DEF OfferStates
<1> QED  BY <1>5 DEF S

LEMMA WalkTurns ==
  ASSUME NEW g, IsGraph(g), NEW k, NEW H, Measures(g, k, H), NEW s, NEW goal, NEW x,
         Walks(g, s, goal, x)
  PROVE  LET y == GuidedTurn(g, goal, k, H, x)
         IN  /\ Walks(g, s, goal, y)
             /\ \/ Finished(goal, y)
                \/ ~Finished(goal, x) /\ TurnsLeft(g, y.pq, y.closed) <= TurnsLeft(g, x.pq, x.closed) - 1
<1> DEFINE D == x.dist
           Q == x.pq
           C == x.closed
           F == x.parent
           y == GuidedTurn(g, goal, k, H, x)
<1>1. CASE Finished(goal, x)
  <2>1. y = x
    BY <1>1 DEF GuidedTurn
  <2> QED  BY <1>1, <2>1
<1>2. CASE ~Finished(goal, x)
  <2> DEFINE top == Top(Q)
             u == top[2]
             R == Q \ {top}
             B == C \cup {u}
             popped == [x EXCEPT !.pq = R, !.u = u]
             closed == [popped EXCEPT !.closed = B]
  <2>0. Q # {} /\ goal \notin C
    BY <1>2 DEF Finished
  <2>1. /\ x \in GuidedStates(g) /\ D \in NatDists(g) /\ IsFiniteSet(Q) /\ Q \in SUBSET (Nat \X NodesOf(g))
        /\ C \subseteq DOMAIN D /\ \A q \in Q : q[2] \in DOMAIN D
        /\ DOMAIN D \subseteq NodesOf(g) /\ \A v \in DOMAIN D : D[v] \in Nat
        /\ Rooted(g, s, D, F)
        /\ \A v \in DOMAIN D \ C : \E q \in Q : q[2] = v
        /\ \A e \in EdgesOf(g) : e.from \in C /\ e.from # goal => e.to \in DOMAIN D
    <3>1. x \in GuidedStates(g) /\ D \in NatDists(g) /\ Q \in SUBSET (Nat \X NodesOf(g))
      BY DEF Walks, GuidedStates
    <3> QED  BY <3>1, NatDistIs DEF Walks
  <2>2. top \in Q
    <3>1. g.n \in Nat
      BY DEF IsGraph
    <3> QED  BY <2>0, <2>1, <3>1, TopIs
  <2>5. y = IF u \in C THEN popped ELSE IF u = goal THEN closed ELSE EdgesOffered(g, k, H, closed)
    BY <1>2 DEF GuidedTurn
  <2> HIDE DEF top
  <2>3. u \in NodesOf(g) /\ u \in DOMAIN D /\ D[u] \in Nat
    BY <2>1, <2>2
  <2>4. /\ R \in SUBSET (Nat \X NodesOf(g)) /\ IsFiniteSet(R) /\ B \in SUBSET NodesOf(g)
        /\ \A q \in R : q[2] \in DOMAIN D
        /\ \A v \in DOMAIN D \ B : \E q \in R : q[2] = v
    <3>1. R \in SUBSET (Nat \X NodesOf(g)) /\ IsFiniteSet(R) /\ B \in SUBSET NodesOf(g)
      BY <2>1, <2>2, <2>3, FS_RemoveElement
    <3> QED  BY <2>1, <3>1
  <2>6. Cardinality(R) = Cardinality(Q) - 1 /\ Cardinality(Q) \in Nat
    BY <2>1, <2>2, FS_RemoveElement, FS_CardinalityType
  <2> HIDE DEF u, R, B, y
  <2>7. /\ popped \in GuidedStates(g) /\ popped.dist = D /\ popped.pq = R /\ popped.closed = C
        /\ popped.parent = F
    BY <2>1, <2>3, <2>4 DEF GuidedStates
  <2>8. /\ closed \in GuidedStates(g) /\ closed.dist = D /\ closed.pq = R /\ closed.closed = B
        /\ closed.parent = F /\ closed.u = u
    BY <2>1, <2>3, <2>4 DEF GuidedStates
  <2> HIDE DEF popped, closed, D, Q, C, F
  <2>9. CASE u \in C
    <3>1. y = popped /\ B = C
      BY <2>5, <2>9 DEF B
    <3>2. Walks(g, s, goal, y)
      BY <2>1, <2>4, <2>7, <3>1 DEF Walks
    <3>3. TurnsLeft(g, R, C) <= TurnsLeft(g, Q, C) - 1
      <4>1. Cardinality(Waiting(g, C)) \in Nat
        BY WaitingIs
      <4> QED  BY <2>6, <4>1 DEF TurnsLeft
    <3> QED  BY <1>2, <2>7, <3>1, <3>2, <3>3 DEF y, Q, C
  <2>10. CASE u \notin C /\ u = goal
    <3>1. y = closed
      BY <2>5, <2>10
    <3>2. Walks(g, s, goal, y)
      BY <2>1, <2>3, <2>4, <2>8, <2>10, <3>1 DEF Walks, B
    <3>3. Finished(goal, y)
      BY <2>8, <2>10, <3>1 DEF Finished, B
    <3> QED  BY <3>2, <3>3 DEF y
  <2>11. CASE u \notin C /\ u # goal
    <3>1. y = EdgesOffered(g, k, H, closed)
      BY <2>5, <2>11
    <3>2. closed \in Exploring(g, B, u, D[u]) /\ IsFiniteSet(closed.pq)
      BY <2>3, <2>4, <2>8 DEF Exploring
    <3>3. /\ y \in Exploring(g, B, u, D[u])
          /\ Grown(g, u, D[u], k, H, D, R, Len(g.edges), y.dist, y.pq)
      BY <2>3, <2>8, <3>1, <3>2, OfferedAll
    <3>4. Rooted(g, s, y.dist, y.parent)
      BY <2>1, <2>3, <2>8, <3>1, <3>2, EdgesRooted
    <3>5. y \in GuidedStates(g) /\ y.closed = B
      BY <3>3 DEF Exploring
    <3>6. /\ DOMAIN D \subseteq DOMAIN y.dist /\ IsFiniteSet(y.pq) /\ R \subseteq y.pq
          /\ Cardinality(y.pq) <= Cardinality(R) + Cardinality(Leaving(g, u, Len(g.edges)))
          /\ \A j \in Leaving(g, u, Len(g.edges)) : g.edges[j].to \in DOMAIN y.dist
      BY <3>3 DEF Grown, NotFurther
    <3>7. \A q \in y.pq : q[2] \in DOMAIN y.dist
      <4> SUFFICES ASSUME NEW q \in y.pq PROVE q[2] \in DOMAIN y.dist
        OBVIOUS
      <4>1. CASE q \in R
        BY <2>4, <3>6, <4>1
      <4>2. CASE q \notin R
        <5>1. PICK e \in EdgesOf(g) : /\ q = <<Priority(k, H, D[u] + e.weight, e.to), e.to>>
                                      /\ e.to \in DOMAIN y.dist
          BY <3>3, <4>2 DEF Grown
        <5> QED  BY <5>1
      <4> QED  BY <4>1, <4>2
    <3>8. ASSUME NEW v \in DOMAIN y.dist \ B PROVE \E q \in y.pq : q[2] = v
      <4>1. CASE v \in DOMAIN D
        BY <2>4, <3>6, <3>8, <4>1
      <4>2. CASE v \notin DOMAIN D
        <5>1. <<Priority(k, H, y.dist[v], v), v>> \in y.pq
          BY <3>3, <4>2 DEF Grown
        <5> QED  BY <5>1
      <4> QED  BY <4>1, <4>2
    <3>9. ASSUME NEW e \in EdgesOf(g), e.from \in B, e.from # goal PROVE e.to \in DOMAIN y.dist
      <4>1. CASE e.from \in C
        BY <2>1, <3>6, <3>9, <4>1
      <4>2. CASE e.from = u
        <5>1. PICK j \in 1 .. Len(g.edges) : g.edges[j] = e
          BY EdgeIs
        <5> QED  BY <3>6, <4>2, <5>1 DEF Leaving
      <4> QED  BY <3>9, <4>1, <4>2 DEF B
    <3>10. B \subseteq DOMAIN y.dist
      BY <2>1, <2>3, <3>6 DEF B
    <3>11. Walks(g, s, goal, y)
      BY <3>4, <3>5, <3>6, <3>7, <3>8, <3>9, <3>10 DEF Walks
    <3>12. TurnsLeft(g, y.pq, B) <= TurnsLeft(g, Q, C) - 1
      BY <2>1, <2>2, <2>11, <3>6, GrownTurns DEF B, R
    <3> QED  BY <1>2, <3>5, <3>11, <3>12 DEF y, Q, C
  <2> QED  BY <2>9, <2>10, <2>11
<1> QED  BY <1>1, <1>2

LEMMA WalkStarts ==
  ASSUME NEW g, IsGraph(g), NEW k, NEW H, Measures(g, k, H), NEW goal, NEW s \in NodesOf(g)
  PROVE  LET x == GuidedStart(s, H)
         IN  Walks(g, s, goal, x) /\ TurnsLeft(g, x.pq, x.closed) <= Len(g.edges) + 1
<1> DEFINE x == GuidedStart(s, H)
           D == OnlySource(s)
           Q == {<<H[s], s>>}
<1>1. x = [dist |-> D, parent |-> <<>>, closed |-> {}, pq |-> Q, u |-> s]
  BY DEF GuidedStart
<1>2. D \in NatDists(g) /\ DOMAIN D = {s} /\ D[s] = 0
  <2>1. D \in [{s} -> Nat] /\ {s} \in SUBSET NodesOf(g)
    BY DEF OnlySource
  <2>2. DOMAIN D = {s} /\ D[s] = 0
    BY DEF OnlySource
  <2> HIDE DEF D
  <2> QED  BY <2>1, <2>2 DEF NatDists
<1>3. Q \in SUBSET (Nat \X NodesOf(g)) /\ IsFiniteSet(Q) /\ Cardinality(Q) = 1
  <2>1. IsFiniteSet(Q) /\ Cardinality(Q) = 1
    BY FS_Singleton
  <2>2. <<H[s], s>> \in Nat \X NodesOf(g)
    BY DEF Measures
  <2> QED  BY <2>1, <2>2
<1>4. \A q \in Q : q[2] = s
  OBVIOUS
<1>5. <<H[s], s>> \in Q
  OBVIOUS
<1>6. DOMAIN <<>> = {}
  OBVIOUS
<1> HIDE DEF D, Q
<1>7. Rooted(g, s, D, <<>>)
  BY <1>2, <1>6 DEF Rooted
<1>8. TurnsLeft(g, Q, {}) <= Len(g.edges) + 1
  <2>1. Cardinality(Waiting(g, {})) \in 0 .. Len(g.edges) /\ Len(g.edges) \in Nat
    BY WaitingIs, EdgeIs
  <2> QED  BY <1>3, <2>1 DEF TurnsLeft
<1>9. x \in GuidedStates(g)
  BY <1>1, <1>2, <1>3, NoParents DEF GuidedStates
<1>10. x.dist = D /\ x.pq = Q /\ x.closed = {} /\ x.parent = <<>>
  BY <1>1
<1>11. \A v \in DOMAIN D \ {} : \E q \in Q : q[2] = v
  BY <1>2, <1>4, <1>5
<1> HIDE DEF x
<1>12. Walks(g, s, goal, x)
  BY <1>2, <1>3, <1>4, <1>7, <1>9, <1>10, <1>11 DEF Walks
<1> QED  BY <1>8, <1>10, <1>12 DEF x

LEMMA WalkRuns ==
  ASSUME NEW g, IsGraph(g), NEW k, NEW H, Measures(g, k, H), NEW goal, NEW s \in NodesOf(g)
  PROVE  LET x == guidedSearch(g, s, goal, k, H)
         IN  Walks(g, s, goal, x) /\ Finished(goal, x)
<1> DEFINE m == Len(g.edges) + 1
           Z == GuidedStart(s, H)
           S == {x \in GuidedStates(g) : Walks(g, s, goal, x)}
           Left(x) == TurnsLeft(g, x.pq, x.closed)
<1>1. m \in Nat
  BY EdgeIs
<1>2. \A x \in S : GuidedTurn(g, goal, k, H, x) \in S
  BY WalkTurns DEF Walks
<1>3. Z \in S
  BY WalkStarts, ZenonT(60) DEF Walks
<1>4. ASSUME NEW x \in S
      PROVE  /\ Left(x) \in Nat /\ IsFiniteSet(x.pq)
             /\ Cardinality(x.pq) \in Nat /\ Cardinality(x.pq) <= Left(x)
  <2>1. IsFiniteSet(x.pq)
    BY DEF Walks
  <2>2. Cardinality(x.pq) \in Nat /\ Cardinality(Waiting(g, x.closed)) \in Nat
    <3>1. Cardinality(Waiting(g, x.closed)) \in 0 .. Len(g.edges) /\ Len(g.edges) \in Nat
      BY WaitingIs, EdgeIs
    <3> QED  BY <2>1, <3>1, FS_CardinalityType
  <2> QED  BY <2>1, <2>2 DEF TurnsLeft
<1> HIDE DEF S
<1>5. PICK z : TurnStates(g, s, goal, k, H, S, z)
  BY <1>2, <1>3, TurnsFold
<1>6. /\ z \in [0 .. m -> S] /\ z[0] = Z
      /\ \A i \in 1 .. m : z[i] = GuidedTurn(g, goal, k, H, z[i - 1])
      /\ z[m] = guidedSearch(g, s, goal, k, H)
  BY <1>5 DEF TurnStates
<1> DEFINE Within(i) == Finished(goal, z[i]) \/ Left(z[i]) <= m - i
           T == {i \in 0 .. m : Within(i)}
<1>7. 0 \in T
  <2>1. Left(Z) <= m
    BY WalkStarts
  <2>2. m - 0 = m /\ 0 \in 0 .. m
    BY <1>1
  <2> QED  BY <1>6, <2>1, <2>2
<1> HIDE DEF m, Z
<1>8. ASSUME NEW i \in 0 .. m - 1, i \in T PROVE i + 1 \in T
  <2>1. i + 1 \in 0 .. m /\ i + 1 \in 1 .. m /\ (i + 1) - 1 = i /\ i \in 0 .. m
    BY <1>1
  <2>2. z[i + 1] = GuidedTurn(g, goal, k, H, z[i]) /\ z[i] \in S /\ z[i + 1] \in S
    BY <1>6, <2>1
  <2>3. \/ Finished(goal, z[i + 1])
        \/ ~Finished(goal, z[i]) /\ Left(z[i + 1]) <= Left(z[i]) - 1
    BY <2>2, WalkTurns DEF S
  <2>4. Within(i)
    BY <1>8
  <2>5. Left(z[i + 1]) \in Nat /\ Left(z[i]) \in Nat
    BY <1>4, <2>2
  <2>6. Within(i + 1)
    BY <1>1, <2>1, <2>3, <2>4, <2>5
  <2> QED  BY <2>1, <2>6
<1>9. \A i \in 0 .. m : i \in T
  <2> HIDE DEF T
  <2> QED  BY <1>1, <1>7, <1>8, SetInductionTo
<1>10. z[m] \in S /\ Within(m)
  <2>1. m \in 0 .. m
    BY <1>1
  <2>2. m \in T
    BY <1>9, <2>1
  <2> QED  BY <1>6, <2>1, <2>2
<1>11. Finished(goal, z[m])
  <2>1. ASSUME Left(z[m]) <= m - m PROVE z[m].pq = {}
    <3>1. Cardinality(z[m].pq) = 0 /\ IsFiniteSet(z[m].pq)
      BY <1>1, <1>4, <1>10, <2>1
    <3> QED  BY <3>1, FS_EmptySet
  <2> QED  BY <1>10, <2>1 DEF Finished
<1> QED  BY <1>6, <1>10, <1>11 DEF S

(* A search that has not closed the goal has been everywhere.              *)
LEMMA WalkedAll ==
  ASSUME NEW g, IsGraph(g), NEW s, NEW goal, NEW x, Walks(g, s, goal, x), Finished(goal, x),
         goal \notin x.closed, NEW p \in SimplePaths(g, s)
  PROVE  Last(p) \in x.closed
<1> DEFINE m == Len(p) - 1
           T == {i \in 0 .. m : p[i + 1] \in x.closed}
<1>1. x.pq = {}
  BY DEF Finished
<1>2. /\ \A v \in DOMAIN x.dist : v \in x.closed
      /\ \A e \in EdgesOf(g) : e.from \in x.closed /\ e.from # goal => e.to \in DOMAIN x.dist
      /\ s \in DOMAIN x.dist
  BY <1>1 DEF Walks, Rooted
<1>3. /\ Len(p) \in Nat \ {0} /\ p[1] = s /\ Last(p) = p[Len(p)]
      /\ \A i \in 1 .. m : \E e \in EdgesOf(g) : e.from = p[i] /\ e.to = p[i + 1]
  BY SimpleIs DEF IsPath
<1>4. m \in Nat /\ m + 1 = Len(p)
  BY <1>3
<1>5. 0 \in T
  BY <1>2, <1>3, <1>4
<1>6. ASSUME NEW i \in 0 .. m - 1, i \in T PROVE i + 1 \in T
  <2>1. i + 1 \in 1 .. m /\ i + 1 \in 0 .. m
    BY <1>4
  <2>2. PICK e \in EdgesOf(g) : e.from = p[i + 1] /\ e.to = p[(i + 1) + 1]
    BY <1>3, <2>1
  <2>3. e.from \in x.closed /\ e.from # goal
    BY <1>6, <2>2
  <2> QED  BY <1>2, <2>1, <2>2, <2>3
<1>7. \A i \in 0 .. m : i \in T
  <2> HIDE DEF T, m
  <2> QED  BY <1>4, <1>5, <1>6, SetInductionTo
<1>8. m \in T
  BY <1>4, <1>7
<1> QED  BY <1>3, <1>4, <1>8

(* The parents kept by the search of astar_search.cpp and of the scripts:  *)
(* from every node that was reached, and from the goal if there is a way to*)
(* it, they lead back to the start along a simple path that is no longer   *)
(* than the distance kept.                                                 *)
THEOREM WaysLeadBack ==
  ASSUME NEW g, IsGraph(g), NEW k, NEW H, Measures(g, k, H),
         NEW s \in NodesOf(g), NEW goal \in NodesOf(g)
  PROVE  LET r == guidedSearch(g, s, goal, k, H)
         IN  /\ Finished(goal, r)
             /\ goal \in r.closed <=> goal \in DOMAIN Shortest(g, s)
             /\ goal \in DOMAIN r.dist <=> goal \in DOMAIN Shortest(g, s)
             /\ DOMAIN r.parent = DOMAIN r.dist \ {s}
             /\ \A v \in DOMAIN r.dist :
                  \E p \in SimplePaths(g, s) :
                     /\ Last(p) = v /\ Length(g, p) <= r.dist[v]
                     /\ \A i \in 1 .. Len(p) - 1 : r.parent[p[i + 1]] = p[i]
<1> DEFINE r == guidedSearch(g, s, goal, k, H)
<1>1. Walks(g, s, goal, r) /\ Finished(goal, r)
  BY WalkRuns
<1> HIDE DEF r
<1>2. r.dist \in NatDists(g) /\ Rooted(g, s, r.dist, r.parent) /\ r.closed \subseteq DOMAIN r.dist
  BY <1>1 DEF Walks, GuidedStates
<1>3. DOMAIN r.parent = DOMAIN r.dist \ {s}
  BY <1>2 DEF Rooted
<1>4. ASSUME NEW v \in DOMAIN r.dist
      PROVE  \E p \in SimplePaths(g, s) :
                /\ Last(p) = v /\ Length(g, p) <= r.dist[v]
                /\ \A i \in 1 .. Len(p) - 1 : r.parent[p[i + 1]] = p[i]
  <2>1. PICK p : LedBack(g, s, r.parent, p) /\ Last(p) = v
    BY <1>2, WaysLead
  <2>2. Length(g, p) <= r.dist[v]
    BY <1>2, <2>1, LedBackIsShort
  <2> QED  BY <2>1, <2>2 DEF LedBack
<1>5. \A v : v \in DOMAIN Shortest(g, s) <=> \E p \in SimplePaths(g, s) : Last(p) = v
  BY DEF Shortest
<1>6. goal \in DOMAIN r.dist => goal \in DOMAIN Shortest(g, s)
  BY <1>4, <1>5
<1>7. goal \in DOMAIN Shortest(g, s) => goal \in r.closed
  BY <1>1, <1>5, WalkedAll
<1> QED  BY <1>1, <1>2, <1>3, <1>4, <1>6, <1>7 DEF r

-----------------------------------------------------------------------------
(* The edges of a graph followed from Z one after another, within S.       *)
ReachStates(g, S, Z, z) ==
  /\ z \in [0 .. Len(g.edges) -> S] /\ z[0] = Z
  /\ \A i \in 1 .. Len(g.edges) : z[i] = Reached(z[i - 1], g.edges[i])
  /\ z[Len(g.edges)] = FoldLeft(Reached, Z, g.edges)

LEMMA ReachesFold ==
  ASSUME NEW g, IsGraph(g), NEW S, NEW Z \in S,
         \A x \in S, e \in EdgesOf(g) : Reached(x, e) \in S
  PROVE  \E z : ReachStates(g, S, Z, z)
<1> DEFINE E == g.edges
           m == Len(E)
           G == [i \in 1 .. m |-> [x \in S |-> Reached(x, E[i])]]
           It(f) == f = [s \in SUBSET DOMAIN E |->
                           IF s = {} THEN Z
                           ELSE LET x == Max(s) IN Reached(f[s \ {x}], E[x])]
           fold == CHOOSE f : It(f)
           whole == FoldLeft(Reached, Z, g.edges)
<1>1. m \in Nat /\ DOMAIN E = 1 .. m /\ \A i \in 1 .. m : E[i] \in EdgesOf(g)
  BY EdgeIs
<1>2. \A i \in 1 .. m, x \in S : Reached(x, E[i]) \in S
  BY <1>1
<1>3. whole = fold[1 .. m]
  BY <1>1 DEF FoldLeft, MapThenFoldSet
<1>4. \A s : Max(s) = LastOf(s)
  BY DEF Max, LastOf
<1> HIDE DEF E, m, fold, whole
<1>5. G \in [1 .. m -> [S -> S]]
  BY <1>2
<1>6. \A i \in 1 .. m, x \in S : G[i][x] = Reached(x, E[i])
  OBVIOUS
<1> HIDE DEF G
<1>7. Z \in S
  OBVIOUS
<1>8. PICK f : FoldsOn(f, S, Z, G, m)
  BY <1>1, <1>5, <1>7, FoldExists
<1>9. It(f)
  <2>1. ASSUME NEW s \in SUBSET (1 .. m), s # {}
        PROVE  G[LastOf(s)][f[s \ {LastOf(s)}]] = Reached(f[s \ {Max(s)}], E[Max(s)])
    <3>1. LastOf(s) \in 1 .. m
      BY <1>1, <2>1, LastIs
    <3>2. f[s \ {LastOf(s)}] \in S
      BY <1>8 DEF FoldsOn
    <3> QED  BY <1>4, <1>6, <3>1, <3>2
  <2>2. f = [s \in SUBSET (1 .. m) |-> IF s = {} THEN Z ELSE Reached(f[s \ {Max(s)}], E[Max(s)])]
    <3>1. f = [s \in SUBSET (1 .. m) |-> f[s]]
      BY <1>8 DEF FoldsOn
    <3>2. \A s \in SUBSET (1 .. m) : f[s] = IF s = {} THEN Z ELSE Reached(f[s \ {Max(s)}], E[Max(s)])
      BY <1>8, <2>1 DEF FoldsOn
    <3> QED  BY <3>1, <3>2
  <2> QED  BY <1>1, <2>2
<1>10. It(fold)
  BY <1>9 DEF fold
<1>11. fold[{}] = Z
  BY <1>10
<1>12. ASSUME NEW i \in 0 .. m - 1, fold[1 .. i] \in S
       PROVE  fold[1 .. i + 1] = G[i + 1][fold[1 .. i]]
  <2>1. 1 .. i + 1 \in SUBSET DOMAIN E /\ 1 .. i + 1 # {}
    <3>1. 1 .. i + 1 \subseteq 1 .. m /\ 1 \in 1 .. i + 1
      BY <1>1
    <3> QED  BY <1>1, <3>1
  <2>2. Max(1 .. i + 1) = i + 1 /\ (1 .. i + 1) \ {i + 1} = 1 .. i
    <3>1. i \in Nat
      BY <1>1
    <3> QED  BY <1>4, <3>1, LastOfAll
  <2>3. fold[1 .. i + 1] = Reached(fold[(1 .. i + 1) \ {Max(1 .. i + 1)}], E[Max(1 .. i + 1)])
    BY <1>10, <2>1
  <2>4. i + 1 \in 1 .. m
    BY <1>1
  <2> QED  BY <1>6, <1>12, <2>2, <2>3, <2>4
<1> DEFINE z == [i \in 0 .. m |-> fold[1 .. i]]
<1>13. Folds(z, S, Z, G, m)
  BY <1>1, <1>5, <1>7, <1>11, <1>12, FoldSteps
<1>14. z[m] = whole
  BY <1>1, <1>3
<1> HIDE DEF z
<1>15. /\ z \in [0 .. m -> S] /\ z[0] = Z
       /\ \A i \in 1 .. m : z[i] = Reached(z[i - 1], E[i])
  <2>1. z \in [0 .. m -> S] /\ z[0] = Z
    BY <1>13 DEF Folds
  <2>2. \A i \in 1 .. m : z[i - 1] \in S /\ z[i] = G[i][z[i - 1]]
    BY <1>1, <1>13, <2>1 DEF Folds
  <2> QED  BY <1>6, <2>1, <2>2
<1> QED  BY <1>14, <1>15 DEF ReachStates, m, E, whole

(* The turns of bfs, within S.                                             *)
BfsRun(g, far, s, S, z) ==
  LET m == g.n
  IN  /\ z \in [0 .. m -> S] /\ z[0] = BfsStart(s)
      /\ \A i \in 1 .. m : z[i] = BfsTurn(g, far, z[i - 1])
      /\ z[m] = bfsSearch(g, far, s)

LEMMA BfsFolds ==
  ASSUME NEW g, IsGraph(g), NEW far, NEW s, NEW S, BfsStart(s) \in S,
         \A x \in S : BfsTurn(g, far, x) \in S
  PROVE  \E z : BfsRun(g, far, s, S, z)
<1> DEFINE E == [i \in 1 .. g.n |-> i]
           m == g.n
           Z == BfsStart(s)
           G == [i \in 1 .. m |-> [x \in S |-> BfsTurn(g, far, x)]]
           It(f) == f = [r \in SUBSET DOMAIN E |->
                           IF r = {} THEN Z
                           ELSE LET x == Max(r) IN BfsTurn(g, far, f[r \ {x}])]
           fold == CHOOSE f : It(f)
<1>1. m \in Nat /\ DOMAIN E = 1 .. m
  BY DEF IsGraph
<1>3. bfsSearch(g, far, s) = fold[1 .. m]
  BY <1>1 DEF bfsSearch, FoldLeft, MapThenFoldSet
<1>4. \A r : Max(r) = LastOf(r)
  BY DEF Max, LastOf
<1>7. Z \in S
  OBVIOUS
<1> HIDE DEF E, m, Z, fold
<1>5. G \in [1 .. m -> [S -> S]]
  OBVIOUS
<1>6. \A i \in 1 .. m, x \in S : G[i][x] = BfsTurn(g, far, x)
  OBVIOUS
<1> HIDE DEF G
<1>8. PICK f : FoldsOn(f, S, Z, G, m)
  BY <1>1, <1>5, <1>7, FoldExists
<1>9. It(f)
  <2>1. ASSUME NEW r \in SUBSET (1 .. m), r # {}
        PROVE  G[LastOf(r)][f[r \ {LastOf(r)}]] = BfsTurn(g, far, f[r \ {Max(r)}])
    <3>1. LastOf(r) \in 1 .. m
      BY <1>1, <2>1, LastIs
    <3>2. f[r \ {LastOf(r)}] \in S
      BY <1>8 DEF FoldsOn
    <3> QED  BY <1>4, <1>6, <3>1, <3>2
  <2>2. f = [r \in SUBSET (1 .. m) |-> IF r = {} THEN Z ELSE BfsTurn(g, far, f[r \ {Max(r)}])]
    <3>1. f = [r \in SUBSET (1 .. m) |-> f[r]]
      BY <1>8 DEF FoldsOn
    <3>2. \A r \in SUBSET (1 .. m) : f[r] = IF r = {} THEN Z ELSE BfsTurn(g, far, f[r \ {Max(r)}])
      BY <1>8, <2>1 DEF FoldsOn
    <3> QED  BY <3>1, <3>2
  <2> QED  BY <1>1, <2>2
<1>10. It(fold)
  BY <1>9 DEF fold
<1>11. fold[{}] = Z
  BY <1>10
<1>12. ASSUME NEW i \in 0 .. m - 1, fold[1 .. i] \in S
       PROVE  fold[1 .. i + 1] = G[i + 1][fold[1 .. i]]
  <2>1. 1 .. i + 1 \in SUBSET DOMAIN E /\ 1 .. i + 1 # {}
    <3>1. 1 .. i + 1 \subseteq 1 .. m /\ 1 \in 1 .. i + 1
      BY <1>1
    <3> QED  BY <1>1, <3>1
  <2>2. Max(1 .. i + 1) = i + 1 /\ (1 .. i + 1) \ {i + 1} = 1 .. i
    <3>1. i \in Nat
      BY <1>1
    <3> QED  BY <1>4, <3>1, LastOfAll
  <2>3. fold[1 .. i + 1] = BfsTurn(g, far, fold[(1 .. i + 1) \ {Max(1 .. i + 1)}])
    BY <1>10, <2>1
  <2>4. i + 1 \in 1 .. m
    BY <1>1
  <2> QED  BY <1>6, <1>12, <2>2, <2>3, <2>4
<1> DEFINE z == [i \in 0 .. m |-> fold[1 .. i]]
<1>13. Folds(z, S, Z, G, m)
  BY <1>1, <1>5, <1>7, <1>11, <1>12, FoldSteps
<1>14. z[m] = bfsSearch(g, far, s)
  BY <1>1, <1>3
<1> HIDE DEF z
<1>15. /\ z \in [0 .. m -> S] /\ z[0] = Z
       /\ \A i \in 1 .. m : z[i] = BfsTurn(g, far, z[i - 1])
  <2>1. z \in [0 .. m -> S] /\ z[0] = Z
    BY <1>13 DEF Folds
  <2>2. \A i \in 1 .. m : z[i - 1] \in S /\ z[i] = G[i][z[i - 1]]
    BY <1>1, <1>13, <2>1 DEF Folds
  <2> QED  BY <1>6, <2>1, <2>2
<1> QED  BY <1>14, <1>15 DEF BfsRun, m, Z

(* A graph with each edge worth one, where lengths are numbers of edges.   *)
HopOf(e) == [from |-> e.from, to |-> e.to, weight |-> 1]
Hops(g) == [n |-> g.n, edges |-> [i \in 1 .. Len(g.edges) |-> HopOf(g.edges[i])]]

LEMMA HopsIs ==
  ASSUME NEW g, IsGraph(g)
  PROVE  /\ IsGraph(Hops(g)) /\ NodesOf(Hops(g)) = NodesOf(g) /\ NatDists(Hops(g)) = NatDists(g)
         /\ \A e \in EdgesOf(Hops(g)) : e.weight = 1 /\ e.weight \in Nat
         /\ \A e \in EdgesOf(g) : HopOf(e) \in EdgesOf(Hops(g))
         /\ \A f \in EdgesOf(Hops(g)) : \E e \in EdgesOf(g) : f = HopOf(e)
         /\ \A s : SimplePaths(Hops(g), s) = SimplePaths(g, s)
<1> DEFINE u == Hops(g)
           m == Len(g.edges)
<1>1. /\ m \in Nat
      /\ \A i \in 1 .. m : g.edges[i] \in EdgesOf(g)
      /\ \A e \in EdgesOf(g) : /\ \E i \in 1 .. m : g.edges[i] = e
                               /\ e.from \in NodesOf(g) /\ e.to \in NodesOf(g)
  BY EdgeIs
<1>2. u.n = g.n /\ u.edges = [i \in 1 .. m |-> HopOf(g.edges[i])]
  BY DEF Hops
<1>3. NodesOf(u) = NodesOf(g)
  BY <1>2 DEF NodesOf
<1>4. u.edges \in Seq([from : NodesOf(g), to : NodesOf(g), weight : Int]) /\ Len(u.edges) = m
  <2>1. \A e \in EdgesOf(g) : HopOf(e) \in [from : NodesOf(g), to : NodesOf(g), weight : Int]
    BY <1>1 DEF HopOf
  <2> QED  BY <1>1, <1>2, <2>1
<1>5. IsGraph(u)
  BY <1>2, <1>3, <1>4 DEF IsGraph
<1>6. /\ \A f \in EdgesOf(u) : \E e \in EdgesOf(g) : f = HopOf(e)
      /\ \A e \in EdgesOf(g) : HopOf(e) \in EdgesOf(u)
  <2>1. /\ \A i \in 1 .. m : u.edges[i] \in EdgesOf(u)
        /\ \A f \in EdgesOf(u) : \E i \in 1 .. m : u.edges[i] = f
    BY <1>4, <1>5, EdgeIs
  <2> HIDE DEF u, m
  <2> QED  BY <1>1, <1>2, <2>1
<1>7. \A e \in EdgesOf(u) : e.weight = 1 /\ e.weight \in Nat
  BY <1>6 DEF HopOf
<1>8. \A p : IsPath(u, p) <=> IsPath(g, p)
  <2>1. \A x, y : (\E f \in EdgesOf(u) : f.from = x /\ f.to = y)
                    <=> (\E e \in EdgesOf(g) : e.from = x /\ e.to = y)
    <3>1. \A e : HopOf(e).from = e.from /\ HopOf(e).to = e.to
      BY DEF HopOf
    <3> QED  BY <1>6, <3>1
  <2> QED  BY <2>1, ZenonT(60) DEF IsPath
<1>9. \A s : SimplePaths(u, s) = SimplePaths(g, s)
  BY <1>2, <1>3, <1>8 DEF SimplePaths
<1>10. NatDists(u) = NatDists(g)
  BY <1>3 DEF NatDists
<1> QED  BY <1>3, <1>5, <1>6, <1>7, <1>9, <1>10

BfsStates(g) == [dist : NatDists(g), parent : Parents(g), q : Seq(NodesOf(g)), u : NodesOf(g)]
InQueue(x, v) == \E i \in 1 .. Len(x.q) : x.q[i] = v

(* The queue is in the order of the distances, which are all those up to   *)
(* low, that of its head or less, or one more.                             *)
Queued(g, s, far, low, x) ==
  /\ x \in BfsStates(g) /\ Rooted(Hops(g), s, x.dist, x.parent)
  /\ \A i \in 1 .. Len(x.q) : x.q[i] \in DOMAIN x.dist /\ low <= x.dist[x.q[i]]
  /\ \A i, j \in 1 .. Len(x.q) : i <= j => x.dist[x.q[i]] <= x.dist[x.q[j]]
  /\ \A v \in DOMAIN x.dist : x.dist[v] <= far /\ x.dist[v] <= low + 1

(* The edges of the nodes that have left it, but not of those of X, have   *)
(* been followed.                                                          *)
Followed(g, far, X, x) ==
  \A e \in EdgesOf(g) :
     e.from \in DOMAIN x.dist \ X /\ ~InQueue(x, e.from) /\ x.dist[e.from] < far =>
       e.to \in DOMAIN x.dist /\ x.dist[e.to] <= x.dist[e.from] + 1

BfsLeft(g, x) == Cardinality(NodesOf(g) \ DOMAIN x.dist) + Len(x.q)

Busy(g, s, far, u, low, left) ==
  {x \in BfsStates(g) :
     /\ x.u = u /\ u \in DOMAIN x.dist /\ x.dist[u] = low
     /\ Queued(g, s, far, low, x) /\ Followed(g, far, {u}, x) /\ BfsLeft(g, x) = left}

LEMMA ReachedBusy ==
  ASSUME NEW g, IsGraph(g), NEW s, NEW far \in Nat, NEW u, NEW low \in Nat, low < far, NEW left,
         NEW x \in Busy(g, s, far, u, low, left), NEW e \in EdgesOf(g)
  PROVE  LET y == Reached(x, e)
         IN  /\ y \in Busy(g, s, far, u, low, left)
             /\ DOMAIN x.dist \subseteq DOMAIN y.dist
             /\ e.from = u => e.to \in DOMAIN y.dist
<1> DEFINE v == e.to
           D == x.dist
           F == x.parent
           Q == x.q
           y == Reached(x, e)
<1>1. /\ x \in BfsStates(g) /\ x.u = u /\ u \in DOMAIN D /\ D[u] = low
      /\ Queued(g, s, far, low, x) /\ Followed(g, far, {u}, x) /\ BfsLeft(g, x) = left
  BY DEF Busy
<1>2. CASE ~(e.from = u /\ v \notin DOMAIN D)
  <2>1. y = x
    BY <1>1, <1>2 DEF Reached
  <2> QED  BY <1>2, <2>1
<1>3. CASE e.from = u /\ v \notin DOMAIN D
  <2> DEFINE d == low + 1
             N == With(D, v, d)
             M == With(F, v, u)
             P == Append(Q, v)
  <2>1. y = [x EXCEPT !.dist = N, !.parent = M, !.q = P]
    BY <1>1, <1>3 DEF Reached
  <2>2. /\ D \in NatDists(g) /\ F \in Parents(g) /\ Q \in Seq(NodesOf(g)) /\ u \in NodesOf(g)
        /\ Rooted(Hops(g), s, D, F)
        /\ \A i \in 1 .. Len(Q) : Q[i] \in DOMAIN D /\ low <= D[Q[i]]
        /\ \A i, j \in 1 .. Len(Q) : i <= j => D[Q[i]] <= D[Q[j]]
        /\ \A w \in DOMAIN D : D[w] <= far /\ D[w] <= low + 1
    BY <1>1 DEF Queued, BfsStates
  <2>3. v \in NodesOf(g) /\ d \in Nat /\ d <= far
    <3>1. v \in NodesOf(g)
      BY EdgeIs
    <3> QED  BY <3>1
  <2>4. /\ N \in NatDists(g) /\ DOMAIN N = DOMAIN D \cup {v} /\ N[v] = d
        /\ \A w \in DOMAIN D : w # v /\ N[w] = D[w]
    <3>1. NowAt(g, D, v, d, N)
      BY <2>2, <2>3, NatWith
    <3> QED  BY <1>3, <3>1 DEF NowAt
  <2>5. M \in Parents(g)
    BY <2>2, <2>3, ParentWith
  <2>6. /\ P \in Seq(NodesOf(g)) /\ Len(P) = Len(Q) + 1 /\ P[Len(Q) + 1] = v /\ Len(Q) \in Nat
        /\ \A i \in 1 .. Len(Q) : P[i] = Q[i]
    BY <2>2, <2>3
  <2>7. Rooted(Hops(g), s, N, M)
    <3>1. /\ IsGraph(Hops(g)) /\ NatDists(Hops(g)) = NatDists(g)
          /\ \A f \in EdgesOf(Hops(g)) : f.weight \in Nat
          /\ HopOf(e) \in EdgesOf(Hops(g))
      BY HopsIs
    <3> DEFINE f == HopOf(e)
    <3>2. f.from = u /\ f.to = v /\ f.weight = 1
      BY <1>3 DEF HopOf
    <3>3. Closer(D, v, D[u] + 1)
      BY <1>3 DEF Closer
    <3> HIDE DEF f, v
    <3>4. Rooted(Hops(g), s, With(D, f.to, D[u] + f.weight), With(F, f.to, u))
      BY <1>1, <2>2, <3>1, <3>2, <3>3, RootedOn DEF f
    <3> QED  BY <1>1, <3>2, <3>4
  <2> HIDE DEF N, M, P, d
  <2>8. y \in BfsStates(g) /\ y.dist = N /\ y.parent = M /\ y.q = P /\ y.u = u
    BY <1>1, <2>1, <2>4, <2>5, <2>6 DEF BfsStates
  <2> HIDE DEF y, v, D, Q
  <2>9. Queued(g, s, far, low, y)
    <3>1. \A i \in 1 .. Len(P) : i \in 1 .. Len(Q) \/ i = Len(Q) + 1
      BY <2>6
    <3>2. \A i \in 1 .. Len(P) : P[i] \in DOMAIN N /\ low <= N[P[i]]
      BY <2>2, <2>3, <2>4, <2>6, <3>1 DEF d
    <3>3. \A w \in DOMAIN N : N[w] <= far /\ N[w] <= low + 1
      BY <2>2, <2>3, <2>4 DEF d
    <3>4. ASSUME NEW i \in 1 .. Len(P), NEW j \in 1 .. Len(P), i <= j PROVE N[P[i]] <= N[P[j]]
      <4>1. CASE j \in 1 .. Len(Q)
        <5>1. i \in 1 .. Len(Q)
          BY <2>6, <3>4, <4>1
        <5> QED  BY <2>2, <2>4, <2>6, <3>4, <4>1, <5>1
      <4>2. CASE j = Len(Q) + 1
        <5>1. N[P[j]] = low + 1
          BY <2>4, <2>6, <4>2 DEF d
        <5> QED  BY <3>2, <3>3, <5>1
      <4> QED  BY <3>1, <4>1, <4>2
    <3> QED  BY <2>7, <2>8, <3>2, <3>3, <3>4 DEF Queued
  <2>10. Followed(g, far, {u}, y)
    <3> SUFFICES ASSUME NEW f \in EdgesOf(g), f.from \in DOMAIN N \ {u}, ~InQueue(y, f.from), N[f.from] < far
                 PROVE  f.to \in DOMAIN N /\ N[f.to] <= N[f.from] + 1
      BY <2>8 DEF Followed
    <3>1. Len(Q) + 1 \in 1 .. Len(P) /\ \A i \in 1 .. Len(Q) : i \in 1 .. Len(P)
      BY <2>6
    <3>2. f.from # v /\ ~InQueue(x, f.from)
      BY <2>6, <2>8, <3>1 DEF InQueue, Q
    <3>3. f.from \in DOMAIN D \ {u} /\ D[f.from] < far /\ N[f.from] = D[f.from]
      BY <2>4, <3>2
    <3>4. f.to \in DOMAIN D /\ D[f.to] <= D[f.from] + 1
      BY <1>1, <3>2, <3>3 DEF Followed, D
    <3> QED  BY <2>4, <3>3, <3>4
  <2>11. BfsLeft(g, y) = left
    <3> DEFINE A == NodesOf(g) \ DOMAIN D
               B == NodesOf(g) \ DOMAIN N
    <3>1. IsFiniteSet(A) /\ v \in A /\ B = A \ {v}
      <4>1. IsFiniteSet(NodesOf(g))
        BY NodesFinite DEF IsGraph
      <4>2. IsFiniteSet(A)
        BY <4>1, FS_Difference
      <4> QED  BY <1>3, <2>3, <2>4, <4>2
    <3>2. Cardinality(B) = Cardinality(A) - 1 /\ Cardinality(A) \in Nat
      BY <3>1, FS_RemoveElement, FS_CardinalityType
    <3>3. left = Cardinality(A) + Len(Q)
      BY <1>1 DEF BfsLeft, D, Q
    <3>4. BfsLeft(g, y) = Cardinality(B) + Len(P)
      BY <2>8 DEF BfsLeft
    <3> QED  BY <2>6, <3>2, <3>3, <3>4
  <2>12. u \in DOMAIN N /\ N[u] = low
    BY <1>1, <2>4 DEF D
  <2>13. y \in Busy(g, s, far, u, low, left)
    BY <2>8, <2>9, <2>10, <2>11, <2>12 DEF Busy
  <2> QED  BY <2>4, <2>8, <2>13 DEF y, v, D
<1> QED  BY <1>2, <1>3

(* All the edges, at a node.                                               *)
LEMMA ReachedAll ==
  ASSUME NEW g, IsGraph(g), NEW s, NEW far \in Nat, NEW u, NEW low \in Nat, low < far, NEW left,
         NEW x \in Busy(g, s, far, u, low, left)
  PROVE  LET y == FoldLeft(Reached, x, g.edges)
         IN  y \in BfsStates(g) /\ Queued(g, s, far, low, y) /\ Followed(g, far, {}, y) /\ BfsLeft(g, y) = left
<1> DEFINE m == Len(g.edges)
           S == Busy(g, s, far, u, low, left)
           y == FoldLeft(Reached, x, g.edges)
<1>1. m \in Nat /\ \A i \in 1 .. m : g.edges[i] \in EdgesOf(g)
  BY EdgeIs
<1>2. \A w \in S, e \in EdgesOf(g) :
        /\ Reached(w, e) \in S
        /\ DOMAIN w.dist \subseteq DOMAIN Reached(w, e).dist
        /\ e.from = u => e.to \in DOMAIN Reached(w, e).dist
  BY ReachedBusy
<1>3. x \in S
  OBVIOUS
<1> HIDE DEF S, m
<1>4. PICK z : ReachStates(g, S, x, z)
  BY <1>2, <1>3, ReachesFold
<1>5. /\ z \in [0 .. m -> S] /\ z[0] = x /\ z[m] = y
      /\ \A i \in 1 .. m : z[i] = Reached(z[i - 1], g.edges[i])
  BY <1>4 DEF ReachStates, m
<1> DEFINE Far(i) == \A j \in 1 .. i : g.edges[j].from = u => g.edges[j].to \in DOMAIN z[i].dist
           T == {i \in 0 .. m : Far(i)}
<1> HIDE DEF y
<1>6. 0 \in T
  BY <1>1
<1>7. ASSUME NEW i \in 0 .. m - 1, i \in T PROVE i + 1 \in T
  <2>1. i + 1 \in 0 .. m /\ i + 1 \in 1 .. m /\ (i + 1) - 1 = i /\ i \in 0 .. m
    BY <1>1
  <2>2. z[i] \in S /\ z[i + 1] = Reached(z[i], g.edges[i + 1]) /\ g.edges[i + 1] \in EdgesOf(g)
    BY <1>1, <1>5, <2>1
  <2>3. /\ DOMAIN z[i].dist \subseteq DOMAIN z[i + 1].dist
        /\ g.edges[i + 1].from = u => g.edges[i + 1].to \in DOMAIN z[i + 1].dist
    BY <1>2, <2>2
  <2>4. \A j \in 1 .. i + 1 : j \in 1 .. i \/ j = i + 1
    BY <2>1
  <2>5. Far(i + 1)
    BY <1>7, <2>3, <2>4
  <2> QED  BY <2>1, <2>5
<1>8. \A i \in 0 .. m : i \in T
  <2> HIDE DEF T
  <2> QED  BY <1>1, <1>6, <1>7, SetInductionTo
<1>9. y \in S /\ Far(m)
  <2>1. m \in 0 .. m
    BY <1>1
  <2> QED  BY <1>5, <1>8, <2>1
<1>10. /\ y \in BfsStates(g) /\ Queued(g, s, far, low, y) /\ Followed(g, far, {u}, y)
       /\ BfsLeft(g, y) = left /\ u \in DOMAIN y.dist /\ y.dist[u] = low
       /\ \A v \in DOMAIN y.dist : y.dist[v] <= low + 1
  BY <1>9 DEF S, Busy, Queued
<1>11. ASSUME NEW e \in EdgesOf(g), e.from = u PROVE e.to \in DOMAIN y.dist
  <2>1. PICK j \in 1 .. m : g.edges[j] = e
    BY EdgeIs DEF m
  <2> QED  BY <1>5, <1>9, <1>11, <2>1
<1>12. Followed(g, far, {}, y)
  BY <1>10, <1>11 DEF Followed
<1> QED  BY <1>10, <1>12 DEF y

Bfs(g, s, far, x) ==
  \E low \in Nat : Queued(g, s, far, low, x) /\ Followed(g, far, {}, x)

LEMMA BfsTurns ==
  ASSUME NEW g, IsGraph(g), NEW s, NEW far \in Nat, NEW x, Bfs(g, s, far, x)
  PROVE  LET y == BfsTurn(g, far, x)
         IN  /\ Bfs(g, s, far, y)
             /\ BfsLeft(g, x) \in Nat /\ BfsLeft(g, y) \in Nat /\ Len(x.q) <= BfsLeft(g, x)
             /\ y.q = <<>> \/ BfsLeft(g, y) = BfsLeft(g, x) - 1
<1> DEFINE D == x.dist
           Q == x.q
           y == BfsTurn(g, far, x)
<1>1. PICK low \in Nat : Queued(g, s, far, low, x) /\ Followed(g, far, {}, x)
  BY DEF Bfs
<1>2. /\ x \in BfsStates(g) /\ D \in NatDists(g) /\ Q \in Seq(NodesOf(g)) /\ x.parent \in Parents(g)
      /\ x.u \in NodesOf(g)
      /\ Rooted(Hops(g), s, D, x.parent)
      /\ \A i \in 1 .. Len(Q) : Q[i] \in DOMAIN D /\ low <= D[Q[i]]
      /\ \A i, j \in 1 .. Len(Q) : i <= j => D[Q[i]] <= D[Q[j]]
      /\ \A w \in DOMAIN D : D[w] <= far /\ D[w] <= low + 1
      /\ \A w \in DOMAIN D : D[w] \in Nat
  BY <1>1, NatDistIs DEF Queued, BfsStates
<1>3. \A w : w \in BfsStates(g) => BfsLeft(g, w) \in Nat /\ Len(w.q) <= BfsLeft(g, w)
  <2> SUFFICES ASSUME NEW w \in BfsStates(g) PROVE BfsLeft(g, w) \in Nat /\ Len(w.q) <= BfsLeft(g, w)
    OBVIOUS
  <2>1. IsFiniteSet(NodesOf(g) \ DOMAIN w.dist)
    BY NodesFinite, FS_Difference DEF IsGraph
  <2>2. Cardinality(NodesOf(g) \ DOMAIN w.dist) \in Nat
    BY <2>1, FS_CardinalityType
  <2>3. Len(w.q) \in Nat
    BY DEF BfsStates
  <2> QED  BY <2>2, <2>3 DEF BfsLeft
<1>4. CASE Q = <<>>
  <2>1. y = x
    BY <1>4 DEF BfsTurn
  <2> QED  BY <1>2, <1>3, <1>4, <2>1
<1>5. CASE Q # <<>>
  <2> DEFINE u == Head(Q)
             P == Tail(Q)
             popped == [x EXCEPT !.q = P, !.u = u]
  <2>1. /\ Len(Q) \in Nat \ {0} /\ u = Q[1] /\ u \in NodesOf(g) /\ P \in Seq(NodesOf(g))
        /\ Len(P) = Len(Q) - 1 /\ \A i \in 1 .. Len(P) : P[i] = Q[i + 1]
    BY <1>2, <1>5
  <2>2. y = IF D[u] >= far THEN popped ELSE FoldLeft(Reached, popped, g.edges)
    BY <1>5 DEF BfsTurn
  <2> HIDE DEF u, P, y
  <2>3. /\ popped \in BfsStates(g) /\ popped.dist = D /\ popped.parent = x.parent
        /\ popped.q = P /\ popped.u = u
    BY <1>2, <2>1 DEF BfsStates
  <2> HIDE DEF popped, D, Q
  <2>4. u \in DOMAIN D /\ D[u] \in Nat /\ low <= D[u]
    BY <1>2, <2>1
  <2>5. \A i \in 1 .. Len(P) : i + 1 \in 1 .. Len(Q)
    BY <2>1
  <2>6. \A i \in 1 .. Len(P) : P[i] \in DOMAIN D /\ D[u] <= D[P[i]]
    <3> SUFFICES ASSUME NEW i \in 1 .. Len(P) PROVE P[i] \in DOMAIN D /\ D[u] <= D[P[i]]
      OBVIOUS
    <3>1. 1 \in 1 .. Len(Q) /\ i + 1 \in 1 .. Len(Q) /\ 1 <= i + 1 /\ P[i] = Q[i + 1]
      BY <2>1
    <3> QED  BY <1>2, <2>1, <3>1
  <2>7. \A i, j \in 1 .. Len(P) : i <= j => D[P[i]] <= D[P[j]]
    <3> SUFFICES ASSUME NEW i \in 1 .. Len(P), NEW j \in 1 .. Len(P), i <= j
                 PROVE  D[P[i]] <= D[P[j]]
      OBVIOUS
    <3>1. i + 1 \in 1 .. Len(Q) /\ j + 1 \in 1 .. Len(Q) /\ i + 1 <= j + 1
      BY <2>1
    <3> QED  BY <1>2, <2>1, <3>1
  <2>8. \A w \in DOMAIN D : D[w] <= far /\ D[w] <= D[u] + 1
    BY <1>2, <2>4
  <2>9. Queued(g, s, far, D[u], popped)
    BY <1>2, <2>3, <2>6, <2>7, <2>8 DEF Queued
  <2>10. Followed(g, far, {u}, popped)
    <3> SUFFICES ASSUME NEW e \in EdgesOf(g), e.from \in DOMAIN D \ {u}, ~InQueue(popped, e.from), D[e.from] < far
                 PROVE  e.to \in DOMAIN D /\ D[e.to] <= D[e.from] + 1
      BY <2>3 DEF Followed
    <3>1. ~InQueue(x, e.from)
      <4> SUFFICES ASSUME NEW i \in 1 .. Len(Q), Q[i] = e.from PROVE FALSE
        BY DEF InQueue, Q
      <4>1. i # 1
        BY <2>1
      <4>2. i - 1 \in 1 .. Len(P) /\ (i - 1) + 1 = i
        BY <2>1, <4>1
      <4>3. P[i - 1] = e.from
        BY <2>1, <4>2
      <4> QED  BY <2>3, <4>2, <4>3 DEF InQueue
    <3> QED  BY <1>1, <3>1 DEF Followed, D
  <2>11. BfsLeft(g, popped) = BfsLeft(g, x) - 1
    <3>1. IsFiniteSet(NodesOf(g) \ DOMAIN D)
      BY NodesFinite, FS_Difference DEF IsGraph
    <3>2. Cardinality(NodesOf(g) \ DOMAIN D) \in Nat
      BY <3>1, FS_CardinalityType
    <3> QED  BY <2>1, <2>3, <3>2 DEF BfsLeft, D, Q
  <2>12. CASE D[u] >= far
    <3>1. y = popped
      BY <2>2, <2>12
    <3>2. Followed(g, far, {}, popped)
      BY <2>3, <2>4, <2>10, <2>12 DEF Followed
    <3> QED  BY <1>2, <1>3, <2>3, <2>4, <2>9, <2>11, <3>1, <3>2 DEF Bfs, y, Q
  <2>13. CASE ~(D[u] >= far)
    <3>1. y = FoldLeft(Reached, popped, g.edges) /\ D[u] < far
      BY <2>2, <2>4, <2>13
    <3>2. popped \in Busy(g, s, far, u, D[u], BfsLeft(g, popped))
      BY <2>3, <2>4, <2>9, <2>10 DEF Busy
    <3>3. /\ y \in BfsStates(g) /\ Queued(g, s, far, D[u], y) /\ Followed(g, far, {}, y)
          /\ BfsLeft(g, y) = BfsLeft(g, popped)
      BY <2>4, <3>1, <3>2, ReachedAll
    <3> QED  BY <1>2, <1>3, <2>4, <2>11, <3>3 DEF Bfs, y, Q
  <2> QED  BY <2>12, <2>13
<1> QED  BY <1>4, <1>5

LEMMA BfsStarts ==
  ASSUME NEW g, IsGraph(g), NEW s \in NodesOf(g), NEW far \in Nat
  PROVE  Bfs(g, s, far, BfsStart(s)) /\ BfsLeft(g, BfsStart(s)) = g.n
<1> DEFINE x == BfsStart(s)
           D == OnlySource(s)
           Q == <<s>>
<1>1. x = [dist |-> D, parent |-> <<>>, q |-> Q, u |-> s]
  BY DEF BfsStart
<1>2. D \in NatDists(g) /\ DOMAIN D = {s} /\ D[s] = 0
  <2>1. D \in [{s} -> Nat] /\ {s} \in SUBSET NodesOf(g)
    BY DEF OnlySource
  <2>2. DOMAIN D = {s} /\ D[s] = 0
    BY DEF OnlySource
  <2> HIDE DEF D
  <2> QED  BY <2>1, <2>2 DEF NatDists
<1>3. Q \in Seq(NodesOf(g)) /\ Len(Q) = 1 /\ Q[1] = s
  OBVIOUS
<1>4. DOMAIN <<>> = {}
  OBVIOUS
<1> HIDE DEF D, Q
<1>5. x \in BfsStates(g) /\ x.dist = D /\ x.q = Q /\ x.parent = <<>>
  BY <1>1, <1>2, <1>3, NoParents DEF BfsStates
<1> HIDE DEF x
<1>6. Rooted(Hops(g), s, D, <<>>)
  BY <1>2, <1>4 DEF Rooted
<1>7. Queued(g, s, far, 0, x)
  <2>1. \A i \in 1 .. Len(Q) : Q[i] = s
    BY <1>3
  <2> QED  BY <1>2, <1>5, <1>6, <2>1 DEF Queued
<1>8. Followed(g, far, {}, x)
  <2>1. 1 \in 1 .. Len(Q)
    BY <1>3
  <2>2. InQueue(x, s)
    BY <1>3, <1>5, <2>1 DEF InQueue
  <2> QED  BY <1>2, <1>5, <2>2 DEF Followed
<1>9. BfsLeft(g, x) = g.n
  <2>1. IsFiniteSet(NodesOf(g)) /\ Cardinality(NodesOf(g)) = g.n /\ g.n \in Nat
    BY NodesFinite DEF IsGraph
  <2>2. Cardinality(NodesOf(g) \ {s}) = g.n - 1
    BY <2>1, FS_RemoveElement
  <2>3. BfsLeft(g, x) = Cardinality(NodesOf(g) \ {s}) + 1
    BY <1>2, <1>3, <1>5 DEF BfsLeft
  <2> QED  BY <2>1, <2>2, <2>3
<1>10. Bfs(g, s, far, x)
  BY <1>7, <1>8 DEF Bfs
<1> QED  BY <1>9, <1>10 DEF x

LEMMA BfsRuns ==
  ASSUME NEW g, IsGraph(g), NEW s \in NodesOf(g), NEW far \in Nat
  PROVE  LET r == bfsSearch(g, far, s) IN Bfs(g, s, far, r) /\ r.q = <<>>
<1> DEFINE n == g.n
           r == bfsSearch(g, far, s)
           S == {x \in BfsStates(g) : Bfs(g, s, far, x)}
<1>1. n \in Nat
  BY DEF IsGraph
<1>2. \A x : x \in S <=> Bfs(g, s, far, x)
  BY DEF Bfs, Queued
<1>3. BfsStart(s) \in S /\ BfsLeft(g, BfsStart(s)) = n
  BY <1>2, BfsStarts
<1>4. \A x \in S : /\ BfsTurn(g, far, x) \in S
                   /\ BfsLeft(g, x) \in Nat /\ Len(x.q) <= BfsLeft(g, x) /\ x.q \in Seq(NodesOf(g))
                   /\ \/ BfsTurn(g, far, x).q = <<>>
                      \/ BfsLeft(g, BfsTurn(g, far, x)) = BfsLeft(g, x) - 1
  <2> SUFFICES ASSUME NEW x \in S
               PROVE  /\ BfsTurn(g, far, x) \in S
                      /\ BfsLeft(g, x) \in Nat /\ Len(x.q) <= BfsLeft(g, x) /\ x.q \in Seq(NodesOf(g))
                      /\ \/ BfsTurn(g, far, x).q = <<>>
                         \/ BfsLeft(g, BfsTurn(g, far, x)) = BfsLeft(g, x) - 1
    OBVIOUS
  <2>1. Bfs(g, s, far, x) /\ x.q \in Seq(NodesOf(g))
    BY DEF BfsStates
  <2> HIDE DEF S
  <2> QED  BY <1>2, <2>1, BfsTurns
<1> HIDE DEF S
<1>5. PICK z : BfsRun(g, far, s, S, z)
  BY <1>3, <1>4, BfsFolds
<1>6. /\ z \in [0 .. n -> S] /\ z[0] = BfsStart(s) /\ z[n] = r
      /\ \A i \in 1 .. n : z[i] = BfsTurn(g, far, z[i - 1])
  BY <1>5 DEF BfsRun
<1> DEFINE Within(i) == z[i].q = <<>> \/ BfsLeft(g, z[i]) <= n - i
           T == {i \in 0 .. n : Within(i)}
<1> HIDE DEF r, n
<1>7. 0 \in T
  BY <1>1, <1>3, <1>6
<1>8. ASSUME NEW i \in 0 .. n - 1, i \in T PROVE i + 1 \in T
  <2>1. i + 1 \in 0 .. n /\ i + 1 \in 1 .. n /\ (i + 1) - 1 = i /\ i \in 0 .. n
    BY <1>1
  <2>2. z[i + 1] = BfsTurn(g, far, z[i]) /\ z[i] \in S /\ z[i + 1] \in S
    BY <1>6, <2>1
  <2>3. Within(i) /\ BfsLeft(g, z[i]) \in Nat /\ BfsLeft(g, z[i + 1]) \in Nat
    BY <1>4, <1>8, <2>2
  <2>4. z[i].q = <<>> => z[i + 1].q = <<>>
    BY <2>2 DEF BfsTurn
  <2>5. z[i + 1].q = <<>> \/ BfsLeft(g, z[i + 1]) = BfsLeft(g, z[i]) - 1
    BY <1>4, <2>2
  <2>6. Within(i + 1)
    BY <1>1, <2>1, <2>3, <2>4, <2>5
  <2> QED  BY <2>1, <2>6
<1>9. \A i \in 0 .. n : i \in T
  <2> HIDE DEF T
  <2> QED  BY <1>1, <1>7, <1>8, SetInductionTo
<1>10. r \in S /\ Within(n)
  <2>1. n \in 0 .. n
    BY <1>1
  <2> QED  BY <1>6, <1>9, <2>1
<1>11. r.q = <<>>
  <2>1. r.q \in Seq(NodesOf(g)) /\ Len(r.q) <= BfsLeft(g, r) /\ BfsLeft(g, r) \in Nat
    BY <1>4, <1>10
  <2>2. ASSUME BfsLeft(g, r) <= n - n PROVE Len(r.q) = 0
    BY <1>1, <2>1, <2>2
  <2> QED  BY <1>6, <1>10, <2>1, <2>2
<1> QED  BY <1>2, <1>10, <1>11 DEF r

(* The fewest edges, one by one.                                           *)
LEMMA FewestIs ==
  ASSUME NEW g, IsGraph(g), NEW s
  PROVE  LET best == FewestHops(g, s)
         IN  /\ \A p \in SimplePaths(g, s) : Last(p) \in DOMAIN best /\ best[Last(p)] <= Len(p) - 1
             /\ \A v \in DOMAIN best :
                  best[v] \in Nat /\ \E p \in SimplePaths(g, s) : Last(p) = v /\ Len(p) - 1 = best[v]
<1> DEFINE P == SimplePaths(g, s)
           best == FewestHops(g, s)
           L(v) == {Len(p) - 1 : p \in {q \in P : Last(q) = v}}
<1>1. ASSUME NEW p \in P PROVE Len(p) - 1 \in Nat
  BY SimpleIs
<1>2. best = [v \in {Last(p) : p \in P} |-> Min(L(v))]
  BY DEF FewestHops
<1>3. ASSUME NEW v \in {Last(p) : p \in P}
      PROVE  best[v] \in L(v) /\ best[v] \in Nat /\ \A x \in L(v) : best[v] <= x
  <2>1. L(v) \subseteq Nat /\ L(v) # {}
    BY <1>1
  <2>2. PICK x \in L(v) : \A y \in L(v) : x <= y
    <3> HIDE DEF L
    <3> QED  BY <2>1, HasLeast
  <2>3. Min(L(v)) = x
    <3> HIDE DEF L
    <3> QED  BY <2>1, <2>2, MinIsLeast
  <2>4. best[v] = x
    BY <1>2, <2>3
  <2> QED  BY <2>1, <2>2, <2>4
<1>4. DOMAIN best = {Last(p) : p \in P}
  BY <1>2
<1> HIDE DEF best
<1>5. ASSUME NEW p \in P PROVE Last(p) \in DOMAIN best /\ best[Last(p)] <= Len(p) - 1
  BY <1>3, <1>4
<1>6. ASSUME NEW v \in DOMAIN best
      PROVE  best[v] \in Nat /\ \E p \in P : Last(p) = v /\ Len(p) - 1 = best[v]
  BY <1>3, <1>4
<1> QED  BY <1>5, <1>6 DEF best

(* With the queue empty every path that is short enough has been gone, ... *)
LEMMA HopsGone ==
  ASSUME NEW g, IsGraph(g), NEW s, NEW far \in Nat, NEW x, Bfs(g, s, far, x), x.q = <<>>,
         NEW p \in SimplePaths(g, s), Len(p) - 1 <= far
  PROVE  Last(p) \in DOMAIN x.dist /\ x.dist[Last(p)] <= Len(p) - 1
<1> DEFINE D == x.dist
           m == Len(p) - 1
           T == {i \in 0 .. m : p[i + 1] \in DOMAIN D /\ D[p[i + 1]] <= i}
<1>1. /\ Rooted(Hops(g), s, D, x.parent) /\ D \in NatDists(g) /\ Followed(g, far, {}, x)
  BY DEF Bfs, Queued, BfsStates
<1>2. s \in DOMAIN D /\ D[s] = 0 /\ \A v \in DOMAIN D : D[v] \in Nat
  BY <1>1, NatDistIs DEF Rooted
<1>3. /\ m \in Nat /\ p[1] = s /\ Last(p) = p[m + 1] /\ m <= far
      /\ \A i \in 1 .. m : \E e \in EdgesOf(g) : e.from = p[i] /\ e.to = p[i + 1]
  <2>1. /\ Len(p) \in Nat \ {0} /\ p[1] = s /\ Last(p) = p[Len(p)] /\ IsPath(g, p)
    BY SimpleIs
  <2>2. m \in Nat /\ m + 1 = Len(p)
    BY <2>1
  <2> QED  BY <2>1, <2>2 DEF IsPath
<1>4. \A v : ~InQueue(x, v)
  BY DEF InQueue
<1> HIDE DEF m, D
<1>5. 0 \in T
  BY <1>2, <1>3
<1>6. ASSUME NEW i \in 0 .. m - 1, i \in T PROVE i + 1 \in T
  <2>1. i + 1 \in 1 .. m /\ i + 1 \in 0 .. m /\ i < far
    BY <1>3
  <2>2. PICK e \in EdgesOf(g) : e.from = p[i + 1] /\ e.to = p[(i + 1) + 1]
    BY <1>3, <2>1
  <2>3. e.from \in DOMAIN D /\ D[e.from] \in Nat /\ D[e.from] <= i
    BY <1>2, <1>6, <2>2
  <2>4. e.to \in DOMAIN D /\ D[e.to] <= D[e.from] + 1
    BY <1>1, <1>4, <2>1, <2>3 DEF Followed, D
  <2>5. D[e.to] \in Nat
    BY <1>2, <2>4
  <2>6. D[e.to] <= i + 1
    BY <2>3, <2>4, <2>5
  <2> QED  BY <2>1, <2>2, <2>4, <2>6
<1>7. \A i \in 0 .. m : i \in T
  <2> HIDE DEF T
  <2> QED  BY <1>3, <1>5, <1>6, SetInductionTo
<1>8. m \in T
  BY <1>3, <1>7
<1> QED  BY <1>3, <1>8 DEF D, m

(* ... and a path led back by the parents has no more edges than counted.  *)
LEMMA LedBackHops ==
  ASSUME NEW g, IsGraph(g), NEW s, NEW D \in NatDists(g), NEW F, Rooted(Hops(g), s, D, F),
         NEW p, LedBack(g, s, F, p)
  PROVE  Last(p) \in DOMAIN D /\ Len(p) - 1 <= D[Last(p)]
<1> DEFINE m == Len(p) - 1
           T == {i \in 0 .. m : p[i + 1] \in DOMAIN D /\ i <= D[p[i + 1]]}
<1>1. /\ m \in Nat /\ p[1] = s /\ Last(p) = p[m + 1]
      /\ \A i \in 1 .. m : p[i + 1] \in DOMAIN F /\ F[p[i + 1]] = p[i]
  <2>0. p \in SimplePaths(g, s) /\ \A i \in 1 .. m : p[i + 1] \in DOMAIN F /\ F[p[i + 1]] = p[i]
    BY DEF LedBack
  <2>1. /\ Len(p) \in Nat \ {0} /\ p[1] = s /\ Last(p) = p[Len(p)]
        /\ \A i \in 1 .. m : p[i + 1] \in DOMAIN F /\ F[p[i + 1]] = p[i]
    <3> HIDE DEF m
    <3> QED  BY <2>0, SimpleIs
  <2>2. m \in Nat /\ m + 1 = Len(p)
    BY <2>1
  <2> QED  BY <2>1, <2>2
<1>2. /\ s \in DOMAIN D /\ D[s] = 0 /\ \A v \in DOMAIN D : D[v] \in Nat
      /\ \A v \in DOMAIN F : F[v] \in DOMAIN D /\ v \in DOMAIN D /\ D[F[v]] + 1 <= D[v]
  <2>1. \A e \in EdgesOf(Hops(g)) : e.weight = 1
    BY HopsIs
  <2>2. \A v \in DOMAIN F : F[v] \in DOMAIN D /\ v \in DOMAIN D /\ D[F[v]] + 1 <= D[v]
    BY <2>1 DEF Rooted
  <2> QED  BY <2>2, NatDistIs DEF Rooted
<1> HIDE DEF m
<1>3. 0 \in T
  BY <1>1, <1>2
<1>4. ASSUME NEW i \in 0 .. m - 1, i \in T PROVE i + 1 \in T
  <2>1. i + 1 \in 1 .. m /\ i + 1 \in 0 .. m
    BY <1>1
  <2>2. p[(i + 1) + 1] \in DOMAIN F /\ F[p[(i + 1) + 1]] = p[i + 1]
    BY <1>1, <2>1
  <2> QED  BY <1>2, <1>4, <2>1, <2>2
<1>5. \A i \in 0 .. m : i \in T
  <2> HIDE DEF T
  <2> QED  BY <1>1, <1>3, <1>4, SetInductionTo
<1>6. m \in T
  BY <1>1, <1>5
<1> QED  BY <1>1, <1>6 DEF m

(* bfs of graph/, and the search for candidates of heuristic_experiment.cpp:*)
(* the queue is empty at the end, exactly the nodes at most far hops away  *)
(* are reached, each at its least number of hops, and the parents lead back*)
(* along a path with as many.                                              *)
THEOREM BfsIsRight ==
  ASSUME NEW g, IsGraph(g), NEW s \in NodesOf(g), NEW far \in Nat
  PROVE  LET r == bfsSearch(g, far, s)
             best == FewestHops(g, s)
         IN  /\ r.q = <<>>
             /\ DOMAIN r.dist = {v \in DOMAIN best : best[v] <= far}
             /\ \A v \in DOMAIN r.dist :
                  /\ r.dist[v] = best[v]
                  /\ \E p : LedBack(g, s, r.parent, p) /\ Last(p) = v /\ Len(p) - 1 = best[v]
<1> DEFINE r == bfsSearch(g, far, s)
           best == FewestHops(g, s)
           D == r.dist
<1>1. Bfs(g, s, far, r) /\ r.q = <<>>
  BY BfsRuns
<1>2. /\ \A p \in SimplePaths(g, s) : Last(p) \in DOMAIN best /\ best[Last(p)] <= Len(p) - 1 /\ Len(p) - 1 \in Nat
      /\ \A v \in DOMAIN best :
           best[v] \in Nat /\ \E p \in SimplePaths(g, s) : Last(p) = v /\ Len(p) - 1 = best[v]
  BY FewestIs, SimpleIs
<1> HIDE DEF r, best
<1>3. /\ Rooted(Hops(g), s, D, r.parent) /\ D \in NatDists(g) /\ \A v \in DOMAIN D : D[v] <= far
      /\ \A v \in DOMAIN D : D[v] \in Nat
  <2>1. /\ Rooted(Hops(g), s, D, r.parent) /\ D \in NatDists(g) /\ \A v \in DOMAIN D : D[v] <= far
    BY <1>1 DEF Bfs, Queued, BfsStates
  <2> QED  BY <2>1, NatDistIs
<1> HIDE DEF D
<1>4. ASSUME NEW v \in DOMAIN D
      PROVE  \E p : LedBack(g, s, r.parent, p) /\ Last(p) = v /\ Len(p) - 1 <= D[v]
                    /\ p \in SimplePaths(g, s)
  <2>1. PICK p : LedBack(Hops(g), s, r.parent, p) /\ Last(p) = v
    BY <1>3, HopsIs, WaysLead
  <2>2. LedBack(g, s, r.parent, p) /\ p \in SimplePaths(g, s)
    BY <2>1, HopsIs DEF LedBack
  <2> QED  BY <1>3, <2>1, <2>2, LedBackHops
<1>5. ASSUME NEW v \in DOMAIN best, best[v] <= far PROVE v \in DOMAIN D /\ D[v] <= best[v]
  <2>1. PICK p \in SimplePaths(g, s) : Last(p) = v /\ Len(p) - 1 = best[v]
    BY <1>2
  <2> QED  BY <1>1, <1>5, <2>1, HopsGone DEF D
<1>6. ASSUME NEW v \in DOMAIN D
      PROVE  /\ v \in DOMAIN best /\ best[v] <= far /\ D[v] = best[v]
             /\ \E p : LedBack(g, s, r.parent, p) /\ Last(p) = v /\ Len(p) - 1 = best[v]
  <2>1. PICK p : LedBack(g, s, r.parent, p) /\ Last(p) = v /\ Len(p) - 1 <= D[v] /\ p \in SimplePaths(g, s)
    BY <1>4
  <2>2. v \in DOMAIN best /\ best[v] <= Len(p) - 1 /\ Len(p) - 1 \in Nat
    BY <1>2, <2>1
  <2>3. D[v] \in Nat /\ best[v] \in Nat /\ D[v] <= far
    BY <1>2, <1>3, <2>2
  <2>4. best[v] <= far
    BY <2>1, <2>2, <2>3
  <2>5. D[v] <= best[v]
    BY <1>5, <2>2, <2>4
  <2>6. D[v] = best[v] /\ Len(p) - 1 = best[v]
    BY <2>1, <2>2, <2>3, <2>5
  <2> QED  BY <2>1, <2>2, <2>4, <2>6
<1>7. DOMAIN D = {v \in DOMAIN best : best[v] <= far}
  BY <1>5, <1>6
<1> QED  BY <1>1, <1>6, <1>7 DEF r, best, D

(* The steps of a walk back to the source, within S.                       *)
WalkRun(F, v, S, z) ==
  LET m == Cardinality(DOMAIN F)
  IN  /\ z \in [0 .. m -> S] /\ z[0] = <<v>>
      /\ \A i \in 1 .. m : z[i] = WalkedBack(F, z[i - 1])
      /\ z[m] = PathTo(F, v)

LEMMA WalkFolds ==
  ASSUME NEW F, NEW v, IsFiniteSet(DOMAIN F), NEW S, <<v>> \in S,
         \A x \in S : WalkedBack(F, x) \in S
  PROVE  \E z : WalkRun(F, v, S, z)
<1> DEFINE E == [i \in 1 .. Cardinality(DOMAIN F) |-> i]
           m == Cardinality(DOMAIN F)
           Z == <<v>>
           G == [i \in 1 .. m |-> [x \in S |-> WalkedBack(F, x)]]
           It(f) == f = [r \in SUBSET DOMAIN E |->
                           IF r = {} THEN Z
                           ELSE LET x == Max(r) IN WalkedBack(F, f[r \ {x}])]
           fold == CHOOSE f : It(f)
<1>1. m \in Nat /\ DOMAIN E = 1 .. m
  BY FS_CardinalityType
<1>3. PathTo(F, v) = fold[1 .. m]
  BY <1>1 DEF PathTo, FoldLeft, MapThenFoldSet
<1>4. \A r : Max(r) = LastOf(r)
  BY DEF Max, LastOf
<1>7. Z \in S
  OBVIOUS
<1> HIDE DEF E, m, Z, fold
<1>5. G \in [1 .. m -> [S -> S]]
  OBVIOUS
<1>6. \A i \in 1 .. m, x \in S : G[i][x] = WalkedBack(F, x)
  OBVIOUS
<1> HIDE DEF G
<1>8. PICK f : FoldsOn(f, S, Z, G, m)
  BY <1>1, <1>5, <1>7, FoldExists
<1>9. It(f)
  <2>1. ASSUME NEW r \in SUBSET (1 .. m), r # {}
        PROVE  G[LastOf(r)][f[r \ {LastOf(r)}]] = WalkedBack(F, f[r \ {Max(r)}])
    <3>1. LastOf(r) \in 1 .. m
      BY <1>1, <2>1, LastIs
    <3>2. f[r \ {LastOf(r)}] \in S
      BY <1>8 DEF FoldsOn
    <3> QED  BY <1>4, <1>6, <3>1, <3>2
  <2>2. f = [r \in SUBSET (1 .. m) |-> IF r = {} THEN Z ELSE WalkedBack(F, f[r \ {Max(r)}])]
    <3>1. f = [r \in SUBSET (1 .. m) |-> f[r]]
      BY <1>8 DEF FoldsOn
    <3>2. \A r \in SUBSET (1 .. m) : f[r] = IF r = {} THEN Z ELSE WalkedBack(F, f[r \ {Max(r)}])
      BY <1>8, <2>1 DEF FoldsOn
    <3> QED  BY <3>1, <3>2
  <2> QED  BY <1>1, <2>2
<1>10. It(fold)
  BY <1>9 DEF fold
<1>11. fold[{}] = Z
  BY <1>10
<1>12. ASSUME NEW i \in 0 .. m - 1, fold[1 .. i] \in S
       PROVE  fold[1 .. i + 1] = G[i + 1][fold[1 .. i]]
  <2>1. 1 .. i + 1 \in SUBSET DOMAIN E /\ 1 .. i + 1 # {}
    <3>1. 1 .. i + 1 \subseteq 1 .. m /\ 1 \in 1 .. i + 1
      BY <1>1
    <3> QED  BY <1>1, <3>1
  <2>2. Max(1 .. i + 1) = i + 1 /\ (1 .. i + 1) \ {i + 1} = 1 .. i
    <3>1. i \in Nat
      BY <1>1
    <3> QED  BY <1>4, <3>1, LastOfAll
  <2>3. fold[1 .. i + 1] = WalkedBack(F, fold[(1 .. i + 1) \ {Max(1 .. i + 1)}])
    BY <1>10, <2>1
  <2>4. i + 1 \in 1 .. m
    BY <1>1
  <2> QED  BY <1>6, <1>12, <2>2, <2>3, <2>4
<1> DEFINE z == [i \in 0 .. m |-> fold[1 .. i]]
<1>13. Folds(z, S, Z, G, m)
  <2>1. \A i \in 0 .. m - 1 : fold[1 .. i] \in S => fold[1 .. i + 1] = G[i + 1][fold[1 .. i]]
    BY <1>12
  <2> QED  BY <1>1, <1>5, <1>7, <1>11, <2>1, FoldSteps, SMTT(60)
<1>14. z[m] = PathTo(F, v)
  BY <1>1, <1>3
<1> HIDE DEF z
<1>15. /\ z \in [0 .. m -> S] /\ z[0] = Z
       /\ \A i \in 1 .. m : z[i] = WalkedBack(F, z[i - 1])
  <2>1. z \in [0 .. m -> S] /\ z[0] = Z
    BY <1>13 DEF Folds
  <2>2. \A i \in 1 .. m : z[i - 1] \in S /\ z[i] = G[i][z[i - 1]]
    BY <1>1, <1>13, <2>1 DEF Folds
  <2> QED  BY <1>6, <2>1, <2>2
<1> QED  BY <1>14, <1>15 DEF WalkRun, m, Z

(* The last nodes of p, i of them before the last.                         *)
Back(p, i) == [j \in 1 .. i + 1 |-> p[(Len(p) - 1 - i) + j]]

LEMMA WalkedBackIs ==
  ASSUME NEW g, IsGraph(g), NEW s, NEW F, s \notin DOMAIN F, NEW p, LedBack(g, s, F, p),
         NEW i \in 0 .. Len(p) - 1
  PROVE  WalkedBack(F, Back(p, i)) = IF i < Len(p) - 1 THEN Back(p, i + 1) ELSE Back(p, i)
<1> DEFINE m == Len(p) - 1
           q == Back(p, i)
           a == p[m - i]
<1>1. /\ m \in Nat /\ m + 1 = Len(p) /\ p \in [1 .. m + 1 -> NodesOf(g)] /\ p[1] = s
      /\ \A j \in 1 .. m : p[j + 1] \in DOMAIN F /\ F[p[j + 1]] = p[j]
  <2>1. /\ Len(p) \in Nat \ {0} /\ p[1] = s /\ p \in [1 .. Len(p) -> NodesOf(g)]
        /\ \A j \in 1 .. m : p[j + 1] \in DOMAIN F /\ F[p[j + 1]] = p[j]
    BY SimpleIs DEF LedBack
  <2>2. m \in Nat /\ m + 1 = Len(p)
    BY <2>1
  <2> QED  BY <2>1, <2>2
<1>2. q = [j \in 1 .. i + 1 |-> p[(m - i) + j]]
  BY DEF Back
<1>3. i \in Nat /\ m - i \in Nat /\ i <= m
  BY <1>1
<1>4. \A j \in 1 .. i + 1 : (m - i) + j \in 1 .. m + 1
  BY <1>1, <1>3
<1> HIDE DEF m, q
<1>5. q \in Seq(NodesOf(g)) /\ Len(q) = i + 1 /\ Head(q) = p[(m - i) + 1]
  <2>1. q \in [1 .. i + 1 -> NodesOf(g)]
    BY <1>1, <1>2, <1>4
  <2>2. q \in Seq(NodesOf(g)) /\ Len(q) = i + 1
    BY <1>3, <2>1
  <2>3. q[1] = p[(m - i) + 1]
    BY <1>2, <1>3
  <2> QED  BY <1>3, <2>2, <2>3
<1>6. CASE i < m
  <2>1. m - i \in 1 .. m
    BY <1>1, <1>3, <1>6
  <2>2. WalkedBack(F, q) = <<a>> \o q
    BY <1>1, <1>5, <2>1 DEF WalkedBack
  <2>3. a \in NodesOf(g)
    BY <1>1, <2>1
  <2> DEFINE t == <<a>> \o q
             Z == Back(p, i + 1)
  <2>4. /\ t \in Seq(NodesOf(g)) /\ Len(t) = i + 2 /\ t[1] = a
        /\ \A j \in 2 .. i + 2 : t[j] = q[j - 1]
    BY <1>3, <1>5, <2>3
  <2>5. Z = [j \in 1 .. i + 2 |-> p[(m - (i + 1)) + j]]
    BY <1>3 DEF Back, m
  <2> HIDE DEF t, Z
  <2>6. t = [j \in 1 .. i + 2 |-> t[j]]
    BY <2>4
  <2>7. \A j \in 1 .. i + 2 : t[j] = p[(m - (i + 1)) + j]
    <3> SUFFICES ASSUME NEW j \in 1 .. i + 2 PROVE t[j] = p[(m - (i + 1)) + j]
      OBVIOUS
    <3>1. CASE j = 1
      <4>1. (m - (i + 1)) + j = m - i
        BY <1>1, <1>3, <3>1
      <4> QED  BY <2>4, <3>1, <4>1
    <3>2. CASE j # 1
      <4>1. j \in 2 .. i + 2 /\ j - 1 \in 1 .. i + 1 /\ (m - i) + (j - 1) = (m - (i + 1)) + j
        BY <1>1, <1>3, <3>2
      <4> QED  BY <1>2, <2>4, <4>1
    <3> QED  BY <3>1, <3>2
  <2>8. t = Z
    BY <2>5, <2>6, <2>7
  <2> QED  BY <1>6, <2>2, <2>8 DEF t, Z, q, m
<1>7. CASE ~(i < m)
  <2>1. i = m
    BY <1>1, <1>3, <1>7
  <2>2. Head(q) = s
    BY <1>1, <1>5, <2>1
  <2>3. WalkedBack(F, q) = q
    BY <2>2 DEF WalkedBack
  <2> QED  BY <1>7, <2>3 DEF q, m
<1> QED  BY <1>6, <1>7

(* PathTo is the path that the parents lead back.                          *)
LEMMA PathToIs ==
  ASSUME NEW g, IsGraph(g), NEW s, NEW F, DOMAIN F \subseteq NodesOf(g) \ {s}, NEW p, LedBack(g, s, F, p)
  PROVE  PathTo(F, Last(p)) = p
<1> DEFINE m == Len(p) - 1
           c == Cardinality(DOMAIN F)
           S == {Back(p, i) : i \in 0 .. m}
           v == Last(p)
<1>1. /\ m \in Nat /\ m + 1 = Len(p) /\ p \in [1 .. m + 1 -> NodesOf(g)] /\ v = p[m + 1]
      /\ \A i, j \in 1 .. m + 1 : p[i] = p[j] => i = j
      /\ \A j \in 1 .. m : p[j + 1] \in DOMAIN F
  <2>0. p \in SimplePaths(g, s) /\ \A j \in 1 .. m : p[j + 1] \in DOMAIN F
    BY DEF LedBack
  <2>1. /\ Len(p) \in Nat \ {0} /\ p \in [1 .. Len(p) -> NodesOf(g)] /\ v = p[Len(p)]
        /\ \A i, j \in 1 .. Len(p) : p[i] = p[j] => i = j
        /\ \A j \in 1 .. m : p[j + 1] \in DOMAIN F
    <3> HIDE DEF m
    <3> QED  BY <2>0, SimpleIs
  <2>2. m \in Nat /\ m + 1 = Len(p)
    BY <2>1
  <2> QED  BY <2>1, <2>2
<1>2. IsFiniteSet(DOMAIN F)
  <2>1. IsFiniteSet(NodesOf(g))
    BY NodesFinite DEF IsGraph
  <2> QED  BY <2>1, FS_Subset
<1>3. c \in Nat /\ m <= c
  <2> DEFINE A == {p[j + 1] : j \in 1 .. m}
             f == [j \in 1 .. m |-> p[j + 1]]
  <2>1. A \subseteq DOMAIN F
    BY <1>1
  <2>2. Cardinality(1 .. m) = m /\ IsFiniteSet(1 .. m)
    BY <1>1, FS_Interval, SMTT(60)
  <2>3. f \in Bijection(1 .. m, A)
    <3>1. \A i \in 1 .. m : i + 1 \in 1 .. m + 1
      BY <1>1
    <3>2. f \in [1 .. m -> A] /\ \A a \in A : \E j \in 1 .. m : f[j] = a
      OBVIOUS
    <3>3. \A i, j \in 1 .. m : f[i] = f[j] => i = j
      <4>1. \A i, j \in 1 .. m : i + 1 = j + 1 => i = j
        BY <1>1
      <4> QED  BY <1>1, <3>1, <4>1
    <3> HIDE DEF f, A, m
    <3> QED  BY <3>2, <3>3 DEF Bijection, Injection, Surjection, IsInjective
  <2>4. IsFiniteSet(A) /\ Cardinality(A) = m
    BY <2>2, <2>3, FS_Bijection DEF ExistsBijection
  <2> HIDE DEF A
  <2> QED  BY <1>2, <2>1, <2>4, FS_Subset, FS_CardinalityType
<1>4. \A i \in 0 .. m : WalkedBack(F, Back(p, i)) = IF i < m THEN Back(p, i + 1) ELSE Back(p, i)
  BY WalkedBackIs
<1>5. Back(p, 0) = <<v>>
  <2>1. Back(p, 0) = [j \in 1 .. 1 |-> p[m + j]]
    BY <1>1 DEF Back
  <2>2. \A j \in 1 .. 1 : p[m + j] = v
    BY <1>1
  <2>3. <<v>> = [j \in 1 .. 1 |-> v]
    OBVIOUS
  <2> QED  BY <2>1, <2>2, <2>3
<1>6. Back(p, m) = p
  <2>1. Back(p, m) = [j \in 1 .. m + 1 |-> p[j]]
    BY <1>1 DEF Back
  <2>2. p = [j \in 1 .. m + 1 |-> p[j]]
    BY <1>1
  <2> QED  BY <2>1, <2>2
<1> HIDE DEF m, c, v
<1>7. <<v>> \in S
  <2>1. 0 \in 0 .. m
    BY <1>1
  <2> QED  BY <1>5, <2>1
<1>8. \A x \in S : WalkedBack(F, x) \in S
  <2> SUFFICES ASSUME NEW i \in 0 .. m PROVE WalkedBack(F, Back(p, i)) \in S
    OBVIOUS
  <2>1. i < m => i + 1 \in 0 .. m
    BY <1>1
  <2> QED  BY <1>4, <2>1
<1> HIDE DEF S
<1>9. PICK z : WalkRun(F, v, S, z)
  BY <1>2, <1>7, <1>8, WalkFolds
<1>10. /\ z \in [0 .. c -> S] /\ z[0] = <<v>> /\ z[c] = PathTo(F, v)
       /\ \A i \in 1 .. c : z[i] = WalkedBack(F, z[i - 1])
  BY <1>9 DEF WalkRun, c
<1> DEFINE At(i) == z[i] = Back(p, IF i < m THEN i ELSE m)
           T == {i \in 0 .. c : At(i)}
<1>11. 0 \in T
  BY <1>1, <1>3, <1>5, <1>10
<1>12. ASSUME NEW i \in 0 .. c - 1, i \in T PROVE i + 1 \in T
  <2>1. i + 1 \in 0 .. c /\ i + 1 \in 1 .. c /\ (i + 1) - 1 = i /\ i \in Nat
    BY <1>3
  <2>2. z[i + 1] = WalkedBack(F, z[i])
    BY <1>10, <2>1
  <2>3. CASE i < m
    <3>1. z[i] = Back(p, i) /\ i \in 0 .. m
      BY <1>1, <1>12, <2>1, <2>3
    <3>2. z[i + 1] = Back(p, i + 1)
      BY <1>4, <2>2, <2>3, <3>1
    <3>3. (IF i + 1 < m THEN i + 1 ELSE m) = i + 1
      BY <1>1, <2>1, <2>3
    <3> QED  BY <2>1, <3>2, <3>3
  <2>4. CASE ~(i < m)
    <3>1. z[i] = Back(p, m) /\ m \in 0 .. m /\ ~(m < m)
      BY <1>1, <1>12, <2>4
    <3>2. z[i + 1] = Back(p, m)
      BY <1>4, <2>2, <3>1
    <3>3. ~(i + 1 < m)
      BY <1>1, <2>1, <2>4
    <3> QED  BY <2>1, <3>2, <3>3
  <2> QED  BY <2>3, <2>4
<1>13. \A i \in 0 .. c : i \in T
  <2> HIDE DEF T
  <2> QED  BY <1>3, <1>11, <1>12, SetInductionTo
<1>14. At(c) /\ ~(c < m)
  <2>1. c \in 0 .. c
    BY <1>3
  <2> QED  BY <1>1, <1>3, <1>13, <2>1
<1> QED  BY <1>6, <1>10, <1>14 DEF v

(* bfs_shortest_path.cpp: the path that is reconstructed is a simple path  *)
(* with the least number of hops.                                          *)
THEOREM BfsPathIsRight ==
  ASSUME NEW g, IsGraph(g), NEW s \in NodesOf(g)
  PROVE  LET best == FewestHops(g, s)
         IN  /\ bfs(g, s) = best
             /\ \A v \in DOMAIN best :
                  LET p == bfsPath(g, s, v)
                  IN  p \in SimplePaths(g, s) /\ Last(p) = v /\ Len(p) - 1 = best[v]
<1> DEFINE best == FewestHops(g, s)
           n == g.n
           r == bfsSearch(g, n, s)
           D == r.dist
           F == r.parent
<1>1. n \in Nat
  BY DEF IsGraph
<1>2. /\ r.q = <<>>
      /\ DOMAIN D = {v \in DOMAIN best : best[v] <= n}
      /\ \A v \in DOMAIN D :
           /\ D[v] = best[v]
           /\ \E p : LedBack(g, s, F, p) /\ Last(p) = v /\ Len(p) - 1 = best[v]
  BY <1>1, BfsIsRight
<1>3. bfs(g, s) = D /\ \A v : bfsPath(g, s, v) = PathTo(F, v)
  BY DEF bfs, bfsPath
<1>4. D \in NatDists(g) /\ DOMAIN F \subseteq NodesOf(g) \ {s}
  <2>1. D \in NatDists(g) /\ Rooted(Hops(g), s, D, F)
    BY <1>1, BfsRuns DEF Bfs, Queued, BfsStates
  <2> QED  BY <2>1, NatDistIs DEF Rooted
<1>5. D = [v \in DOMAIN D |-> D[v]]
  BY <1>4 DEF NatDists
<1>6. best = [v \in DOMAIN best |-> best[v]]
  BY DEF FewestHops
<1>7. ASSUME NEW v \in DOMAIN best PROVE best[v] <= n
  <2>1. PICK p \in SimplePaths(g, s) : Last(p) = v /\ Len(p) - 1 = best[v]
    BY FewestIs
  <2>2. Len(p) \in 1 .. n
    BY SimpleIs
  <2> HIDE DEF best, n
  <2> QED  BY <1>1, <2>1, <2>2
<1> HIDE DEF best, n, r, D, F
<1>8. DOMAIN D = DOMAIN best
  BY <1>2, <1>7
<1>9. D = best
  BY <1>2, <1>5, <1>6, <1>8
<1>10. ASSUME NEW v \in DOMAIN best
       PROVE  /\ PathTo(F, v) \in SimplePaths(g, s) /\ Last(PathTo(F, v)) = v
              /\ Len(PathTo(F, v)) - 1 = best[v]
  <2>1. PICK p : LedBack(g, s, F, p) /\ Last(p) = v /\ Len(p) - 1 = best[v]
    BY <1>2, <1>8
  <2>2. PathTo(F, v) = p
    BY <1>4, <2>1, PathToIs
  <2> QED  BY <2>1, <2>2 DEF LedBack
<1> QED  BY <1>3, <1>9, <1>10 DEF best

(* What the guided search returns: cost -1 and no path if there is no way; *)
(* otherwise a simple path to the goal whose length is at least the least  *)
(* and at most the cost, which is off by no more than the estimate is, and *)
(* is the least with an estimate that contradicts no edge.                 *)
THEOREM AnswersAreWays ==
  ASSUME NEW g, IsGraph(g), NEW k, NEW H, Measures(g, k, H),
         NEW s \in NodesOf(g), NEW goal \in NodesOf(g)
  PROVE  LET r == guided(g, s, goal, k, H)
             best == Shortest(g, s)
         IN  /\ goal \notin DOMAIN best => r.cost = -1 /\ r.path = <<>>
             /\ goal \in DOMAIN best =>
                  /\ r.path \in SimplePaths(g, s) /\ Last(r.path) = goal
                  /\ best[goal] <= Length(g, r.path) /\ Length(g, r.path) <= r.cost
                  /\ \A a : Steers(g, k, a, H) => k * r.cost <= a * best[goal]
                  /\ Guides(g, k, H) => r.cost = best[goal] /\ Length(g, r.path) = best[goal]
<1> DEFINE x == guidedSearch(g, s, goal, k, H)
           r == guided(g, s, goal, k, H)
           best == Shortest(g, s)
           D == x.dist
           F == x.parent
           p == PathTo(F, goal)
<1>1. /\ r.cost = IF goal \in DOMAIN D THEN D[goal] ELSE -1
      /\ r.path = IF goal \in DOMAIN D THEN p ELSE <<>>
  BY DEF guided
<1>2. goal \in DOMAIN D <=> goal \in DOMAIN best
  BY WaysLeadBack
<1>3. /\ D \in NatDists(g) /\ Rooted(g, s, D, F)
  BY WalkRuns DEF Walks, GuidedStates
<1>4. /\ \A q \in SimplePaths(g, s) : Last(q) \in DOMAIN best /\ best[Last(q)] <= Length(g, q)
      /\ \A v \in DOMAIN best : best[v] \in Nat
  <2>1. \A e \in EdgesOf(g) : e.weight \in Nat
    BY DEF Measures
  <2> QED  BY <2>1, ShortestIs
<1>5. \A a : Steers(g, k, a, H) => \A v \in x.closed : k * D[v] <= a * best[v]
  BY GuidedIsRight
<1>6. goal \in DOMAIN best => goal \in x.closed
  BY WaysLeadBack
<1>7. Guides(g, k, H) => \A v \in x.closed : D[v] = best[v]
  BY AStarIsRight
<1> HIDE DEF x, r, best
<1>8. ASSUME goal \in DOMAIN D
      PROVE  /\ p \in SimplePaths(g, s) /\ Last(p) = goal /\ Length(g, p) <= D[goal] /\ D[goal] \in Nat
             /\ Length(g, p) \in Int
  <2>1. PICK q : LedBack(g, s, F, q) /\ Last(q) = goal
    BY <1>3, <1>8, WaysLead
  <2>2. DOMAIN F \subseteq NodesOf(g) \ {s} /\ D[goal] \in Nat
    BY <1>3, <1>8, NatDistIs DEF Rooted
  <2>3. p = q
    BY <2>1, <2>2, PathToIs
  <2>4. Length(g, q) <= D[goal] /\ q \in SimplePaths(g, s)
    BY <1>3, <2>1, LedBackIsShort DEF LedBack
  <2>5. Length(g, q) \in Int
    <3>1. PICK c : Costs(g, q, c) /\ Length(g, q) = c[Len(q)]
      BY <2>4, SimpleCosts
    <3>2. Len(q) \in 1 .. Len(q)
      BY <2>4, SimpleIs
    <3> QED  BY <3>1, <3>2 DEF Costs
  <2> QED  BY <2>1, <2>2, <2>3, <2>4, <2>5
<1> HIDE DEF D, F, p
<1>9. CASE goal \notin DOMAIN D
  BY <1>1, <1>2, <1>9 DEF r, best
<1>10. CASE goal \in DOMAIN D
  <2>1. /\ r.cost = D[goal] /\ r.path = p /\ goal \in DOMAIN best /\ goal \in x.closed
        /\ p \in SimplePaths(g, s) /\ Last(p) = goal /\ Length(g, p) <= D[goal] /\ D[goal] \in Nat
        /\ Length(g, p) \in Int
    BY <1>1, <1>2, <1>6, <1>8, <1>10
  <2>2. best[goal] \in Nat /\ best[goal] <= Length(g, p)
    BY <1>4, <2>1
  <2>3. \A a : Steers(g, k, a, H) => k * r.cost <= a * best[goal]
    BY <1>5, <2>1
  <2>4. Guides(g, k, H) => r.cost = best[goal] /\ Length(g, r.path) = best[goal]
    BY <1>7, <2>1, <2>2
  <2> QED  BY <2>1, <2>2, <2>3, <2>4 DEF r, best
<1> QED  BY <1>9, <1>10

-----------------------------------------------------------------------------
(* Floyd-Warshall.                                                         *)
PairDists(g) == UNION {[A -> Nat] : A \in SUBSET (NodesOf(g) \X NodesOf(g))}

LEMMA PairDistIs ==
  ASSUME NEW g, NEW D \in PairDists(g)
  PROVE  DOMAIN D \subseteq NodesOf(g) \X NodesOf(g) /\ \A p \in DOMAIN D : D[p] \in Nat
BY DEF PairDists

(* The pairs are taken in the order of x.                                  *)
LEMMA PairOf ==
  ASSUME NEW g, IsGraph(g), NEW x \in 0 .. g.n * g.n - 1
  PROVE  /\ x \div g.n \in NodesOf(g) /\ x % g.n \in NodesOf(g)
         /\ \A i, j \in NodesOf(g) : x = i * g.n + j <=> i = x \div g.n /\ j = x % g.n
<1> DEFINE n == g.n  q == x \div n  r == x % n
<1>0. NodesOf(g) = 0 .. n - 1
  BY DEF NodesOf
<1>1. n \in Nat \ {0}
  <2>1. n \in Nat
    BY DEF IsGraph
  <2>2. ASSUME n = 0 PROVE FALSE
    <3>1. n * n = 0
      BY <2>2
    <3> QED  BY <3>1
  <2> QED  BY <2>1, <2>2
<1>2. x \in Nat /\ n * n \in Nat /\ x < n * n
  BY <1>1, Products
<1> HIDE DEF n
<1>3. q \in Nat /\ r \in 0 .. n - 1 /\ x = n * q + r
  BY <1>1, <1>2, Divided
<1> HIDE DEF q, r
<1>4. q < n
  <2> SUFFICES ASSUME n <= q PROVE FALSE
    BY <1>1, <1>3
  <2>1. q = n + (q - n) /\ q - n \in Nat
    BY <1>1, <1>3
  <2>2. n * (n + (q - n)) = n * n + n * (q - n) /\ n * (q - n) \in Nat
    BY <1>1, <2>1, Products
  <2> DEFINE t == n * (q - n)  w == n * n  z == n * q
  <2>3. z = w + t /\ t \in Nat /\ w \in Nat /\ x = z + r /\ x < w
    BY <1>2, <1>3, <2>1, <2>2
  <2> HIDE DEF t, w, z
  <2> QED  BY <1>3, <2>3
<1>5. ASSUME NEW i \in 0 .. n - 1, NEW j \in 0 .. n - 1 PROVE x = i * n + j <=> i = q /\ j = r
  <2>1. ASSUME x = i * n + j PROVE i = q /\ j = r
    <3>1. x = n * i + j
      BY <1>1, <2>1
    <3> QED  BY <1>1, <1>2, <3>1, DivisionIs DEF q, r
  <2>2. ASSUME i = q, j = r PROVE x = i * n + j
    BY <1>1, <1>3, <2>2
  <2> QED  BY <2>1, <2>2
<1>6. q \in 0 .. n - 1 /\ r \in 0 .. n - 1
  BY <1>1, <1>3, <1>4
<1>7. \A i, j \in NodesOf(g) : x = i * n + j <=> i = q /\ j = r
  BY <1>0, <1>5
<1>8. q \in NodesOf(g) /\ r \in NodesOf(g)
  BY <1>0, <1>6
<1> QED  BY <1>7, <1>8 DEF q, r, n

PairNow(g, D, p, d, N) ==
  /\ N \in PairDists(g) /\ DOMAIN N = DOMAIN D \cup {p}
  /\ N[p] = d /\ \A x \in DOMAIN D : x # p => N[x] = D[x]

(* A distance set.                                                         *)
LEMMA PairWith ==
  ASSUME NEW g, NEW D \in PairDists(g), NEW p \in NodesOf(g) \X NodesOf(g), NEW d \in Nat
  PROVE  PairNow(g, D, p, d, With(D, p, d))
<1> DEFINE N == [x \in DOMAIN D \cup {p} |-> IF x = p THEN d ELSE D[x]]
<1>1. With(D, p, d) = N
  BY DEF With
<1>2. DOMAIN D \cup {p} \in SUBSET (NodesOf(g) \X NodesOf(g)) /\ N \in [DOMAIN D \cup {p} -> Nat]
  BY PairDistIs
<1> HIDE DEF N
<1>3. N \in PairDists(g)
  BY <1>2 DEF PairDists
<1> USE DEF N
<1> QED  BY <1>1, <1>3 DEF PairNow

LEMMA BetterKept ==
  ASSUME NEW g, NEW D \in PairDists(g), NEW k, NEW i \in NodesOf(g), NEW j \in NodesOf(g)
  PROVE  FloydBetter(D, k, i, j) \in PairDists(g)
<1> DEFINE through == D[<<i, k>>] + D[<<k, j>>]
<1>1. CASE {<<i, k>>, <<k, j>>} \subseteq DOMAIN D /\ Closer(D, <<i, j>>, through)
  <2>1. through \in Nat /\ <<i, j>> \in NodesOf(g) \X NodesOf(g)
    BY <1>1, PairDistIs
  <2>2. FloydBetter(D, k, i, j) = With(D, <<i, j>>, through)
    BY <1>1 DEF FloydBetter
  <2> HIDE DEF through
  <2>3. PairNow(g, D, <<i, j>>, through, With(D, <<i, j>>, through))
    BY <2>1, PairWith
  <2> QED  BY <2>2, <2>3 DEF PairNow
<1>2. CASE ~({<<i, k>>, <<k, j>>} \subseteq DOMAIN D /\ Closer(D, <<i, j>>, through))
  BY <1>2 DEF FloydBetter
<1> QED  BY <1>1, <1>2

(* The states of a stage, one pair after another.                          *)
StageStates(g, D, k, m, z) ==
  /\ z \in [0 .. m -> PairDists(g)] /\ z[0] = D /\ z[m] = FloydStage(g, D, k)
  /\ \A i \in 1 .. m : z[i] = FloydBetter(z[i - 1], k, (i - 1) \div g.n, (i - 1) % g.n)

(* A stage is the distances after each of its pairs, and a run those after *)
(* each of its stages.                                                     *)
LEMMA StageFolds ==
  ASSUME NEW g, IsGraph(g), NEW D \in PairDists(g), NEW k
  PROVE  \E z : StageStates(g, D, k, g.n * g.n, z)
<1> DEFINE m == g.n * g.n
           E == [x \in 1 .. g.n * g.n |-> x - 1]
           S == PairDists(g)
           Z == D
           G == [i \in 1 .. m |-> [x \in S |-> FloydBetter(x, k, (E[i]) \div g.n, (E[i]) % g.n)]]
           It(f) == f = [r \in SUBSET DOMAIN E |->
                           IF r = {} THEN Z
                           ELSE LET y == Max(r) IN FloydBetter(f[r \ {y}], k, (E[y]) \div g.n, (E[y]) % g.n)]
           fold == CHOOSE f : It(f)
           whole == FloydStage(g, D, k)
<1>1. m \in Nat /\ DOMAIN E = 1 .. m /\ \A i \in 1 .. m : E[i] = i - 1
  BY Products DEF IsGraph
<1>2. \A i \in 1 .. m, x \in S : FloydBetter(x, k, (E[i]) \div g.n, (E[i]) % g.n) \in S
  <2> SUFFICES ASSUME NEW i \in 1 .. m, NEW x \in S PROVE FloydBetter(x, k, E[i] \div g.n, E[i] % g.n) \in S
    OBVIOUS
  <2>1. E[i] = i - 1 /\ i - 1 \in 0 .. g.n * g.n - 1
    BY <1>1
  <2>2. E[i] \div g.n \in NodesOf(g) /\ E[i] % g.n \in NodesOf(g)
    BY <2>1, PairOf
  <2> QED  BY <2>2, BetterKept
<1>3. whole = fold[1 .. m]
  BY <1>1 DEF FloydStage, FoldLeft, MapThenFoldSet
<1>4. \A r : Max(r) = LastOf(r)
  BY DEF Max, LastOf
<1>5. Z \in S
  OBVIOUS
<1> HIDE DEF E, m, S, Z, fold, whole
<1>6. G \in [1 .. m -> [S -> S]]
  BY <1>2
<1>7. \A i \in 1 .. m, x \in S : G[i][x] = FloydBetter(x, k, (E[i]) \div g.n, (E[i]) % g.n)
  OBVIOUS
<1> HIDE DEF G
<1>8. PICK f : FoldsOn(f, S, Z, G, m)
  BY <1>1, <1>5, <1>6, FoldExists
<1>9. It(f)
  <2>1. ASSUME NEW r \in SUBSET (1 .. m), r # {}
        PROVE  G[LastOf(r)][f[r \ {LastOf(r)}]] = FloydBetter(f[r \ {Max(r)}], k, (E[Max(r)]) \div g.n, (E[Max(r)]) % g.n)
    <3>1. LastOf(r) \in 1 .. m
      BY <1>1, <2>1, LastIs
    <3>2. f[r \ {LastOf(r)}] \in S
      BY <1>8 DEF FoldsOn
    <3> QED  BY <1>4, <1>7, <3>1, <3>2
  <2>2. f = [r \in SUBSET (1 .. m) |-> IF r = {} THEN Z ELSE FloydBetter(f[r \ {Max(r)}], k, (E[Max(r)]) \div g.n, (E[Max(r)]) % g.n)]
    <3>1. f = [r \in SUBSET (1 .. m) |-> f[r]]
      BY <1>8 DEF FoldsOn
    <3>2. \A r \in SUBSET (1 .. m) : f[r] = IF r = {} THEN Z ELSE FloydBetter(f[r \ {Max(r)}], k, (E[Max(r)]) \div g.n, (E[Max(r)]) % g.n)
      BY <1>8, <2>1 DEF FoldsOn
    <3> QED  BY <3>1, <3>2
  <2> QED  BY <1>1, <2>2
<1>10. It(fold)
  BY <1>9 DEF fold
<1>11. fold[{}] = Z
  BY <1>10
<1>12. ASSUME NEW i \in 0 .. m - 1, fold[1 .. i] \in S
       PROVE  fold[1 .. i + 1] = G[i + 1][fold[1 .. i]]
  <2>1. 1 .. i + 1 \in SUBSET DOMAIN E /\ 1 .. i + 1 # {}
    <3>1. 1 .. i + 1 \subseteq 1 .. m /\ 1 \in 1 .. i + 1
      BY <1>1
    <3> QED  BY <1>1, <3>1
  <2>2. Max(1 .. i + 1) = i + 1 /\ (1 .. i + 1) \ {i + 1} = 1 .. i
    <3>1. i \in Nat
      BY <1>1
    <3> QED  BY <1>4, <3>1, LastOfAll
  <2>3. fold[1 .. i + 1] = FloydBetter(fold[(1 .. i + 1) \ {Max(1 .. i + 1)}], k, (E[Max(1 .. i + 1)]) \div g.n, (E[Max(1 .. i + 1)]) % g.n)
    BY <1>10, <2>1
  <2>4. i + 1 \in 1 .. m
    BY <1>1
  <2> QED  BY <1>7, <1>12, <2>2, <2>3, <2>4
<1> DEFINE z == [i \in 0 .. m |-> fold[1 .. i]]
<1>13. Folds(z, S, Z, G, m)
  BY <1>1, <1>5, <1>6, <1>11, <1>12, FoldSteps
<1>14. z[m] = whole
  BY <1>1, <1>3
<1> HIDE DEF z
<1>15. z \in [0 .. m -> S] /\ z[0] = Z
  BY <1>13 DEF Folds
<1>16. ASSUME NEW i \in 1 .. m PROVE z[i] = FloydBetter(z[i - 1], k, (i - 1) \div g.n, (i - 1) % g.n)
  <2>1. z[i - 1] \in S /\ z[i] = G[i][z[i - 1]] /\ E[i] = i - 1
    BY <1>1, <1>13, <1>15 DEF Folds
  <2> QED  BY <1>7, <2>1
<1>17. StageStates(g, D, k, m, z)
  <2>1. \A i \in 1 .. m : z[i] = FloydBetter(z[i - 1], k, (i - 1) \div g.n, (i - 1) % g.n)
    BY <1>16
  <2> QED  BY <1>14, <1>15, <2>1 DEF StageStates, S, Z, whole
<1> QED  BY <1>17 DEF m

LEMMA StageKept ==
  ASSUME NEW g, IsGraph(g), NEW D \in PairDists(g), NEW k
  PROVE  FloydStage(g, D, k) \in PairDists(g)
<1>1. PICK z : z \in [0 .. g.n * g.n -> PairDists(g)] /\ z[g.n * g.n] = FloydStage(g, D, k)
  BY StageFolds DEF StageStates
<1>2. g.n * g.n \in 0 .. g.n * g.n
  BY Products DEF IsGraph
<1> QED  BY <1>1, <1>2

LEMMA FloydFolds ==
  ASSUME NEW g, IsGraph(g), FloydStart(g) \in PairDists(g)
  PROVE  \E z : /\ z \in [0 .. g.n -> PairDists(g)] /\ z[0] = FloydStart(g) /\ z[g.n] = floyd(g)
               /\ \A i \in 1 .. g.n : z[i] = FloydStage(g, z[i - 1], i - 1)
<1> DEFINE m == g.n
           E == [x \in 1 .. g.n |-> x - 1]
           S == PairDists(g)
           Z == FloydStart(g)
           G == [i \in 1 .. m |-> [x \in S |-> FloydStage(g, x, E[i])]]
           It(f) == f = [r \in SUBSET DOMAIN E |->
                           IF r = {} THEN Z
                           ELSE LET y == Max(r) IN FloydStage(g, f[r \ {y}], E[y])]
           fold == CHOOSE f : It(f)
           whole == floyd(g)
<1>1. m \in Nat /\ DOMAIN E = 1 .. m /\ \A i \in 1 .. m : E[i] = i - 1
  BY DEF IsGraph
<1>2. \A i \in 1 .. m, x \in S : FloydStage(g, x, E[i]) \in S
  BY StageKept
<1>3. whole = fold[1 .. m]
  BY <1>1 DEF floyd, FoldLeft, MapThenFoldSet
<1>4. \A r : Max(r) = LastOf(r)
  BY DEF Max, LastOf
<1>5. Z \in S
  OBVIOUS
<1> HIDE DEF E, m, S, Z, fold, whole
<1>6. G \in [1 .. m -> [S -> S]]
  BY <1>2
<1>7. \A i \in 1 .. m, x \in S : G[i][x] = FloydStage(g, x, E[i])
  OBVIOUS
<1> HIDE DEF G
<1>8. PICK f : FoldsOn(f, S, Z, G, m)
  BY <1>1, <1>5, <1>6, FoldExists
<1>9. It(f)
  <2>1. ASSUME NEW r \in SUBSET (1 .. m), r # {}
        PROVE  G[LastOf(r)][f[r \ {LastOf(r)}]] = FloydStage(g, f[r \ {Max(r)}], E[Max(r)])
    <3>1. LastOf(r) \in 1 .. m
      BY <1>1, <2>1, LastIs
    <3>2. f[r \ {LastOf(r)}] \in S
      BY <1>8 DEF FoldsOn
    <3> QED  BY <1>4, <1>7, <3>1, <3>2
  <2>2. f = [r \in SUBSET (1 .. m) |-> IF r = {} THEN Z ELSE FloydStage(g, f[r \ {Max(r)}], E[Max(r)])]
    <3>1. f = [r \in SUBSET (1 .. m) |-> f[r]]
      BY <1>8 DEF FoldsOn
    <3>2. \A r \in SUBSET (1 .. m) : f[r] = IF r = {} THEN Z ELSE FloydStage(g, f[r \ {Max(r)}], E[Max(r)])
      BY <1>8, <2>1 DEF FoldsOn
    <3> QED  BY <3>1, <3>2
  <2> QED  BY <1>1, <2>2
<1>10. It(fold)
  BY <1>9 DEF fold
<1>11. fold[{}] = Z
  BY <1>10
<1>12. ASSUME NEW i \in 0 .. m - 1, fold[1 .. i] \in S
       PROVE  fold[1 .. i + 1] = G[i + 1][fold[1 .. i]]
  <2>1. 1 .. i + 1 \in SUBSET DOMAIN E /\ 1 .. i + 1 # {}
    <3>1. 1 .. i + 1 \subseteq 1 .. m /\ 1 \in 1 .. i + 1
      BY <1>1
    <3> QED  BY <1>1, <3>1
  <2>2. Max(1 .. i + 1) = i + 1 /\ (1 .. i + 1) \ {i + 1} = 1 .. i
    <3>1. i \in Nat
      BY <1>1
    <3> QED  BY <1>4, <3>1, LastOfAll
  <2>3. fold[1 .. i + 1] = FloydStage(g, fold[(1 .. i + 1) \ {Max(1 .. i + 1)}], E[Max(1 .. i + 1)])
    BY <1>10, <2>1
  <2>4. i + 1 \in 1 .. m
    BY <1>1
  <2> QED  BY <1>7, <1>12, <2>2, <2>3, <2>4
<1> DEFINE z == [i \in 0 .. m |-> fold[1 .. i]]
<1>13. Folds(z, S, Z, G, m)
  BY <1>1, <1>5, <1>6, <1>11, <1>12, FoldSteps
<1>14. z[m] = whole
  BY <1>1, <1>3
<1> HIDE DEF z
<1>15. z \in [0 .. m -> S] /\ z[0] = Z
  BY <1>13 DEF Folds
<1>16. ASSUME NEW i \in 1 .. m PROVE z[i] = FloydStage(g, z[i - 1], i - 1)
  <2>1. z[i - 1] \in S /\ z[i] = G[i][z[i - 1]] /\ E[i] = i - 1
    BY <1>1, <1>13, <1>15 DEF Folds
  <2> QED  BY <1>7, <2>1
<1> QED  BY <1>14, <1>15, <1>16 DEF m, S, Z, whole

(* What the pairs before x make of the distances D at stage k: the row and *)
(* the column of k stay.                                                   *)
Both(D, k, i, j) == <<i, k>> \in DOMAIN D /\ <<k, j>> \in DOMAIN D
SameAt(D, E, p) == p \in DOMAIN D /\ E[p] = D[p]
Staged(g, D, k, x, E) ==
  /\ E \in PairDists(g) /\ NotFurther(E, D)
  /\ \A v \in NodesOf(g) : /\ <<v, k>> \in DOMAIN E => SameAt(D, E, <<v, k>>)
                           /\ <<k, v>> \in DOMAIN E => SameAt(D, E, <<k, v>>)
  /\ \A i, j \in NodesOf(g) : <<i, j>> \in DOMAIN E =>
       SameAt(D, E, <<i, j>>) \/ (Both(D, k, i, j) /\ E[<<i, j>>] = D[<<i, k>>] + D[<<k, j>>])
  /\ \A i, j \in NodesOf(g) : i * g.n + j < x /\ Both(D, k, i, j) =>
       <<i, j>> \in DOMAIN E /\ E[<<i, j>>] <= D[<<i, k>>] + D[<<k, j>>]

(* One pair more: what it reads, in the row and the column of k, is as at  *)
(* the start of the stage.                                                 *)
LEMMA StagedOn ==
  ASSUME NEW g, IsGraph(g), NEW D \in PairDists(g), NEW k \in NodesOf(g),
         <<k, k>> \in DOMAIN D, D[<<k, k>>] = 0,
         NEW x \in 0 .. g.n * g.n - 1, NEW E, Staged(g, D, k, x, E)
  PROVE  Staged(g, D, k, x + 1, FloydBetter(E, k, x \div g.n, x % g.n))
<1> DEFINE i == x \div g.n
           j == x % g.n
           F == FloydBetter(E, k, i, j)
           t == E[<<i, k>>] + E[<<k, j>>]
<1>1. /\ E \in PairDists(g) /\ NotFurther(E, D)
      /\ \A v \in NodesOf(g) : /\ <<v, k>> \in DOMAIN E => SameAt(D, E, <<v, k>>)
                               /\ <<k, v>> \in DOMAIN E => SameAt(D, E, <<k, v>>)
      /\ \A v, w \in NodesOf(g) : <<v, w>> \in DOMAIN E =>
           SameAt(D, E, <<v, w>>) \/ (Both(D, k, v, w) /\ E[<<v, w>>] = D[<<v, k>>] + D[<<k, w>>])
      /\ \A v, w \in NodesOf(g) : v * g.n + w < x /\ Both(D, k, v, w) =>
           <<v, w>> \in DOMAIN E /\ E[<<v, w>>] <= D[<<v, k>>] + D[<<k, w>>]
  BY DEF Staged
<1>2. i \in NodesOf(g) /\ j \in NodesOf(g)
  BY PairOf
<1>3. ASSUME NEW v \in NodesOf(g), NEW w \in NodesOf(g), v * g.n + w < x + 1
      PROVE  v * g.n + w < x \/ (v = i /\ w = j)
  <2>1. v \in Nat /\ w \in Nat /\ g.n \in Nat
    BY DEF NodesOf, IsGraph
  <2>2. v * g.n + w \in Nat /\ x \in Nat
    <3>1. v * g.n \in Nat /\ g.n * g.n \in Nat
      BY <2>1, Products
    <3> QED  BY <2>1, <3>1
  <2>3. x = v * g.n + w => v = i /\ w = j
    BY PairOf
  <2> DEFINE y == v * g.n + w
  <2>4. y \in Nat /\ y < x + 1 /\ (x = y => v = i /\ w = j)
    BY <1>3, <2>2, <2>3
  <2> HIDE DEF y, i, j
  <2>5. y < x \/ (v = i /\ w = j)
    BY <2>2, <2>4
  <2> QED  BY <2>5 DEF y
<1>4. /\ \A p \in DOMAIN D : p \in DOMAIN E /\ E[p] <= D[p] /\ D[p] \in Nat
      /\ \A p \in DOMAIN E : E[p] \in Nat
  BY <1>1, PairDistIs DEF NotFurther
<1> HIDE DEF i, j
<1>5. \A v, w \in NodesOf(g) : Both(E, k, v, w) => Both(D, k, v, w) /\ E[<<v, k>>] + E[<<k, w>>] = D[<<v, k>>] + D[<<k, w>>]
  BY <1>1 DEF Both, SameAt
<1>6. \A v, w \in NodesOf(g) : Both(D, k, v, w) => Both(E, k, v, w)
  BY <1>4 DEF Both
<1>7. CASE Both(E, k, i, j) /\ Closer(E, <<i, j>>, t)
  <2>1. F = With(E, <<i, j>>, t)
    BY <1>7 DEF FloydBetter, Both
  <2>2. t \in Nat /\ t = D[<<i, k>>] + D[<<k, j>>] /\ Both(D, k, i, j)
    BY <1>2, <1>4, <1>5, <1>7 DEF Both
  <2>3. PairNow(g, E, <<i, j>>, t, F)
    <3> HIDE DEF F, t
    <3>1. <<i, j>> \in NodesOf(g) \X NodesOf(g)
      BY <1>2
    <3> QED  BY <1>1, <2>1, <2>2, <3>1, PairWith
  <2>4. i # k /\ j # k
    <3>1. <<i, j>> \in DOMAIN E => t < E[<<i, j>>]
      BY <1>7 DEF Closer
    <3>2. <<i, k>> \in DOMAIN E /\ <<k, j>> \in DOMAIN E
      BY <1>7 DEF Both
    <3>3. <<k, k>> \in DOMAIN E /\ E[<<k, k>>] = 0
      BY <1>1, <1>4 DEF SameAt
    <3>4. E[<<i, k>>] \in Nat /\ E[<<k, j>>] \in Nat
      BY <1>4, <3>2
    <3>5. i = k => t = E[<<i, j>>]
      BY <3>3, <3>4
    <3>6. j = k => t = E[<<i, j>>]
      BY <3>3, <3>4
    <3> QED  BY <2>2, <3>1, <3>2, <3>5, <3>6
  <2> HIDE DEF F, t
  <2>5. /\ F \in PairDists(g) /\ DOMAIN F = DOMAIN E \cup {<<i, j>>} /\ F[<<i, j>>] = t
        /\ \A p \in DOMAIN E : p # <<i, j>> => F[p] = E[p]
    BY <2>3 DEF PairNow
  <2>6. <<i, j>> \in DOMAIN E => t < E[<<i, j>>]
    BY <1>7 DEF Closer, t
  <2>7. \A p \in DOMAIN E : p \in DOMAIN F /\ F[p] <= E[p] /\ F[p] \in Nat
    BY <1>4, <2>2, <2>5, <2>6
  <2>8. NotFurther(F, D)
    <3>1. ASSUME NEW p \in DOMAIN D PROVE p \in DOMAIN F /\ F[p] <= D[p]
      <4>1. p \in DOMAIN E /\ E[p] <= D[p] /\ D[p] \in Nat /\ E[p] \in Nat
        BY <1>4
      <4> QED  BY <2>7, <4>1
    <3> QED  BY <3>1 DEF NotFurther
  <2>9. ASSUME NEW v \in NodesOf(g)
        PROVE  /\ <<v, k>> \in DOMAIN F => SameAt(D, F, <<v, k>>)
               /\ <<k, v>> \in DOMAIN F => SameAt(D, F, <<k, v>>)
    <3>1. <<v, k>> # <<i, j>> /\ <<k, v>> # <<i, j>>
      BY <2>4
    <3> QED  BY <1>1, <2>5, <3>1 DEF SameAt
  <2>10. ASSUME NEW v \in NodesOf(g), NEW w \in NodesOf(g), <<v, w>> \in DOMAIN F
         PROVE  SameAt(D, F, <<v, w>>) \/ (Both(D, k, v, w) /\ F[<<v, w>>] = D[<<v, k>>] + D[<<k, w>>])
    <3>1. CASE v = i /\ w = j
      BY <2>2, <2>5, <3>1
    <3>2. CASE ~(v = i /\ w = j)
      <4>1. <<v, w>> # <<i, j>>
        BY <3>2
      <4>2. <<v, w>> \in DOMAIN E /\ F[<<v, w>>] = E[<<v, w>>]
        BY <2>5, <2>10, <4>1
      <4> QED  BY <1>1, <4>2 DEF SameAt
    <3> QED  BY <3>1, <3>2
  <2>11. ASSUME NEW v \in NodesOf(g), NEW w \in NodesOf(g), v * g.n + w < x + 1, Both(D, k, v, w)
         PROVE  <<v, w>> \in DOMAIN F /\ F[<<v, w>>] <= D[<<v, k>>] + D[<<k, w>>]
    <3>1. CASE v = i /\ w = j
      BY <2>2, <2>5, <3>1
    <3>2. CASE v * g.n + w < x
      <4>1. <<v, w>> \in DOMAIN E /\ E[<<v, w>>] <= D[<<v, k>>] + D[<<k, w>>] /\ E[<<v, w>>] \in Nat
        BY <1>1, <1>4, <2>11, <3>2
      <4>2. <<v, w>> \in DOMAIN F /\ F[<<v, w>>] <= E[<<v, w>>] /\ F[<<v, w>>] \in Nat
        BY <2>7, <4>1
      <4>3. D[<<v, k>>] \in Nat /\ D[<<k, w>>] \in Nat
        BY <1>4, <2>11 DEF Both
      <4> QED  BY <4>1, <4>2, <4>3
    <3> QED  BY <1>3, <2>11, <3>1, <3>2
  <2>12. Staged(g, D, k, x + 1, F)
    BY <2>5, <2>8, <2>9, <2>10, <2>11 DEF Staged
  <2> QED  BY <2>12 DEF F, i, j
<1>8. CASE ~(Both(E, k, i, j) /\ Closer(E, <<i, j>>, t))
  <2>1. F = E
    BY <1>8 DEF FloydBetter, Both
  <2>2. ASSUME NEW v \in NodesOf(g), NEW w \in NodesOf(g), v * g.n + w < x + 1, Both(D, k, v, w)
        PROVE  <<v, w>> \in DOMAIN E /\ E[<<v, w>>] <= D[<<v, k>>] + D[<<k, w>>]
    <3>1. CASE v = i /\ w = j
      <4>1. Both(E, k, i, j) /\ t = D[<<i, k>>] + D[<<k, j>>]
        BY <1>2, <1>5, <1>6, <2>2, <3>1
      <4>2. <<i, j>> \in DOMAIN E /\ ~(t < E[<<i, j>>])
        BY <1>8, <4>1 DEF Closer
      <4>3. t \in Nat /\ E[<<i, j>>] \in Nat
        BY <1>4, <4>1, <4>2 DEF Both
      <4> HIDE DEF t
      <4> QED  BY <3>1, <4>1, <4>2, <4>3
    <3>2. CASE v * g.n + w < x
      BY <1>1, <2>2, <3>2
    <3> QED  BY <1>3, <2>2, <3>1, <3>2
  <2> HIDE DEF F
  <2>3. Staged(g, D, k, x + 1, F)
    BY <1>1, <2>1, <2>2 DEF Staged
  <2> QED  BY <2>3 DEF F, i, j
<1> QED  BY <1>7, <1>8

LEMMA StageIs ==
  ASSUME NEW g, IsGraph(g), NEW D \in PairDists(g), NEW k \in NodesOf(g),
         <<k, k>> \in DOMAIN D, D[<<k, k>>] = 0
  PROVE  Staged(g, D, k, g.n * g.n, FloydStage(g, D, k))
<1> DEFINE m == g.n * g.n
<1>1. m \in Nat
  BY Products DEF IsGraph
<1>2a. PICK z : StageStates(g, D, k, m, z)
  BY StageFolds
<1>2. /\ z \in [0 .. m -> PairDists(g)] /\ z[0] = D /\ z[m] = FloydStage(g, D, k)
      /\ \A i \in 1 .. m : z[i] = FloydBetter(z[i - 1], k, (i - 1) \div g.n, (i - 1) % g.n)
  <2> HIDE DEF m
  <2> QED  BY <1>2a DEF StageStates
<1> DEFINE T == {x \in 0 .. m : Staged(g, D, k, x, z[x])}
<1>3. 0 \in T
  <2>1. NotFurther(D, D)
    BY PairDistIs DEF NotFurther
  <2>2. \A i, j \in NodesOf(g) : ~(i * g.n + j < 0)
    <3> SUFFICES ASSUME NEW i \in NodesOf(g), NEW j \in NodesOf(g) PROVE ~(i * g.n + j < 0)
      OBVIOUS
    <3>1. i \in Nat /\ j \in Nat /\ g.n \in Nat
      BY DEF NodesOf, IsGraph
    <3>2. i * g.n \in Nat
      BY <3>1, Products
    <3> QED  BY <3>1, <3>2
  <2>3. Staged(g, D, k, 0, D)
    BY <2>1, <2>2 DEF Staged, SameAt
  <2> HIDE DEF m
  <2> QED  BY <1>1, <1>2, <2>3
<1>4. ASSUME NEW x \in 0 .. m - 1, x \in T PROVE x + 1 \in T
  <2>1. x + 1 \in 0 .. m /\ x + 1 \in 1 .. m /\ (x + 1) - 1 = x
    <3> HIDE DEF m
    <3> QED  BY <1>1
  <2>2. z[x + 1] = FloydBetter(z[x], k, x \div g.n, x % g.n)
    BY <1>2, <2>1
  <2>3. Staged(g, D, k, x + 1, z[x + 1])
    BY <1>4, <2>2, StagedOn
  <2> QED  BY <2>1, <2>3
<1> HIDE DEF m
<1>5. \A x \in 0 .. m : x \in T
  <2> HIDE DEF T
  <2> QED  BY <1>1, <1>3, <1>4, SetInductionTo
<1>6. Staged(g, D, k, m, z[m])
  <2>1. m \in T
    BY <1>1, <1>5
  <2> QED  BY <2>1
<1> QED  BY <1>2, <1>6 DEF m

(* Two simple paths, one where the other ends, hold one of no more than    *)
(* both lengths.                                                           *)
LEMMA PathsJoin ==
  ASSUME NEW g, IsGraph(g), \A e \in EdgesOf(g) : e.weight \in Nat,
         NEW s, NEW q \in SimplePaths(g, s), NEW r \in SimplePaths(g, Last(q))
  PROVE  \E t \in SimplePaths(g, s) : Last(t) = Last(r) /\ Length(g, t) <= Length(g, q) + Length(g, r)
<1>1. PICK c : Costs(g, r, c) /\ Length(g, r) = c[Len(r)]
  BY SimpleCosts
<1> DEFINE l == Len(r)
           Led(x) == \E t \in SimplePaths(g, s) :
                       Last(t) = r[x + 1] /\ Length(g, t) <= Length(g, q) + c[x + 1]
           T == {x \in 0 .. l - 1 : Led(x)}
<1>2. /\ l \in Nat \ {0} /\ IsPath(g, r) /\ r[1] = Last(q) /\ Last(r) = r[l]
  BY SimpleIs
<1>3. /\ c \in [1 .. l -> Int] /\ c[1] = 0
      /\ \A i \in 1 .. l - 1 : c[i + 1] = c[i] + WeightOf(g, r[i], r[i + 1])
  BY <1>1 DEF Costs
<1>4. Length(g, q) \in Int /\ \A t \in SimplePaths(g, s) : Length(g, t) \in Int
  BY SimpleCosts
<1>5. 0 \in T
  <2>1. Length(g, q) <= Length(g, q) + c[0 + 1] /\ r[0 + 1] = Last(q) /\ 0 \in 0 .. l - 1
    BY <1>2, <1>3, <1>4
  <2> QED  BY <2>1
<1>6. ASSUME NEW x \in 0 .. (l - 1) - 1, x \in T PROVE x + 1 \in T
  <2>1. x + 1 \in 1 .. l - 1 /\ x + 1 \in 0 .. l - 1
    BY <1>2
  <2>2. PICK t \in SimplePaths(g, s) : Last(t) = r[x + 1] /\ Length(g, t) <= Length(g, q) + c[x + 1]
    BY <1>6
  <2>3. PICK e \in EdgesOf(g) : /\ e.from = r[x + 1] /\ e.to = r[(x + 1) + 1]
                                /\ e.weight = WeightOf(g, r[x + 1], r[(x + 1) + 1])
    BY <1>2, <2>1, StepsWeigh DEF l
  <2>4. PICK u \in SimplePaths(g, s) : Last(u) = e.to /\ Length(g, u) <= Length(g, t) + e.weight
    <3>1. ~HasNegativeCycle(g, s)
      BY NoNegativeCycle
    <3> QED  BY <2>2, <2>3, <3>1, EdgeLeadsOn
  <2>5. c[(x + 1) + 1] = c[x + 1] + e.weight /\ c[x + 1] \in Int /\ e.weight \in Int
    <3>1. x + 1 \in 1 .. l
      BY <2>1
    <3> QED  BY <1>3, <2>1, <2>3, <3>1
  <2>6. Length(g, u) <= Length(g, q) + c[(x + 1) + 1]
    <3>1. Length(g, u) \in Int /\ Length(g, t) \in Int
      BY <1>4
    <3> QED  BY <1>4, <2>2, <2>4, <2>5, <3>1
  <2>7. Led(x + 1)
    BY <2>3, <2>4, <2>6
  <2> QED  BY <2>1, <2>7
<1>7. \A x \in 0 .. l - 1 : x \in T
  <2>1. l - 1 \in Nat
    BY <1>2
  <2> HIDE DEF T
  <2> QED  BY <1>5, <1>6, <2>1, SetInductionTo
<1>8. (l - 1) + 1 = l /\ l - 1 \in 0 .. l - 1
  BY <1>2
<1>9. Led(l - 1)
  <2>1. l - 1 \in T
    BY <1>7, <1>8
  <2> HIDE DEF Led, l
  <2> QED  BY <2>1
<1>10. \E t \in SimplePaths(g, s) : Last(t) = r[l] /\ Length(g, t) <= Length(g, q) + c[l]
  <2> HIDE DEF l
  <2> QED  BY <1>8, <1>9
<1> QED  BY <1>1, <1>2, <1>10

(* What the stages before k have made of the distances.                    *)
Way(g, i, j, d) == \E q \in SimplePaths(g, i) : Last(q) = j /\ Length(g, q) <= d
Shortcut(g, k, D) ==
  \A i, j \in NodesOf(g) : Both(D, k, i, j) =>
    <<i, j>> \in DOMAIN D /\ D[<<i, j>>] <= D[<<i, k>>] + D[<<k, j>>]
Connected(g, k, D) ==
  /\ D \in PairDists(g)
  /\ \A v \in NodesOf(g) : <<v, v>> \in DOMAIN D /\ D[<<v, v>>] = 0
  /\ \A e \in EdgesOf(g) : <<e.from, e.to>> \in DOMAIN D /\ D[<<e.from, e.to>>] <= e.weight
  /\ \A i, j \in NodesOf(g) : <<i, j>> \in DOMAIN D => Way(g, i, j, D[<<i, j>>])
  /\ \A l \in 0 .. k - 1 : Shortcut(g, l, D)

(* A stage keeps it for one k more.                                        *)
LEMMA StageConnects ==
  ASSUME NEW g, IsGraph(g), \A e \in EdgesOf(g) : e.weight \in Nat,
         NEW k \in NodesOf(g), NEW D, Connected(g, k, D)
  PROVE  Connected(g, k + 1, FloydStage(g, D, k))
<1> DEFINE F == FloydStage(g, D, k)
<1>1. /\ D \in PairDists(g)
      /\ \A v \in NodesOf(g) : <<v, v>> \in DOMAIN D /\ D[<<v, v>>] = 0
      /\ \A e \in EdgesOf(g) : <<e.from, e.to>> \in DOMAIN D /\ D[<<e.from, e.to>>] <= e.weight
      /\ \A i, j \in NodesOf(g) : <<i, j>> \in DOMAIN D => Way(g, i, j, D[<<i, j>>])
      /\ \A l \in 0 .. k - 1 : Shortcut(g, l, D)
  BY DEF Connected
<1>2. Staged(g, D, k, g.n * g.n, F)
  BY <1>1, StageIs
<1> HIDE DEF F
<1>3. ASSUME NEW i \in NodesOf(g), NEW j \in NodesOf(g) PROVE i * g.n + j < g.n * g.n
  <2>1. i \in Nat /\ j \in Nat /\ g.n \in Nat \ {0} /\ i < g.n /\ j < g.n /\ g.n - 1 - i \in Nat
    BY DEF NodesOf, IsGraph
  <2>2. (g.n - 1 - i) * g.n = g.n * g.n - g.n - i * g.n /\ (g.n - 1 - i) * g.n \in Nat
        /\ i * g.n \in Nat /\ g.n * g.n \in Nat
    BY <2>1, Products
  <2> DEFINE w == (g.n - 1 - i) * g.n  x == g.n * g.n  y == i * g.n
  <2>3. w = x - g.n - y /\ w \in Nat /\ x \in Nat /\ y \in Nat
    BY <2>2
  <2> HIDE DEF w, x, y
  <2>4. y + j < x
    BY <2>1, <2>3
  <2> QED  BY <2>4 DEF x, y
<1>4. /\ F \in PairDists(g) /\ NotFurther(F, D)
      /\ \A v \in NodesOf(g) : /\ <<v, k>> \in DOMAIN F => SameAt(D, F, <<v, k>>)
                               /\ <<k, v>> \in DOMAIN F => SameAt(D, F, <<k, v>>)
      /\ \A i, j \in NodesOf(g) : <<i, j>> \in DOMAIN F =>
           SameAt(D, F, <<i, j>>) \/ (Both(D, k, i, j) /\ F[<<i, j>>] = D[<<i, k>>] + D[<<k, j>>])
      /\ \A i, j \in NodesOf(g) : Both(D, k, i, j) =>
           <<i, j>> \in DOMAIN F /\ F[<<i, j>>] <= D[<<i, k>>] + D[<<k, j>>]
  BY <1>2, <1>3 DEF Staged
<1>5. /\ \A p \in DOMAIN D : p \in DOMAIN F /\ F[p] <= D[p] /\ D[p] \in Nat /\ F[p] \in Nat
      /\ \A p \in DOMAIN F : F[p] \in Nat
  <2>1. /\ \A p \in DOMAIN D : D[p] \in Nat
        /\ \A p \in DOMAIN F : F[p] \in Nat
    BY <1>1, <1>4, PairDistIs
  <2> QED  BY <1>4, <2>1 DEF NotFurther
<1>6. ASSUME NEW v \in NodesOf(g) PROVE <<v, v>> \in DOMAIN F /\ F[<<v, v>>] = 0
  <2>1. <<v, v>> \in DOMAIN D /\ D[<<v, v>>] = 0
    BY <1>1
  <2> QED  BY <1>5, <2>1
<1>7. ASSUME NEW e \in EdgesOf(g) PROVE <<e.from, e.to>> \in DOMAIN F /\ F[<<e.from, e.to>>] <= e.weight
  <2>1. <<e.from, e.to>> \in DOMAIN D /\ D[<<e.from, e.to>>] <= e.weight /\ e.weight \in Nat
    BY <1>1
  <2> DEFINE p == <<e.from, e.to>>
  <2>2. p \in DOMAIN F /\ F[p] <= D[p] /\ D[p] \in Nat /\ F[p] \in Nat
    BY <1>5, <2>1
  <2> QED  BY <2>1, <2>2
<1>8. ASSUME NEW i \in NodesOf(g), NEW j \in NodesOf(g), <<i, j>> \in DOMAIN F
      PROVE  Way(g, i, j, F[<<i, j>>])
  <2>1. CASE SameAt(D, F, <<i, j>>)
    BY <1>1, <2>1 DEF SameAt
  <2>2. CASE Both(D, k, i, j) /\ F[<<i, j>>] = D[<<i, k>>] + D[<<k, j>>]
    <3>1. PICK q \in SimplePaths(g, i) : Last(q) = k /\ Length(g, q) <= D[<<i, k>>]
      BY <1>1, <2>2 DEF Both, Way
    <3>2. PICK r \in SimplePaths(g, k) : Last(r) = j /\ Length(g, r) <= D[<<k, j>>]
      BY <1>1, <2>2 DEF Both, Way
    <3>3. PICK t \in SimplePaths(g, i) : Last(t) = j /\ Length(g, t) <= Length(g, q) + Length(g, r)
      BY <3>1, <3>2, PathsJoin
    <3>4. Length(g, q) \in Int /\ Length(g, r) \in Int /\ Length(g, t) \in Int
      BY SimpleCosts
    <3>5. D[<<i, k>>] \in Nat /\ D[<<k, j>>] \in Nat
      BY <1>5, <2>2 DEF Both
    <3>6. Length(g, t) <= F[<<i, j>>]
      BY <2>2, <3>1, <3>2, <3>3, <3>4, <3>5
    <3> QED  BY <3>3, <3>6 DEF Way
  <2> QED  BY <1>4, <1>8, <2>1, <2>2
<1>9. ASSUME NEW l \in NodesOf(g), Shortcut(g, l, D) \/ l = k PROVE Shortcut(g, l, F)
  <2> SUFFICES ASSUME NEW i \in NodesOf(g), NEW j \in NodesOf(g), Both(F, l, i, j)
               PROVE  <<i, j>> \in DOMAIN F /\ F[<<i, j>>] <= F[<<i, l>>] + F[<<l, j>>]
    BY DEF Shortcut
  <2>1. <<i, l>> \in DOMAIN F /\ <<l, j>> \in DOMAIN F /\ F[<<i, l>>] \in Nat /\ F[<<l, j>>] \in Nat
    BY <1>5 DEF Both
  <2>2. ASSUME NEW x \in Nat, Both(D, k, i, j), D[<<i, k>>] + D[<<k, j>>] <= x
        PROVE  <<i, j>> \in DOMAIN F /\ F[<<i, j>>] <= x
    <3>1. <<i, j>> \in DOMAIN F /\ F[<<i, j>>] <= D[<<i, k>>] + D[<<k, j>>] /\ F[<<i, j>>] \in Nat
      BY <1>4, <1>5, <2>2
    <3>2. D[<<i, k>>] \in Nat /\ D[<<k, j>>] \in Nat
      BY <1>5, <2>2 DEF Both
    <3> QED  BY <2>2, <3>1, <3>2
  <2> DEFINE X == F[<<i, l>>] + F[<<l, j>>]
  <2>3. X \in Nat
    BY <2>1
  <2>4. CASE l = k
    <3>1. SameAt(D, F, <<i, k>>) /\ SameAt(D, F, <<k, j>>)
      BY <1>4, <2>1, <2>4
    <3>2. Both(D, k, i, j) /\ D[<<i, k>>] + D[<<k, j>>] = X
      BY <2>4, <3>1 DEF SameAt, Both
    <3> QED  BY <2>2, <2>3, <3>2
  <2>5. CASE Shortcut(g, l, D)
    <3>0. \A v, w \in NodesOf(g) : Both(D, l, v, w) =>
             <<v, w>> \in DOMAIN D /\ D[<<v, w>>] <= D[<<v, l>>] + D[<<l, w>>]
      BY <2>5 DEF Shortcut
    <3>1. CASE SameAt(D, F, <<i, l>>) /\ SameAt(D, F, <<l, j>>)
      <4>1. Both(D, l, i, j) /\ D[<<i, l>>] + D[<<l, j>>] = X
        BY <3>1 DEF Both, SameAt
      <4>2. <<i, j>> \in DOMAIN D /\ D[<<i, j>>] <= X
        BY <3>0, <4>1
      <4>3. <<i, j>> \in DOMAIN F /\ F[<<i, j>>] <= D[<<i, j>>] /\ F[<<i, j>>] \in Nat /\ D[<<i, j>>] \in Nat
        BY <1>5, <4>2
      <4> HIDE DEF X
      <4>4. F[<<i, j>>] <= X
        BY <2>3, <4>2, <4>3
      <4> QED  BY <4>3, <4>4 DEF X
    <3>2. CASE SameAt(D, F, <<i, l>>) /\ Both(D, k, l, j) /\ F[<<l, j>>] = D[<<l, k>>] + D[<<k, j>>]
      <4>1. <<i, l>> \in DOMAIN D /\ <<l, k>> \in DOMAIN D /\ <<k, j>> \in DOMAIN D
        BY <3>2 DEF Both, SameAt
      <4>2. <<i, k>> \in DOMAIN D /\ D[<<i, k>>] <= D[<<i, l>>] + D[<<l, k>>]
        BY <3>0, <4>1 DEF Both
      <4>3. X = D[<<i, l>>] + D[<<l, k>>] + D[<<k, j>>]
        <5>1. D[<<i, l>>] \in Nat /\ D[<<l, k>>] \in Nat /\ D[<<k, j>>] \in Nat
          BY <1>5, <4>1
        <5> QED  BY <3>2, <5>1 DEF SameAt
      <4>4. D[<<i, k>>] + D[<<k, j>>] <= X
        <5>1. D[<<i, l>>] \in Nat /\ D[<<l, k>>] \in Nat /\ D[<<k, j>>] \in Nat /\ D[<<i, k>>] \in Nat
          BY <1>5, <4>1, <4>2
        <5> HIDE DEF X
        <5> QED  BY <4>2, <4>3, <5>1
      <4>5. Both(D, k, i, j)
        BY <4>1, <4>2 DEF Both
      <4> QED  BY <2>2, <2>3, <4>4, <4>5
    <3>3. CASE Both(D, k, i, l) /\ F[<<i, l>>] = D[<<i, k>>] + D[<<k, l>>] /\ SameAt(D, F, <<l, j>>)
      <4>1. <<i, k>> \in DOMAIN D /\ <<k, l>> \in DOMAIN D /\ <<l, j>> \in DOMAIN D
        BY <3>3 DEF Both, SameAt
      <4>2. <<k, j>> \in DOMAIN D /\ D[<<k, j>>] <= D[<<k, l>>] + D[<<l, j>>]
        BY <3>0, <4>1 DEF Both
      <4>3. D[<<i, k>>] \in Nat /\ D[<<k, l>>] \in Nat /\ D[<<l, j>>] \in Nat /\ D[<<k, j>>] \in Nat
        BY <1>5, <4>1, <4>2
      <4>4. X = D[<<i, k>>] + D[<<k, l>>] + D[<<l, j>>]
        BY <3>3, <4>3 DEF SameAt
      <4>5. D[<<i, k>>] + D[<<k, j>>] <= X
        <5> HIDE DEF X
        <5> QED  BY <4>2, <4>3, <4>4
      <4>6. Both(D, k, i, j)
        BY <4>1, <4>2 DEF Both
      <4> QED  BY <2>2, <2>3, <4>5, <4>6
    <3>4. CASE /\ Both(D, k, i, l) /\ F[<<i, l>>] = D[<<i, k>>] + D[<<k, l>>]
               /\ Both(D, k, l, j) /\ F[<<l, j>>] = D[<<l, k>>] + D[<<k, j>>]
      <4>1. <<i, k>> \in DOMAIN D /\ <<k, l>> \in DOMAIN D /\ <<l, k>> \in DOMAIN D /\ <<k, j>> \in DOMAIN D
        BY <3>4 DEF Both
      <4>2. D[<<i, k>>] \in Nat /\ D[<<k, l>>] \in Nat /\ D[<<l, k>>] \in Nat /\ D[<<k, j>>] \in Nat
        BY <1>5, <4>1
      <4>3. X = (D[<<i, k>>] + D[<<k, l>>]) + (D[<<l, k>>] + D[<<k, j>>])
        BY <3>4
      <4>4. D[<<i, k>>] + D[<<k, j>>] <= X
        <5> HIDE DEF X
        <5> QED  BY <4>2, <4>3
      <4>5. Both(D, k, i, j)
        BY <4>1 DEF Both
      <4> QED  BY <2>2, <2>3, <4>4, <4>5
    <3> QED  BY <1>4, <2>1, <3>1, <3>2, <3>3, <3>4
  <2> QED  BY <1>9, <2>4, <2>5
<1>10. ASSUME NEW l \in 0 .. (k + 1) - 1 PROVE Shortcut(g, l, F)
  <2>1. k \in Nat /\ k < g.n /\ g.n \in Nat
    BY DEF NodesOf, IsGraph
  <2>2. l \in NodesOf(g) /\ (l \in 0 .. k - 1 \/ l = k)
    BY <2>1 DEF NodesOf
  <2> QED  BY <1>1, <1>9, <2>2
<1> HIDE DEF F
<1>11. Connected(g, k + 1, F)
  BY <1>4, <1>6, <1>7, <1>8, <1>10 DEF Connected
<1> QED  BY <1>11 DEF F

(* It holds of the edges alone ...                                         *)
LEMMA FloydStarts ==
  ASSUME NEW g, IsGraph(g), \A e \in EdgesOf(g) : e.weight \in Nat,
         \A e, f \in EdgesOf(g) : e.from = f.from /\ e.to = f.to => e.weight = f.weight
  PROVE  Connected(g, 0, FloydStart(g))
<1> DEFINE N == NodesOf(g)
           A == {<<u, u>> : u \in N} \cup {<<e.from, e.to>> : e \in EdgesOf(g)}
           V(p) == (CHOOSE e \in EdgesOf(g) : e.from = p[1] /\ e.to = p[2]).weight
           D == [p \in A |-> IF p[1] = p[2] THEN 0 ELSE V(p)]
<1>1. FloydStart(g) = D
  BY DEF FloydStart
<1>2. A \in SUBSET (N \X N)
  <2>1. \A e \in EdgesOf(g) : e.from \in N /\ e.to \in N
    BY EdgeIs
  <2> QED  BY <2>1
<1>3. ASSUME NEW e \in EdgesOf(g) PROVE V(<<e.from, e.to>>) = e.weight
  <2>1. \E f \in EdgesOf(g) : f.from = <<e.from, e.to>>[1] /\ f.to = <<e.from, e.to>>[2]
    OBVIOUS
  <2> DEFINE f == CHOOSE f \in EdgesOf(g) : f.from = <<e.from, e.to>>[1] /\ f.to = <<e.from, e.to>>[2]
  <2>2. f \in EdgesOf(g) /\ f.from = <<e.from, e.to>>[1] /\ f.to = <<e.from, e.to>>[2]
    BY <2>1
  <2>3. f.weight = e.weight
    <3> HIDE DEF f
    <3> QED  BY <2>2
  <2> QED  BY <2>3
<1>4. ASSUME NEW p \in A
      PROVE  \/ p[1] = p[2] /\ p[1] \in N
             \/ p[1] # p[2] /\ \E e \in EdgesOf(g) : e.from = p[1] /\ e.to = p[2] /\ V(p) = e.weight
  <2>1. CASE \E e \in EdgesOf(g) : p = <<e.from, e.to>>
    <3>1. PICK e \in EdgesOf(g) : p = <<e.from, e.to>>
      BY <2>1
    <3>2. V(p) = e.weight /\ p[1] = e.from /\ p[2] = e.to /\ e.from \in N
      <4> HIDE DEF V
      <4> QED  BY <1>3, <3>1, EdgeIs
    <3> HIDE DEF V
    <3> QED  BY <3>1, <3>2
  <2>2. CASE \E u \in N : p = <<u, u>>
    BY <2>2
  <2> QED  BY <2>1, <2>2
<1> HIDE DEF V
<1>5. D \in [A -> Nat]
  BY <1>4
<1>6. D \in PairDists(g)
  <2> HIDE DEF D, A
  <2> QED  BY <1>2, <1>5 DEF PairDists
<1>7. ASSUME NEW v \in N PROVE <<v, v>> \in A /\ D[<<v, v>>] = 0
  OBVIOUS
<1>8. ASSUME NEW e \in EdgesOf(g) PROVE <<e.from, e.to>> \in A /\ D[<<e.from, e.to>>] <= e.weight
  <2>1. <<e.from, e.to>> \in A /\ e.weight \in Nat
    OBVIOUS
  <2>2. D[<<e.from, e.to>>] = IF e.from = e.to THEN 0 ELSE e.weight
    BY <1>3, <2>1
  <2> QED  BY <2>1, <2>2
<1>9. ASSUME NEW i \in N, NEW j \in N, <<i, j>> \in A PROVE Way(g, i, j, D[<<i, j>>])
  <2>0. PICK q \in SimplePaths(g, i) : Last(q) = i /\ Length(g, q) <= 0
    <3>1. i \in DOMAIN OnlySource(i) /\ OnlySource(i)[i] = 0
      BY StartIsZero
    <3> QED  BY <3>1, StartAttained DEF Attained
  <2>1. CASE i = j
    <3>1. D[<<i, j>>] = 0
      BY <1>7, <2>1
    <3> HIDE DEF D
    <3> QED  BY <2>0, <2>1, <3>1 DEF Way
  <2>2. CASE i # j
    <3>1. PICK e \in EdgesOf(g) : e.from = i /\ e.to = j /\ V(<<i, j>>) = e.weight
      BY <1>4, <1>9, <2>2
    <3>2. D[<<i, j>>] = e.weight
      BY <1>9, <2>2, <3>1
    <3>3. PICK r \in SimplePaths(g, i) : Last(r) = e.to /\ Length(g, r) <= Length(g, q) + e.weight
      <4>1. ~HasNegativeCycle(g, i)
        BY NoNegativeCycle
      <4> QED  BY <2>0, <3>1, <4>1, EdgeLeadsOn
    <3>4. Length(g, q) \in Int /\ Length(g, r) \in Int /\ e.weight \in Nat
      BY SimpleCosts
    <3>5. Length(g, r) <= e.weight
      BY <2>0, <3>3, <3>4
    <3> HIDE DEF D
    <3> QED  BY <3>1, <3>2, <3>3, <3>5 DEF Way
  <2> QED  BY <2>1, <2>2
<1>10. DOMAIN D = A
  OBVIOUS
<1> HIDE DEF D, A
<1>11. Connected(g, 0, D)
  BY <1>6, <1>7, <1>8, <1>9, <1>10 DEF Connected
<1> QED  BY <1>1, <1>11

(* ... and after every stage.                                              *)
LEMMA FloydConnects ==
  ASSUME NEW g, IsGraph(g), \A e \in EdgesOf(g) : e.weight \in Nat,
         \A e, f \in EdgesOf(g) : e.from = f.from /\ e.to = f.to => e.weight = f.weight
  PROVE  Connected(g, g.n, floyd(g))
<1>1. Connected(g, 0, FloydStart(g))
  BY FloydStarts
<1>2. PICK z : /\ z \in [0 .. g.n -> PairDists(g)] /\ z[0] = FloydStart(g) /\ z[g.n] = floyd(g)
               /\ \A i \in 1 .. g.n : z[i] = FloydStage(g, z[i - 1], i - 1)
  <2>1. FloydStart(g) \in PairDists(g)
    BY <1>1 DEF Connected
  <2> QED  BY <2>1, FloydFolds
<1>3. g.n \in Nat
  BY DEF IsGraph
<1> DEFINE T == {k \in 0 .. g.n : Connected(g, k, z[k])}
<1>4. 0 \in T
  BY <1>1, <1>2, <1>3
<1>5. ASSUME NEW k \in 0 .. g.n - 1, k \in T PROVE k + 1 \in T
  <2>1. k + 1 \in 0 .. g.n /\ k + 1 \in 1 .. g.n /\ (k + 1) - 1 = k
    BY <1>3
  <2>2. z[k + 1] = FloydStage(g, z[k], k) /\ k \in NodesOf(g)
    BY <1>2, <2>1 DEF NodesOf
  <2>3. Connected(g, k + 1, z[k + 1])
    BY <1>5, <2>2, StageConnects
  <2> QED  BY <2>1, <2>3
<1>6. \A k \in 0 .. g.n : k \in T
  <2> HIDE DEF T
  <2> QED  BY <1>3, <1>4, <1>5, SetInductionTo
<1>7. g.n \in T
  BY <1>3, <1>6
<1> QED  BY <1>2, <1>7

(* floyd_warshall.cpp: with weights of at least zero, and one for each pair*)
(* of nodes, the row of a node holds the least length of a path from it to *)
(* every node that is reached.                                             *)
THEOREM FloydIsRight ==
  ASSUME NEW g, IsGraph(g), \A e \in EdgesOf(g) : e.weight \in Nat,
         \A e, f \in EdgesOf(g) : e.from = f.from /\ e.to = f.to => e.weight = f.weight,
         NEW s \in NodesOf(g)
  PROVE  FloydRow(floyd(g), s) = Shortest(g, s)
<1> DEFINE D == floyd(g)
           R == FloydRow(D, s)
<1>1. Connected(g, g.n, D)
  BY FloydConnects
<1> HIDE DEF D
<1>2. /\ D \in PairDists(g)
      /\ <<s, s>> \in DOMAIN D /\ D[<<s, s>>] = 0
      /\ \A e \in EdgesOf(g) : <<e.from, e.to>> \in DOMAIN D /\ D[<<e.from, e.to>>] <= e.weight
      /\ \A i, j \in NodesOf(g) : <<i, j>> \in DOMAIN D => Way(g, i, j, D[<<i, j>>])
      /\ \A l \in NodesOf(g) : Shortcut(g, l, D)
  BY <1>1 DEF Connected, NodesOf
<1>3. DOMAIN D \subseteq NodesOf(g) \X NodesOf(g) /\ \A p \in DOMAIN D : D[p] \in Nat
  BY <1>2, PairDistIs
<1>4. /\ DOMAIN R \subseteq NodesOf(g)
      /\ \A v : v \in DOMAIN R <=> <<s, v>> \in DOMAIN D
      /\ \A v \in DOMAIN R : R[v] = D[<<s, v>>] /\ R[v] \in Nat
  <2> DEFINE B == {p[2] : p \in {q \in DOMAIN D : q[1] = s}}
  <2>1. R = [v \in B |-> D[<<s, v>>]]
    BY DEF FloydRow
  <2>2. \A v : v \in B <=> <<s, v>> \in DOMAIN D
    <3>1. \A p \in DOMAIN D : p = <<p[1], p[2]>>
      BY <1>3
    <3>2. \A v : <<s, v>>[1] = s /\ <<s, v>>[2] = v
      OBVIOUS
    <3> QED  BY <3>1, <3>2
  <2>3. DOMAIN R = B
    BY <2>1
  <2> HIDE DEF B, R
  <2>4. \A v \in B : v \in NodesOf(g) /\ D[<<s, v>>] \in Nat
    BY <1>3, <2>2
  <2> QED  BY <2>1, <2>2, <2>3, <2>4
<1>5. R \in Dists(g)
  <2> DEFINE B == {p[2] : p \in {q \in DOMAIN D : q[1] = s}}
             F == [v \in B |-> D[<<s, v>>]]
  <2>1. R = F /\ DOMAIN R = B
    BY DEF FloydRow
  <2>2. \A v \in B : D[<<s, v>>] \in Int /\ v \in NodesOf(g)
    <3> HIDE DEF B
    <3>1. \A v \in B : <<s, v>> \in DOMAIN D /\ v \in NodesOf(g)
      BY <1>4, <2>1
    <3> QED  BY <1>3, <3>1
  <2> HIDE DEF B
  <2>3. F \in [B -> Int] /\ B \in SUBSET NodesOf(g)
    BY <2>2
  <2> HIDE DEF F
  <2> QED  BY <2>1, <2>3 DEF Dists
<1> HIDE DEF R
<1>6. Attained(g, s, R)
  <2> SUFFICES ASSUME NEW v \in DOMAIN R
               PROVE  \E q \in SimplePaths(g, s) : Last(q) = v /\ Length(g, q) <= R[v]
    BY DEF Attained
  <2>1. v \in NodesOf(g) /\ <<s, v>> \in DOMAIN D /\ R[v] = D[<<s, v>>]
    BY <1>4
  <2> QED  BY <1>2, <2>1 DEF Way
<1>7. ASSUME NEW q \in SimplePaths(g, s) PROVE Last(q) \in DOMAIN R /\ R[Last(q)] <= Length(g, q)
  <2>1. PICK c : Costs(g, q, c) /\ Length(g, q) = c[Len(q)]
    BY SimpleCosts
  <2> DEFINE l == Len(q)
             Near(x) == <<s, q[x]>> \in DOMAIN D /\ D[<<s, q[x]>>] <= c[x]
             T == {x \in 0 .. l - 1 : Near(x + 1)}
  <2>2. /\ l \in Nat \ {0} /\ IsPath(g, q) /\ q[1] = s /\ Last(q) = q[l]
        /\ \A x \in 1 .. l : q[x] \in NodesOf(g)
    BY SimpleIs
  <2>3. /\ c \in [1 .. l -> Int] /\ c[1] = 0
        /\ \A i \in 1 .. l - 1 : c[i + 1] = c[i] + WeightOf(g, q[i], q[i + 1])
    BY <2>1 DEF Costs
  <2>4. 0 \in T
    BY <1>2, <2>2, <2>3
  <2>5. ASSUME NEW x \in 0 .. (l - 1) - 1, x \in T PROVE x + 1 \in T
    <3>1. x + 1 \in 1 .. l - 1 /\ x + 1 \in 0 .. l - 1 /\ x + 1 \in 1 .. l /\ (x + 1) + 1 \in 1 .. l
      BY <2>2
    <3> DEFINE u == q[x + 1]  v == q[(x + 1) + 1]
    <3>2. PICK e \in EdgesOf(g) : e.from = u /\ e.to = v /\ e.weight = WeightOf(g, u, v)
      BY <2>2, <3>1, StepsWeigh DEF l
    <3>3. <<s, u>> \in DOMAIN D /\ D[<<s, u>>] <= c[x + 1]
      BY <2>5
    <3>4. <<u, v>> \in DOMAIN D /\ D[<<u, v>>] <= e.weight
      BY <1>2, <3>2
    <3>5. c[(x + 1) + 1] = c[x + 1] + e.weight /\ c[x + 1] \in Int /\ e.weight \in Nat
      BY <2>3, <3>1, <3>2
    <3>6. u \in NodesOf(g) /\ v \in NodesOf(g)
      BY <2>2, <3>1
    <3> HIDE DEF u, v
    <3>7. <<s, v>> \in DOMAIN D /\ D[<<s, v>>] <= D[<<s, u>>] + D[<<u, v>>]
      <4>1. Both(D, u, s, v) /\ Shortcut(g, u, D)
        BY <1>2, <3>3, <3>4, <3>6 DEF Both
      <4> QED  BY <3>6, <4>1 DEF Shortcut
    <3>8. D[<<s, v>>] \in Nat /\ D[<<s, u>>] \in Nat /\ D[<<u, v>>] \in Nat
      BY <1>3, <3>3, <3>4, <3>7
    <3>9. D[<<s, v>>] <= c[(x + 1) + 1]
      BY <3>3, <3>4, <3>5, <3>7, <3>8
    <3>10. Near((x + 1) + 1)
      BY <3>7, <3>9 DEF v
    <3> HIDE DEF Near
    <3> QED  BY <3>1, <3>10
  <2>6. \A x \in 0 .. l - 1 : x \in T
    <3>1. l - 1 \in Nat
      BY <2>2
    <3> HIDE DEF T
    <3> QED  BY <2>4, <2>5, <3>1, SetInductionTo
  <2>7. Near(l)
    <3>1. l - 1 \in T /\ (l - 1) + 1 = l
      BY <2>2, <2>6
    <3> HIDE DEF Near, l
    <3> QED  BY <3>1
  <2> QED  BY <1>4, <2>1, <2>2, <2>7
<1> QED  BY <1>5, <1>6, <1>7, LeastAreShortest DEF R, D

-----------------------------------------------------------------------------
(* Bellman-Ford and its extra pass, as PathsAreShortest says it.           *)
LEMMA SignedRight ==
  ASSUME NEW g, IsGraph(g), NEW s \in NodesOf(g)
  PROVE  /\ negativeCycle(g, bellmanFord(g, s)) = HasNegativeCycle(g, s)
         /\ ~negativeCycle(g, bellmanFord(g, s)) => bellmanFord(g, s) = Shortest(g, s)
<1>1. negativeCycle(g, bellmanFord(g, s)) \in BOOLEAN
  BY DEF negativeCycle
<1>2. HasNegativeCycle(g, s) \in BOOLEAN
  BY DEF HasNegativeCycle
<1> QED  BY <1>1, <1>2, BellmanFordIsRight

(* The graphs of the other algorithms.                                     *)
LEMMA NaturalWeights ==
  ASSUME NEW g, IsGraph(g), NoneNegative(g)
  PROVE  \A e \in EdgesOf(g) : e.weight \in Nat
<1> SUFFICES ASSUME NEW e \in EdgesOf(g) PROVE e.weight \in Nat
  OBVIOUS
<1>1. e.weight \in Int
  BY EdgeIs
<1>2. e.weight >= 0
  BY DEF NoneNegative
<1> QED  BY <1>1, <1>2

LEMMA GuidesByOne ==
  ASSUME NEW g, IsGraph(g), NEW k \in Nat \ {0}, \A e \in EdgesOf(g) : e.weight \in Nat,
         NEW H \in [NodesOf(g) -> Nat],
         \A e \in EdgesOf(g) : H[e.from] <= k * e.weight + H[e.to]
  PROVE  Guides(g, k, H)
  BY DEF Guides, Measures

(* A simple path is a way for Answers.                                     *)
LEMMA SimpleIsWay ==
  ASSUME NEW g, IsGraph(g), NEW s, NEW p \in SimplePaths(g, s)
  PROVE  IsWay(g, s, Last(p), p)
<1>1. /\ p[1] = s /\ IsInjective(p) /\ IsPath(g, p)
      /\ Len(p) \in 1 .. g.n
  BY SimpleIs DEF SimplePaths
<1>2. p # <<>>
  BY <1>1
<1> QED  BY <1>1, <1>2 DEF IsWay

(* What is returned answers the query, as far off as its cost is.          *)
LEMMA AnswersRight ==
  ASSUME NEW g, IsGraph(g), NEW k, NEW H, Measures(g, k, H),
         NEW s \in NodesOf(g), NEW goal \in NodesOf(g),
         NEW c \in Nat, goal \in DOMAIN Shortest(g, s) =>
                          100 * guided(g, s, goal, k, H).cost <= c * Shortest(g, s)[goal]
  PROVE  Answers(g, Shortest(g, s), guided(g, s, goal, k, H), s, goal, c)
<1> DEFINE r == guided(g, s, goal, k, H)
           best == Shortest(g, s)
<1>1. /\ goal \notin DOMAIN best => r.cost = -1 /\ r.path = <<>>
      /\ goal \in DOMAIN best =>
           /\ r.path \in SimplePaths(g, s) /\ Last(r.path) = goal
           /\ best[goal] <= Length(g, r.path) /\ Length(g, r.path) <= r.cost
  BY AnswersAreWays
<1>2. goal \in DOMAIN best => best[goal] \in Nat /\ Length(g, r.path) \in Int /\ r.cost \in Int
  <2> SUFFICES ASSUME goal \in DOMAIN best
               PROVE  best[goal] \in Nat /\ Length(g, r.path) \in Int /\ r.cost \in Int
    OBVIOUS
  <2>1. \A e \in EdgesOf(g) : e.weight \in Nat
    BY DEF Measures
  <2>2. best[goal] \in Nat
    BY <2>1, ShortestIs
  <2>3. PICK d : Costs(g, r.path, d) /\ Length(g, r.path) = d[Len(r.path)]
    BY <1>1, SimpleCosts
  <2>4. Len(r.path) \in 1 .. Len(r.path)
    BY <1>1, SimpleIs
  <2>5. goal \in DOMAIN guidedSearch(g, s, goal, k, H).dist
    BY WaysLeadBack
  <2>6. guidedSearch(g, s, goal, k, H).dist \in NatDists(g)
    BY WalkRuns DEF Walks, GuidedStates
  <2>7. r.cost \in Int
    BY <2>5, <2>6, NatDistIs DEF guided
  <2> QED  BY <2>2, <2>3, <2>4, <2>7 DEF Costs
<1>3. goal \in DOMAIN best => IsWay(g, s, goal, r.path)
  BY <1>1, SimpleIsWay
<1> QED  BY <1>1, <1>2, <1>3 DEF Answers

LEMMA NoCycleBelowZero ==
  ASSUME NEW g, IsGraph(g), \A e \in EdgesOf(g) : e.weight \in Nat, NEW s \in NodesOf(g)
  PROVE  bellmanFord(g, s) = Shortest(g, s)
<1>1. ~HasNegativeCycle(g, s)
  BY NoNegativeCycle
<1> QED  BY <1>1, BellmanFordIsRight

LEMMA WaysRight ==
  ASSUME NEW g, IsGraph(g), NoneNegative(g), OneForEachPair(g), NEW s \in NodesOf(g)
  PROVE  /\ dijkstra(g, s) = Shortest(g, s) /\ bellmanFord(g, s) = Shortest(g, s)
         /\ FloydRow(floyd(g), s) = Shortest(g, s)
<1>1. \A e \in EdgesOf(g) : e.weight \in Nat
  BY NaturalWeights
<1>2. \A e, f \in EdgesOf(g) : e.from = f.from /\ e.to = f.to => e.weight = f.weight
  BY DEF OneForEachPair
<1>3. dijkstra(g, s) = Shortest(g, s)
  BY <1>1, DijkstraIsRight
<1>4. bellmanFord(g, s) = Shortest(g, s)
  BY <1>1, NoCycleBelowZero
<1>5. FloydRow(floyd(g), s) = Shortest(g, s)
  BY <1>1, <1>2, FloydIsRight
<1> QED  BY <1>3, <1>4, <1>5

LEMMA AStarAnswers ==
  ASSUME NEW g, IsGraph(g), NoneNegative(g), NEW s \in NodesOf(g), NEW goal \in NodesOf(g),
         NEW H \in [NodesOf(g) -> Nat], Consistent(g, H)
  PROVE  Answers(g, Shortest(g, s), astar(g, s, goal, H), s, goal, 100)
<1>1. \A e \in EdgesOf(g) : e.weight \in Nat
  BY NaturalWeights
<1>2. \A e \in EdgesOf(g) : H[e.from] <= 1 * e.weight + H[e.to]
  <2> SUFFICES ASSUME NEW e \in EdgesOf(g) PROVE H[e.from] <= 1 * e.weight + H[e.to]
    OBVIOUS
  <2>1. H[e.from] <= e.weight + H[e.to] /\ e.weight \in Nat
    BY <1>1 DEF Consistent
  <2>2. 1 * e.weight = e.weight
    BY <2>1
  <2> QED  BY <2>1, <2>2
<1>3. Guides(g, 1, H)
  BY <1>1, <1>2, GuidesByOne
<1>4. Measures(g, 1, H)
  BY <1>3 DEF Guides
<1>5. goal \in DOMAIN Shortest(g, s) =>
        100 * guided(g, s, goal, 1, H).cost <= 100 * Shortest(g, s)[goal]
  <2> SUFFICES ASSUME goal \in DOMAIN Shortest(g, s)
               PROVE  100 * guided(g, s, goal, 1, H).cost <= 100 * Shortest(g, s)[goal]
    OBVIOUS
  <2>1. guided(g, s, goal, 1, H).cost = Shortest(g, s)[goal]
    BY <1>3, <1>4, AnswersAreWays
  <2>2. Shortest(g, s)[goal] \in Nat
    BY <1>1, ShortestIs
  <2> QED  BY <2>1, <2>2
<1> QED  BY <1>4, <1>5, AnswersRight DEF astar

LEMMA ReachedRight ==
  ASSUME NEW g, IsGraph(g), NEW s \in NodesOf(g)
  PROVE  /\ bfs(g, s) = FewestHops(g, s)
         /\ \A v \in DOMAIN bfs(g, s) :
              /\ v \in NodesOf(g)
              /\ IsWay(g, s, v, bfsPath(g, s, v)) /\ Len(bfsPath(g, s, v)) = bfs(g, s)[v] + 1
<1>1. /\ bfs(g, s) = FewestHops(g, s)
      /\ \A v \in DOMAIN FewestHops(g, s) :
           /\ bfsPath(g, s, v) \in SimplePaths(g, s) /\ Last(bfsPath(g, s, v)) = v
           /\ Len(bfsPath(g, s, v)) - 1 = FewestHops(g, s)[v]
  BY BfsPathIsRight
<1> SUFFICES ASSUME NEW v \in DOMAIN bfs(g, s)
             PROVE  /\ v \in NodesOf(g)
                    /\ IsWay(g, s, v, bfsPath(g, s, v)) /\ Len(bfsPath(g, s, v)) = bfs(g, s)[v] + 1
  BY <1>1
<1>2. /\ bfsPath(g, s, v) \in SimplePaths(g, s) /\ Last(bfsPath(g, s, v)) = v
      /\ Len(bfsPath(g, s, v)) - 1 = bfs(g, s)[v]
  BY <1>1
<1>3. IsWay(g, s, v, bfsPath(g, s, v)) /\ v \in NodesOf(g) /\ Len(bfsPath(g, s, v)) \in Nat
  BY <1>2, SimpleIsWay, SimpleIs
<1> QED  BY <1>2, <1>3

(* The problem stays one, which the algorithms need.                       *)
PathsKept == IsPathProblem(problem) /\ PathsAreShortest

(* The problems whose answers PathsAreShortest compares.                   *)
LEMMA FamilyIs ==
  ASSUME NEW p, IsPathProblem(p)
  PROVE  /\ p.family = "signed" => IsGraph(p.g) /\ p.source \in NodesOf(p.g)
         /\ p.family = "ways" =>
              /\ IsGraph(p.g) /\ p.source \in NodesOf(p.g) /\ NoneNegative(p.g) /\ OneForEachPair(p.g)
              /\ p.estimate \in [NodesOf(p.g) -> [NodesOf(p.g) -> Nat]]
              /\ \A goal \in NodesOf(p.g) : Consistent(p.g, p.estimate[goal])
         /\ p.family = "reached" => IsGraph(p.g) /\ p.source \in NodesOf(p.g)
<1>1. CASE p.family = "signed"
  BY <1>1 DEF IsPathProblem
<1>2. CASE p.family = "ways"
  BY <1>2 DEF IsPathProblem
<1>3. CASE p.family = "reached"
  BY <1>3 DEF IsPathProblem
<1> QED  BY <1>1, <1>2, <1>3

(* PathsAreShortest: whatever the graph, the source and the estimates,     *)
(* what the algorithms of graph/ and include/graph.hpp return are the      *)
(* least lengths of all simple paths, and the paths walked back are such.  *)
THEOREM PathsAreRight == PathSpec => []PathsAreShortest
<1>1. PathInit => PathsKept
  BY DEF PathInit, PathsKept, PathsAreShortest, Solved
<1>2. ASSUME PathsKept, [PathNext]_pathVars PROVE PathsKept'
  <2> DEFINE g == problem.g
             s == problem.source
  <2>0. IsPathProblem(problem) /\ PathsAreShortest
    BY <1>2 DEF PathsKept
  <2>1. CASE UNCHANGED pathVars
    BY <2>0, <2>1 DEF pathVars, PathsKept, PathsAreShortest, Solved
  <2>2. CASE PathNext
    <3>1. problem' = problem /\ IsPathProblem(problem')
      BY <2>0, <2>2 DEF PathNext, SolveSigned, SolveWays, SolveReached, SolveJourneys, SolveHops, SolvedBy
    <3>2. CASE SolveSigned
      <4>1. /\ problem.family = "signed"
            /\ answer' = [bellman |-> bellmanFord(g, s), negative |-> negativeCycle(g, bellmanFord(g, s))]
        BY <3>2 DEF SolveSigned, SolvedBy
      <4>2. IsGraph(g) /\ s \in NodesOf(g)
        BY <2>0, <4>1, FamilyIs
      <4>3. /\ answer'.negative = HasNegativeCycle(g, s)
            /\ ~answer'.negative => answer'.bellman = Shortest(g, s)
        BY <4>1, <4>2, SignedRight
      <4> QED  BY <3>1, <4>1, <4>3 DEF PathsKept, PathsAreShortest, Solved
    <3>3. CASE SolveWays
      <4> DEFINE a == [goal \in NodesOf(g) |-> astar(g, s, goal, problem.estimate[goal])]
      <4>1. /\ problem.family = "ways"
            /\ answer' = [dijkstra |-> dijkstra(g, s), bellman |-> bellmanFord(g, s), floyd |-> floyd(g),
                          astar |-> a]
        BY <3>3 DEF SolveWays, SolvedBy
      <4>2. /\ IsGraph(g) /\ s \in NodesOf(g) /\ NoneNegative(g) /\ OneForEachPair(g)
            /\ problem.estimate \in [NodesOf(g) -> [NodesOf(g) -> Nat]]
            /\ \A goal \in NodesOf(g) : Consistent(g, problem.estimate[goal])
        BY <2>0, <4>1, FamilyIs
      <4>3. /\ answer'.dijkstra = Shortest(g, s) /\ answer'.bellman = Shortest(g, s)
            /\ FloydRow(answer'.floyd, s) = Shortest(g, s)
        BY <4>1, <4>2, WaysRight
      <4>4. \A goal \in NodesOf(g) : Answers(g, Shortest(g, s), answer'.astar[goal], s, goal, 100)
        <5> SUFFICES ASSUME NEW goal \in NodesOf(g)
                     PROVE  Answers(g, Shortest(g, s), answer'.astar[goal], s, goal, 100)
          OBVIOUS
        <5>1. answer'.astar[goal] = astar(g, s, goal, problem.estimate[goal])
          BY <4>1
        <5>2. problem.estimate[goal] \in [NodesOf(g) -> Nat] /\ Consistent(g, problem.estimate[goal])
          BY <4>2
        <5> QED  BY <4>2, <5>1, <5>2, AStarAnswers
      <4> QED  BY <3>1, <4>1, <4>3, <4>4 DEF PathsKept, PathsAreShortest, Solved
    <3>4. CASE SolveReached
      <4>1. /\ problem.family = "reached"
            /\ answer' = [bfs |-> bfs(g, s), ways |-> [v \in NodesOf(g) |-> bfsPath(g, s, v)]]
        BY <3>4 DEF SolveReached, SolvedBy
      <4>2. IsGraph(g) /\ s \in NodesOf(g)
        BY <2>0, <4>1, FamilyIs
      <4>3. /\ answer'.bfs = FewestHops(g, s)
            /\ \A v \in DOMAIN answer'.bfs :
                 IsWay(g, s, v, answer'.ways[v]) /\ Len(answer'.ways[v]) = answer'.bfs[v] + 1
        BY <4>1, <4>2, ReachedRight
      <4> QED  BY <3>1, <4>1, <4>3 DEF PathsKept, PathsAreShortest, Solved
    <3>5. CASE SolveJourneys
      <4>1. problem.family = "journeys"
        BY <3>5 DEF SolveJourneys, SolvedBy
      <4> QED  BY <3>1, <4>1 DEF PathsKept, PathsAreShortest, Solved
    <3>6. CASE SolveHops
      <4>1. problem.family = "hops"
        BY <3>6 DEF SolveHops, SolvedBy
      <4> QED  BY <3>1, <4>1 DEF PathsKept, PathsAreShortest, Solved
    <3> QED  BY <2>2, <3>2, <3>3, <3>4, <3>5, <3>6 DEF PathNext
  <2> QED  BY <1>2, <2>1, <2>2
<1>3. PathsKept => PathsAreShortest
  BY DEF PathsKept
<1> QED  BY <1>1, <1>2, <1>3, PTL DEF PathSpec

(* Once the goal is closed nothing that is still open is nearer, with what *)
(* remains of it estimated, than the goal was.                             *)
NoneNearer(g, s, goal, k, a, H, x) ==
  goal \in x.closed =>
    \A p \in SimplePaths(g, s) : \A c : Costs(g, p, c) =>
      \A i \in 1 .. Len(p) :
        p[i] \notin x.closed => Priority(k, H, x.dist[goal], goal) <= a * c[i] + H[p[i]]

GuidedEnds(g, s, goal, k, a, H, x) ==
  GuidedFinds(g, s, goal, k, a, H, x) /\ NoneNearer(g, s, goal, k, a, H, x)

(* It holds when the goal is popped, as the least of the queue, and the    *)
(* search ends there.                                                      *)
LEMMA NoneNearerKept ==
  ASSUME NEW g, IsGraph(g), NEW s, NEW goal, NEW k, NEW a, NEW H, Steers(g, k, a, H),
         NEW x, GuidedEnds(g, s, goal, k, a, H, x)
  PROVE  GuidedEnds(g, s, goal, k, a, H, GuidedTurn(g, goal, k, H, x))
<1> DEFINE D == x.dist
           Q == x.pq
           C == x.closed
           y == GuidedTurn(g, goal, k, H, x)
<1>0. x \in GuidedStates(g) /\ Guided(g, s, goal, k, a, H, D, Q, C)
  BY DEF GuidedEnds, GuidedFinds
<1>1. GuidedFinds(g, s, goal, k, a, H, y)
  BY <1>0, GuidedTurns DEF GuidedFinds
<1>2. CASE Finished(goal, x)
  <2>1. y = x
    BY <1>2 DEF GuidedTurn
  <2> QED  BY <2>1
<1>3. CASE ~Finished(goal, x)
  <2> DEFINE top == Top(Q)
             u == top[2]
             R == Q \ {top}
             B == C \cup {u}
             popped == [x EXCEPT !.pq = R, !.u = u]
             closed == [popped EXCEPT !.closed = B]
  <2>0. Q # {} /\ goal \notin C
    BY <1>3 DEF Finished
  <2>1. /\ D \in NatDists(g) /\ IsFiniteSet(Q) /\ Q \in SUBSET (Nat \X NodesOf(g))
        /\ C \in SUBSET DOMAIN D /\ DOMAIN D \subseteq NodesOf(g)
        /\ \A q \in Q : q[2] \in DOMAIN D /\ Priority(k, H, D[q[2]], q[2]) <= q[1]
    BY <1>0, NatDistIs DEF Guided
  <2>2. top \in Q /\ \A q \in Q : top[1] <= q[1]
    <3>1. g.n \in Nat
      BY DEF IsGraph
    <3> QED  BY <2>0, <2>1, <3>1, TopIs
  <2> HIDE DEF top
  <2>3. u \in NodesOf(g) /\ u \in DOMAIN D /\ D[u] \in Nat /\ top[1] \in Nat
    BY <2>1, <2>2, NatDistIs
  <2>4. R \in SUBSET (Nat \X NodesOf(g)) /\ IsFiniteSet(R) /\ B \in SUBSET NodesOf(g)
    BY <2>1, <2>2, <2>3, FS_RemoveElement
  <2>5. y = IF u \in C THEN popped ELSE IF u = goal THEN closed ELSE EdgesOffered(g, k, H, closed)
    BY <1>3 DEF GuidedTurn, top
  <2> HIDE DEF R, B, y
  <2>6. popped.closed = C
    BY <1>0 DEF GuidedStates
  <2>7. /\ closed \in GuidedStates(g) /\ closed.dist = D /\ closed.pq = R /\ closed.closed = B
        /\ closed.u = u
    BY <1>0, <2>3, <2>4 DEF GuidedStates
  <2> HIDE DEF popped, closed, D, Q, C, u
  <2>8. CASE u \in C
    <3>1. goal \notin y.closed
      BY <2>0, <2>5, <2>6, <2>8
    <3> QED  BY <1>1, <3>1 DEF GuidedEnds, NoneNearer, y
  <2>9. CASE u \notin C /\ u = goal
    <3>1. y.dist = D /\ y.closed = B
      BY <2>5, <2>7, <2>9
    <3>2. ASSUME NEW p \in SimplePaths(g, s), NEW c, Costs(g, p, c), NEW i \in 1 .. Len(p), p[i] \notin y.closed
          PROVE  Priority(k, H, y.dist[goal], goal) <= a * c[i] + H[p[i]]
      <4>1. p[i] \notin C
        BY <3>1, <3>2 DEF B
      <4>2. top[1] <= a * c[i] + H[p[i]]
        BY <1>0, <2>0, <2>2, <2>3, <3>2, <4>1, LeastIsBounded DEF D, Q, C
      <4>3. Priority(k, H, D[goal], goal) <= top[1]
        BY <2>1, <2>2, <2>9 DEF u
      <4>4. Priority(k, H, D[goal], goal) \in Nat
        BY <2>3, <2>9, SteersIs, PriorityIs
      <4>5. a * c[i] + H[p[i]] \in Int
        <5>1. c[i] \in Nat
          BY <3>2, SteersIs, CostsRise
        <5>2. p[i] \in NodesOf(g)
          BY <3>2, SimpleIs
        <5>3. a * c[i] \in Nat /\ H[p[i]] \in Nat
          BY <5>1, <5>2, SteersIs
        <5> QED  BY <5>3
      <4> DEFINE t == a * c[i] + H[p[i]]
                 w == Priority(k, H, D[goal], goal)
      <4>6. w <= t
        <5>1. w \in Nat /\ t \in Int /\ w <= top[1] /\ top[1] <= t
          BY <4>2, <4>3, <4>4, <4>5
        <5> HIDE DEF w, t
        <5> QED  BY <2>3, <5>1
      <4> QED  BY <3>1, <4>6
    <3> QED  BY <1>1, <3>2 DEF GuidedEnds, NoneNearer, y
  <2>10. CASE u \notin C /\ u # goal
    <3>1. y = EdgesOffered(g, k, H, closed)
      BY <2>5, <2>10
    <3>2. closed \in Exploring(g, B, u, D[u]) /\ IsFiniteSet(closed.pq)
      BY <2>3, <2>4, <2>7 DEF Exploring
    <3>3. y \in Exploring(g, B, u, D[u])
      BY <2>3, <3>1, <3>2, SteersIs, OfferedAll
    <3>4. goal \notin y.closed
      BY <2>0, <2>10, <3>3 DEF Exploring, B
    <3> QED  BY <1>1, <3>4 DEF GuidedEnds, NoneNearer, y
  <2> QED  BY <2>8, <2>9, <2>10
<1> QED  BY <1>2, <1>3

LEMMA GuidedEnded ==
  ASSUME NEW g, IsGraph(g), NEW k, NEW a, NEW H, Steers(g, k, a, H), NEW goal, NEW s \in NodesOf(g)
  PROVE  GuidedEnds(g, s, goal, k, a, H, guidedSearch(g, s, goal, k, H))
<1> DEFINE m == Len(g.edges) + 1
           S == {x \in GuidedStates(g) : GuidedEnds(g, s, goal, k, a, H, x)}
<1>1. m \in Nat
  BY EdgeIs
<1>2. \A x \in S : GuidedTurn(g, goal, k, H, x) \in S
  BY NoneNearerKept DEF GuidedEnds, GuidedFinds
<1>3. GuidedStart(s, H) \in S
  <2>1. GuidedStart(s, H).closed = {}
    BY DEF GuidedStart
  <2> QED  BY <2>1, GuidedStarts DEF GuidedEnds, GuidedFinds, NoneNearer
<1> HIDE DEF S
<1>4. PICK z : TurnStates(g, s, goal, k, H, S, z)
  BY <1>2, <1>3, TurnsFold
<1>5. z \in [0 .. m -> S] /\ z[m] = guidedSearch(g, s, goal, k, H)
  BY <1>4 DEF TurnStates
<1>6. m \in 0 .. m
  BY <1>1
<1> HIDE DEF m
<1>7. z[m] \in S
  BY <1>5, <1>6
<1> QED  BY <1>5, <1>7 DEF S

(* The nodes that a guided search leaves out: none if the goal cannot be   *)
(* reached, else only those that are, with what is estimated to remain, as *)
(* far as the goal or further.                                             *)
THEOREM NoneNearerIsLeft ==
  ASSUME NEW g, IsGraph(g), NEW k, NEW a, NEW H, Steers(g, k, a, H),
         NEW s \in NodesOf(g), NEW goal \in NodesOf(g)
  PROVE  LET r == guidedSearch(g, s, goal, k, H)
             best == Shortest(g, s)
         IN  /\ goal \notin DOMAIN best => r.closed = DOMAIN best
             /\ goal \in DOMAIN best =>
                  \A v \in DOMAIN best \ r.closed : k * best[goal] + H[goal] <= a * best[v] + H[v]
<1> DEFINE r == guidedSearch(g, s, goal, k, H)
           best == Shortest(g, s)
           D == r.dist
           Q == r.pq
           C == r.closed
<1>1. /\ goal \in C <=> goal \in DOMAIN best
      /\ C \subseteq DOMAIN best
      /\ Finished(goal, r)
      /\ \A v \in C : best[v] <= D[v]
  BY GuidedIsRight
<1>2. /\ Guided(g, s, goal, k, a, H, D, Q, C)
      /\ NoneNearer(g, s, goal, k, a, H, r)
  BY GuidedEnded DEF GuidedEnds, GuidedFinds
<1>3. /\ \A v \in DOMAIN best :
           best[v] \in Nat /\ \E p \in SimplePaths(g, s) : Last(p) = v /\ Length(g, p) = best[v]
  BY SteersIs, ShortestIs DEF Measures
<1> HIDE DEF best
<1>4. ASSUME NEW v \in DOMAIN best
      PROVE  \E p \in SimplePaths(g, s) : \E c :
               /\ Costs(g, p, c) /\ p[Len(p)] = v /\ c[Len(p)] = best[v] /\ Len(p) \in 1 .. Len(p)
               /\ v \in NodesOf(g)
  <2>1. PICK p \in SimplePaths(g, s) : Last(p) = v /\ Length(g, p) = best[v]
    BY <1>3
  <2>2. PICK c : Costs(g, p, c) /\ Length(g, p) = c[Len(p)]
    BY SimpleCosts
  <2>3. Len(p) \in 1 .. Len(p) /\ Last(p) = p[Len(p)] /\ Last(p) \in NodesOf(g)
    BY SimpleIs
  <2> QED  BY <2>1, <2>2, <2>3
<1>5. ASSUME goal \notin DOMAIN best PROVE C = DOMAIN best
  <2>1. goal \notin C /\ Q = {}
    BY <1>1, <1>5 DEF Finished
  <2>2. ASSUME NEW v \in DOMAIN best, v \notin C PROVE FALSE
    <3>1. PICK p, c : /\ p \in SimplePaths(g, s) /\ Costs(g, p, c) /\ p[Len(p)] = v
                      /\ Len(p) \in 1 .. Len(p)
      BY <1>4, <2>2
    <3>2. \A q \in Q : 0 <= q[1]
      BY <2>1
    <3> HIDE DEF r, D, Q, C
    <3>3. Q # {}
      BY <1>2, <2>1, <2>2, <3>1, <3>2, LeastIsBounded
    <3> QED  BY <2>1, <3>3
  <2> QED  BY <1>1, <2>2
<1>6. ASSUME goal \in DOMAIN best, NEW v \in DOMAIN best, v \notin C
      PROVE  k * best[goal] + H[goal] <= a * best[v] + H[v]
  <2>1. PICK p, c : /\ p \in SimplePaths(g, s) /\ Costs(g, p, c) /\ p[Len(p)] = v
                    /\ c[Len(p)] = best[v] /\ Len(p) \in 1 .. Len(p) /\ v \in NodesOf(g)
    BY <1>4, <1>6
  <2>2. Priority(k, H, D[goal], goal) <= a * best[v] + H[v]
    BY <1>1, <1>2, <1>6, <2>1 DEF NoneNearer
  <2>3. /\ best[goal] <= D[goal] /\ best[goal] \in Nat /\ best[v] \in Nat /\ D[goal] \in Nat
        /\ H[goal] \in Nat /\ H[v] \in Nat
    <3>1. D[goal] \in Nat
      BY <1>1, <1>2, <1>6, NatDistIs DEF Guided
    <3> QED  BY <1>1, <1>3, <1>6, <2>1, <3>1, SteersIs
  <2> HIDE DEF D
  <2>4. k * best[goal] <= k * D[goal] /\ k * best[goal] \in Nat /\ k * D[goal] \in Nat /\ a * best[v] \in Nat
    BY <2>3, SteersIs
  <2> DEFINE x == k * best[goal]  y == k * D[goal]  w == a * best[v]
  <2>5. x <= y /\ x \in Nat /\ y \in Nat /\ w \in Nat /\ y + H[goal] <= w + H[v]
    BY <2>2, <2>4 DEF Priority
  <2> HIDE DEF x, y, w
  <2>6. x + H[goal] <= w + H[v]
    BY <2>3, <2>5
  <2> QED  BY <2>6 DEF x, w
<1> QED  BY <1>5, <1>6 DEF r, best

(* What astar_search.cpp reports as explored, with an estimate that        *)
(* contradicts no edge.                                                    *)
LEMMA ExploresRight ==
  ASSUME NEW g, IsGraph(g), NEW k, NEW H, Guides(g, k, H),
         NEW s \in NodesOf(g), NEW goal \in NodesOf(g)
  PROVE  ExploresNoMore(Shortest(g, s), guided(g, s, goal, k, H), goal, k, H)
<1> DEFINE best == Shortest(g, s)
           r == guidedSearch(g, s, goal, k, H)
           C == r.closed
<1>1. guided(g, s, goal, k, H).explored = C
  BY DEF guided
<1>2. Steers(g, k, k, H)
  BY DEF Steers, Guides, Measures
<1>3. /\ goal \notin DOMAIN best => C = DOMAIN best
      /\ goal \in DOMAIN best =>
           \A v \in DOMAIN best \ C : k * best[goal] + H[goal] <= k * best[v] + H[v]
  BY <1>2, NoneNearerIsLeft
<1>4. \A u \in C : /\ u \in DOMAIN best
                   /\ goal \in DOMAIN best => k * best[u] + H[u] <= k * best[goal] + H[goal]
  BY AStarIsRight
<1>5. \A v \in DOMAIN best : k * best[v] + H[v] \in Int
  <2> SUFFICES ASSUME NEW v \in DOMAIN best PROVE k * best[v] + H[v] \in Int
    OBVIOUS
  <2>1. PICK p \in SimplePaths(g, s) : Last(p) = v /\ best[v] \in Nat
    <3>1. \A e \in EdgesOf(g) : e.weight \in Nat
      BY DEF Guides, Measures
    <3>2. best[v] \in Nat /\ \E p \in SimplePaths(g, s) : Last(p) = v /\ Length(g, p) = best[v]
      BY <3>1, ShortestIs
    <3> QED  BY <3>2
  <2>2. v \in NodesOf(g)
    BY <2>1, SimpleIs
  <2>3. H[v] \in Nat /\ k * best[v] \in Nat
    BY <1>2, <2>1, <2>2, SteersIs
  <2> HIDE DEF best
  <2> QED  BY <2>3
<1> DEFINE f(v) == k * best[v] + H[v]
<1>6. ASSUME goal \in DOMAIN best
      PROVE  /\ {v \in DOMAIN best : f(v) < f(goal)} \subseteq C
             /\ C \subseteq {v \in DOMAIN best : f(v) <= f(goal)}
  <2>1. \A v \in DOMAIN best : f(v) \in Int
    BY <1>5
  <2>2. \A v \in DOMAIN best \ C : f(goal) <= f(v)
    BY <1>3, <1>6
  <2>3. \A u \in C : u \in DOMAIN best /\ f(u) <= f(goal)
    BY <1>4, <1>6
  <2> HIDE DEF f, best, C
  <2>4. ASSUME NEW v \in DOMAIN best, f(v) < f(goal) PROVE v \in C
    BY <1>6, <2>1, <2>2, <2>4
  <2> QED  BY <2>3, <2>4
<1> QED  BY <1>1, <1>3, <1>6 DEF ExploresNoMore

(* Sequences.                                                              *)
LEMMA SequenceIs ==
  ASSUME NEW S, NEW q \in Seq(S)
  PROVE  Len(q) \in Nat /\ DOMAIN q = 1 .. Len(q) /\ \A i \in 1 .. Len(q) : q[i] \in S
OBVIOUS

LEMMA SequenceIn ==
  ASSUME NEW S, NEW T, S \subseteq T, NEW q \in Seq(S)
  PROVE  q \in Seq(T)
OBVIOUS

(* The edges that are loaded from lines.                                   *)
LEMMA EachWayIs ==
  ASSUME NEW A, NEW lines \in Seq([from : A, to : A, weight : Nat])
  PROVE  /\ EachWay(lines) \in Seq([from : A, to : A, weight : Nat])
         /\ \A e \in ToSet(EachWay(lines)) :
              \E i \in 1 .. Len(lines) : e = lines[i] \/ e = TheOtherWay(lines[i])
<1> DEFINE m == Len(lines)
           E == EachWay(lines)
           S == [from : A, to : A, weight : Nat]
<1>1. m \in Nat /\ \A i \in 1 .. m : lines[i] \in S /\ TheOtherWay(lines[i]) \in S
  <2>1. lines \in Seq(S)
    OBVIOUS
  <2>2. \A e \in S : TheOtherWay(e) \in S
    BY DEF TheOtherWay
  <2> HIDE DEF S
  <2>3. Len(lines) \in Nat /\ \A i \in 1 .. Len(lines) : lines[i] \in S
    BY <2>1, SequenceIs
  <2> QED  BY <2>2, <2>3
<1>2. ASSUME NEW i \in 1 .. 2 * m
      PROVE  \E j \in 1 .. m : E[i] = lines[j] \/ E[i] = TheOtherWay(lines[j])
  <2>1. CASE i % 2 = 1
    <3>1. E[i] = lines[(i + 1) \div 2]
      BY <2>1 DEF EachWay
    <3>2. (i + 1) \div 2 \in 1 .. m
      BY <1>1, <2>1
    <3> QED  BY <3>1, <3>2
  <2>2. CASE i % 2 # 1
    <3>1. E[i] = TheOtherWay(lines[i \div 2])
      BY <2>2 DEF EachWay
    <3>2. i \div 2 \in 1 .. m
      BY <1>1, <2>2
    <3> QED  BY <3>1, <3>2
  <2> QED  BY <2>1, <2>2
<1>3. DOMAIN E = 1 .. 2 * m /\ 2 * m \in Nat /\ E = [i \in 1 .. 2 * m |-> E[i]]
  BY <1>1 DEF EachWay
<1> HIDE DEF m, E, S
<1>4. \A i \in 1 .. 2 * m : E[i] \in S
  BY <1>1, <1>2
<1>5. E \in Seq(S) /\ ToSet(E) = {E[i] : i \in 1 .. 2 * m}
  BY <1>3, <1>4 DEF ToSet
<1> QED  BY <1>2, <1>5 DEF E, S, m

(* The roads.                                                              *)
LEMMA LoadIs ==
  ASSUME NEW n, NEW place, NEW lines, IsRoads(n, place, lines)
  PROVE  LET g == load(n, place, lines)
         IN  /\ IsGraph(g) /\ NodesOf(g) = 0 .. n - 1
             /\ \A e \in EdgesOf(g) :
                  /\ e.from \in NodesOf(g) /\ e.to \in NodesOf(g) /\ e.weight \in Nat
                  /\ haversine(g, e.from, e.to) <= e.weight
             /\ \A u \in NodesOf(g) : g.place[u] \in Int
             /\ \A u, v \in NodesOf(g) : g.place[u] = g.place[v] => u = v
<1> DEFINE g == load(n, place, lines)
           A == 0 .. n - 1
           q == [place |-> place]
<1>1. /\ n \in Nat /\ place \in [A -> Int] /\ lines \in Seq([from : A, to : A, weight : Nat])
      /\ \A i \in 1 .. Len(lines) : haversine(q, lines[i].from, lines[i].to) <= lines[i].weight
      /\ \A u, v \in A : place[u] = place[v] => u = v
  BY DEF IsRoads, IsInjective
<1>2. g.n = n /\ g.place = place /\ g.edges = EachWay(lines) /\ NodesOf(g) = A
  BY DEF load, NodesOf
<1>3. q.place = place
  OBVIOUS
<1> HIDE DEF g, A, q
<1>4. \A u, v \in A : /\ haversine(g, u, v) = haversine(q, u, v)
                      /\ haversine(q, u, v) = haversine(q, v, u)
  <2> SUFFICES ASSUME NEW u \in A, NEW v \in A
               PROVE  /\ haversine(g, u, v) = haversine(q, u, v)
                      /\ haversine(q, u, v) = haversine(q, v, u)
    OBVIOUS
  <2>1. place[u] \in Int /\ place[v] \in Int
    BY <1>1
  <2> QED  BY <1>2, <1>3, <2>1 DEF haversine
<1>5. ASSUME NEW e \in EdgesOf(g)
      PROVE  e.from \in A /\ e.to \in A /\ e.weight \in Nat /\ haversine(g, e.from, e.to) <= e.weight
  <2>1. PICK i \in 1 .. Len(lines) : e = lines[i] \/ e = TheOtherWay(lines[i])
    BY <1>1, <1>2, <1>5, EachWayIs DEF EdgesOf
  <2>2. lines[i] \in [from : A, to : A, weight : Nat] /\ haversine(q, lines[i].from, lines[i].to) <= lines[i].weight
    BY <1>1, SequenceIs
  <2>3. \/ e.from = lines[i].from /\ e.to = lines[i].to /\ e.weight = lines[i].weight
        \/ e.from = lines[i].to /\ e.to = lines[i].from /\ e.weight = lines[i].weight
    BY <2>1 DEF TheOtherWay
  <2>4. lines[i].from \in A /\ lines[i].to \in A /\ lines[i].weight \in Nat
    BY <2>2
  <2> QED  BY <1>4, <2>2, <2>3, <2>4
<1>6. IsGraph(g)
  <2>1. g.edges \in Seq([from : A, to : A, weight : Nat])
    <3>1. EachWay(lines) \in Seq([from : A, to : A, weight : Nat])
      BY <1>1, EachWayIs, Zenon
    <3> QED  BY <1>2, <3>1
  <2>2. [from : A, to : A, weight : Nat] \subseteq [from : A, to : A, weight : Int]
    OBVIOUS
  <2>3. g.edges \in Seq([from : A, to : A, weight : Int])
    BY <2>1, <2>2, SequenceIn
  <2> QED  BY <1>1, <1>2, <2>3 DEF IsGraph
<1>7. \A u \in NodesOf(g) : g.place[u] \in Int
  BY <1>1, <1>2
<1>8. \A u, v \in NodesOf(g) : g.place[u] = g.place[v] => u = v
  BY <1>1, <1>2
<1>9. NodesOf(g) = 0 .. n - 1
  BY <1>2 DEF A
<1> QED  BY <1>2, <1>5, <1>6, <1>7, <1>8, <1>9 DEF g

(* A goal, with the distance to it times alpha for an estimate.            *)
LEMMA EstimateIs ==
  ASSUME NEW n, NEW place, NEW lines, IsRoads(n, place, lines),
         NEW goal \in 0 .. n - 1, NEW alpha \in Nat
  PROVE  LET g == load(n, place, lines)
             H == Estimate(g, goal, alpha)
         IN  /\ H \in [NodesOf(g) -> Nat]
             /\ \A e \in EdgesOf(g) : H[e.from] <= alpha * e.weight + H[e.to]
<1> DEFINE g == load(n, place, lines)
           H == Estimate(g, goal, alpha)
           hav(u) == haversine(g, u, goal)
<1>1. /\ NodesOf(g) = 0 .. n - 1
      /\ \A e \in EdgesOf(g) :
           /\ e.from \in NodesOf(g) /\ e.to \in NodesOf(g) /\ e.weight \in Nat
           /\ haversine(g, e.from, e.to) <= e.weight
      /\ \A u \in NodesOf(g) : g.place[u] \in Int
  BY LoadIs
<1>2. H = [u \in NodesOf(g) |-> alpha * hav(u)]
  BY DEF Estimate
<1> HIDE DEF g, H
<1>3. ASSUME NEW u \in NodesOf(g) PROVE hav(u) \in Nat /\ alpha * hav(u) \in Nat
  <2>1. g.place[u] \in Int /\ g.place[goal] \in Int
    BY <1>1
  <2>2. hav(u) \in Nat
    BY <2>1 DEF haversine
  <2> HIDE DEF hav
  <2> QED  BY <2>2, Products
<1>4. ASSUME NEW e \in EdgesOf(g) PROVE H[e.from] <= alpha * e.weight + H[e.to]
  <2>1. /\ g.place[e.from] \in Int /\ g.place[e.to] \in Int /\ g.place[goal] \in Int
        /\ e.from \in NodesOf(g) /\ e.to \in NodesOf(g) /\ e.weight \in Nat
        /\ haversine(g, e.from, e.to) <= e.weight
    BY <1>1
  <2>2. hav(e.from) <= e.weight + hav(e.to)
    BY <2>1 DEF haversine
  <2>3. hav(e.from) \in Nat /\ hav(e.to) \in Nat /\ alpha * hav(e.from) \in Nat /\ alpha * hav(e.to) \in Nat
    BY <1>3, <2>1
  <2>4. H[e.from] = alpha * hav(e.from) /\ H[e.to] = alpha * hav(e.to)
    BY <1>2, <2>1
  <2> DEFINE x == hav(e.from)  y == hav(e.to)  w == e.weight
  <2>5. x \in Nat /\ y \in Nat /\ w \in Nat /\ x <= w + y
    BY <2>1, <2>2, <2>3
  <2> HIDE DEF x, y, w, hav
  <2>6. alpha * x <= alpha * w + alpha * y
    <3>1. w + y = x + (w + y - x) /\ w + y - x \in Nat
      BY <2>5
    <3>2. alpha * (w + y) = alpha * w + alpha * y /\ alpha * (x + (w + y - x)) = alpha * x + alpha * (w + y - x)
      BY <2>5, <3>1, Distributes
    <3>3. alpha * (w + y - x) \in Nat /\ alpha * x \in Nat
      BY <2>5, <3>1, Products
    <3> QED  BY <3>1, <3>2, <3>3
  <2> QED  BY <2>4, <2>6 DEF x, y, w
<1>5. H \in [NodesOf(g) -> Nat]
  BY <1>2, <1>3
<1> QED  BY <1>4, <1>5 DEF g, H

(* The estimates of heuristic_experiment.cpp.                              *)
LEMMA EstimateSteers ==
  ASSUME NEW n, NEW place, NEW lines, IsRoads(n, place, lines),
         NEW goal \in 0 .. n - 1, NEW alpha \in Nat
  PROVE  LET g == load(n, place, lines)
             H == Estimate(g, goal, alpha)
         IN  /\ IsGraph(g) /\ goal \in NodesOf(g) /\ Measures(g, 100, H)
             /\ alpha <= 100 => Guides(g, 100, H)
             /\ alpha > 100 => Steers(g, 100, alpha, H)
<1> DEFINE g == load(n, place, lines)
           H == Estimate(g, goal, alpha)
<1>1. /\ H \in [NodesOf(g) -> Nat]
      /\ \A e \in EdgesOf(g) : H[e.from] <= alpha * e.weight + H[e.to]
  BY EstimateIs
<1>2. /\ IsGraph(g) /\ NodesOf(g) = 0 .. n - 1
      /\ \A e \in EdgesOf(g) : e.from \in NodesOf(g) /\ e.to \in NodesOf(g) /\ e.weight \in Nat
  BY LoadIs
<1> HIDE DEF g, H
<1>3. Measures(g, 100, H)
  BY <1>1, <1>2 DEF Measures
<1>4. ASSUME alpha <= 100 PROVE Guides(g, 100, H)
  <2> SUFFICES ASSUME NEW e \in EdgesOf(g) PROVE H[e.from] <= 100 * e.weight + H[e.to]
    BY <1>3 DEF Guides
  <2>1. H[e.from] \in Nat /\ H[e.to] \in Nat /\ e.weight \in Nat /\ H[e.from] <= alpha * e.weight + H[e.to]
    BY <1>1, <1>2
  <2>2. 100 * e.weight = alpha * e.weight + (100 - alpha) * e.weight /\ alpha * e.weight \in Nat
        /\ (100 - alpha) * e.weight \in Nat
    <3>1. 100 - alpha \in Nat /\ 100 = alpha + (100 - alpha)
      BY <1>4
    <3>2. e.weight * (alpha + (100 - alpha)) = e.weight * alpha + e.weight * (100 - alpha)
      BY <2>1, <3>1, Distributes
    <3>3. alpha * e.weight \in Nat /\ (100 - alpha) * e.weight \in Nat
      BY <2>1, <3>1, Products
    <3>4. e.weight * 100 = 100 * e.weight /\ e.weight * alpha = alpha * e.weight
          /\ e.weight * (100 - alpha) = (100 - alpha) * e.weight
      BY <2>1, <3>1
    <3> QED  BY <3>1, <3>2, <3>3, <3>4
  <2> DEFINE x == alpha * e.weight  y == (100 - alpha) * e.weight  w == 100 * e.weight
  <2>3. x \in Nat /\ y \in Nat /\ w = x + y /\ H[e.from] <= x + H[e.to]
    BY <2>1, <2>2
  <2> HIDE DEF x, y, w
  <2>4. H[e.from] <= w + H[e.to]
    BY <2>1, <2>3
  <2> QED  BY <2>4 DEF w
<1>5. ASSUME alpha > 100 PROVE Steers(g, 100, alpha, H)
  BY <1>1, <1>2, <1>3, <1>5 DEF Steers, Guides, Measures
<1> QED  BY <1>2, <1>3, <1>4, <1>5 DEF g, H

(* What a search of the experiments finds.                                 *)
Journey(g, s, goal, alpha, r) ==
  LET best == Shortest(g, s)
  IN  /\ Answers(g, best, r, s, goal, IF alpha <= 100 THEN 100 ELSE alpha)
      /\ goal \notin DOMAIN best => r.cost = -1 /\ r.path = <<>>
      /\ goal \in DOMAIN best =>
           /\ r.cost \in Nat /\ best[goal] \in Nat
           /\ r.path \in SimplePaths(g, s) /\ Last(r.path) = goal
      /\ alpha <= 100 =>
           /\ ExploresNoMore(best, r, goal, 100, Estimate(g, goal, alpha))
           /\ goal \in DOMAIN best => r.cost = best[goal]

(* Every search of the experiments finds such an answer.                   *)
LEMMA JourneyIs ==
  ASSUME NEW n, NEW place, NEW lines, IsRoads(n, place, lines),
         NEW s \in 0 .. n - 1, NEW goal \in 0 .. n - 1, NEW alpha \in Nat
  PROVE  LET g == load(n, place, lines)
         IN  Journey(g, s, goal, alpha, runAstar(s, goal, g, alpha))
<1> DEFINE g == load(n, place, lines)
           H == Estimate(g, goal, alpha)
           r == guided(g, s, goal, 100, H)
           best == Shortest(g, s)
           c == IF alpha <= 100 THEN 100 ELSE alpha
<1>1. runAstar(s, goal, g, alpha) = r
  BY DEF runAstar
<1>2. /\ IsGraph(g) /\ goal \in NodesOf(g) /\ Measures(g, 100, H)
      /\ alpha <= 100 => Guides(g, 100, H)
      /\ alpha > 100 => Steers(g, 100, alpha, H)
  BY EstimateSteers
<1>3. s \in NodesOf(g) /\ \A e \in EdgesOf(g) : e.weight \in Nat
  BY LoadIs
<1> HIDE DEF g, H
<1>4. /\ goal \notin DOMAIN best => r.cost = -1 /\ r.path = <<>>
      /\ goal \in DOMAIN best =>
           /\ r.path \in SimplePaths(g, s) /\ Last(r.path) = goal
           /\ \A a : Steers(g, 100, a, H) => 100 * r.cost <= a * best[goal]
           /\ Guides(g, 100, H) => r.cost = best[goal]
  BY <1>2, <1>3, AnswersAreWays
<1>5. goal \in DOMAIN best => best[goal] \in Nat
  BY <1>2, <1>3, ShortestIs
<1>6. goal \in DOMAIN best => r.cost \in Nat
  <2> SUFFICES ASSUME goal \in DOMAIN best PROVE r.cost \in Nat
    OBVIOUS
  <2>1. goal \in DOMAIN guidedSearch(g, s, goal, 100, H).dist
    BY <1>2, <1>3, WaysLeadBack
  <2>2. guidedSearch(g, s, goal, 100, H).dist \in NatDists(g)
    BY <1>2, <1>3, WalkRuns DEF Walks, GuidedStates
  <2> QED  BY <2>1, <2>2, NatDistIs DEF guided
<1> HIDE DEF r, best
<1>7. c \in Nat /\ (goal \in DOMAIN best => 100 * r.cost <= c * best[goal])
  <2>1. CASE alpha <= 100
    <3>1. c = 100 /\ (goal \in DOMAIN best => r.cost = best[goal])
      BY <1>2, <1>4, <2>1
    <3> QED  BY <1>5, <3>1
  <2>2. CASE alpha > 100
    <3>1. c = alpha /\ (goal \in DOMAIN best => 100 * r.cost <= alpha * best[goal])
      BY <1>2, <1>4, <2>2
    <3> QED  BY <3>1
  <2> QED  BY <2>1, <2>2
<1>8. Answers(g, best, r, s, goal, c)
  BY <1>2, <1>3, <1>7, AnswersRight DEF best, r
<1>9. alpha <= 100 => ExploresNoMore(best, r, goal, 100, H)
  BY <1>2, <1>3, ExploresRight DEF best, r
<1>10. alpha <= 100 /\ goal \in DOMAIN best => r.cost = best[goal]
  BY <1>2, <1>4
<1> HIDE DEF c
<1>11. Journey(g, s, goal, alpha, r)
  BY <1>4, <1>5, <1>6, <1>8, <1>9, <1>10 DEF Journey, best, H, c
<1> QED  BY <1>1, <1>11 DEF g

(* The pairs that may be drawn.                                            *)
LEMMA SampledHaveWays ==
  ASSUME NEW g, IsGraph(g), NEW m \in Nat, NEW p \in samplePairs(g, m)
  PROVE  p[1] \in NodesOf(g) /\ p[2] \in NodesOf(g) /\ p[2] \in DOMAIN Shortest(g, p[1])
<1>1. PICK u \in NodesOf(g) : p \in {u} \X {v \in DOMAIN bfsSearch(g, 3 * m, u).dist :
                                            bfsSearch(g, 3 * m, u).dist[v] >= m}
  BY DEF samplePairs
<1>2. p[1] = u /\ p[2] \in DOMAIN bfsSearch(g, 3 * m, u).dist
  BY <1>1
<1>3. 3 * m \in Nat
  OBVIOUS
<1>4. p[2] \in DOMAIN FewestHops(g, u)
  BY <1>2, <1>3, BfsIsRight
<1>5. DOMAIN FewestHops(g, u) = DOMAIN Shortest(g, u)
  BY DEF FewestHops, Shortest
<1>6. \A v \in DOMAIN FewestHops(g, u) : \E w \in SimplePaths(g, u) : Last(w) = v
  BY DEF FewestHops
<1>7. p[2] \in NodesOf(g)
  BY <1>4, <1>6, SimpleIs
<1> QED  BY <1>1, <1>2, <1>4, <1>5, <1>7

(* The estimate of run_osm_astar.cpp.                                      *)
Straight(g, goal) == [u \in NodesOf(g) |-> haversine(g, u, goal)]

LEMMA StraightIs ==
  ASSUME NEW n, NEW place, NEW lines, IsRoads(n, place, lines), NEW goal \in 0 .. n - 1
  PROVE  LET g == load(n, place, lines)
             H == Straight(g, goal)
         IN  /\ IsGraph(g) /\ NodesOf(g) = 0 .. n - 1
             /\ \A e \in EdgesOf(g) : e.weight \in Nat
             /\ Guides(g, 1, H) /\ Guides(g, 1, Unguided(g))
             /\ H[goal] = 0
             /\ \A u \in NodesOf(g) : H[u] = haversine(g, u, goal) /\ (u # goal => H[u] > 0) /\ H[u] \in Nat
<1> DEFINE g == load(n, place, lines)
           H == Straight(g, goal)
           f == Estimate(g, goal, 1)
<1>1. /\ IsGraph(g) /\ NodesOf(g) = 0 .. n - 1
      /\ \A e \in EdgesOf(g) : e.from \in NodesOf(g) /\ e.to \in NodesOf(g) /\ e.weight \in Nat
      /\ \A u \in NodesOf(g) : g.place[u] \in Int
      /\ \A u, v \in NodesOf(g) : g.place[u] = g.place[v] => u = v
  BY LoadIs
<1>2. \A e \in EdgesOf(g) : f[e.from] <= 1 * e.weight + f[e.to]
  BY EstimateIs
<1> HIDE DEF g
<1>3. ASSUME NEW u \in NodesOf(g)
      PROVE  H[u] = haversine(g, u, goal) /\ (u # goal => H[u] > 0) /\ H[u] \in Nat
             /\ H[goal] = 0 /\ f[u] = H[u]
  <2>1. g.place[u] \in Int /\ g.place[goal] \in Int /\ (g.place[u] = g.place[goal] => u = goal) /\ goal \in NodesOf(g)
    BY <1>1
  <2>2. H[u] = haversine(g, u, goal) /\ H[goal] = haversine(g, goal, goal) /\ f[u] = 1 * haversine(g, u, goal)
    BY <2>1 DEF Straight, Estimate
  <2>3. /\ haversine(g, u, goal) \in Nat /\ haversine(g, goal, goal) = 0
        /\ u # goal => haversine(g, u, goal) > 0
    BY <2>1 DEF haversine
  <2> QED  BY <2>2, <2>3
<1>4. H \in [NodesOf(g) -> Nat]
  BY <1>3 DEF Straight
<1>5. \A e \in EdgesOf(g) : H[e.from] <= 1 * e.weight + H[e.to]
  BY <1>1, <1>2, <1>3
<1> HIDE DEF H, f
<1>6. Guides(g, 1, H) /\ Guides(g, 1, Unguided(g))
  BY <1>1, <1>4, <1>5, UnguidedIs DEF Guides, Measures
<1>7. goal \in NodesOf(g)
  BY <1>1
<1>8. H[goal] = 0
  BY <1>3, <1>7
<1> QED  BY <1>1, <1>3, <1>6, <1>8 DEF g, H

(* What run_osm_astar.cpp prints.                                          *)
LEMMA ComparedRight ==
  ASSUME NEW n, NEW place, NEW lines, IsRoads(n, place, lines),
         NEW s \in 0 .. n - 1, NEW goal \in 0 .. n - 1
  PROVE  LET g == load(n, place, lines)
         IN  \A c \in Compared(s, goal, g) : c.optimal /\ c.saved >= 0 /\ c.cost >= haversine(g, s, goal)
<1> DEFINE g == load(n, place, lines)
           H == Straight(g, goal)
           dr == guided(g, s, goal, 1, Unguided(g))
           ar == guided(g, s, goal, 1, H)
           best == Shortest(g, s)
<1>1. runSearch(s, goal, g, FALSE) = dr /\ runSearch(s, goal, g, TRUE) = ar
  BY DEF runSearch, Unguided, Straight
<1>2. /\ IsGraph(g) /\ s \in NodesOf(g) /\ goal \in NodesOf(g)
      /\ \A e \in EdgesOf(g) : e.weight \in Nat
      /\ Guides(g, 1, H) /\ Guides(g, 1, Unguided(g))
      /\ H[goal] = 0
      /\ \A u \in NodesOf(g) : H[u] = haversine(g, u, goal) /\ (u # goal => H[u] > 0) /\ H[u] \in Nat
  <2>1. /\ IsGraph(g) /\ NodesOf(g) = 0 .. n - 1
        /\ \A e \in EdgesOf(g) : e.weight \in Nat
        /\ Guides(g, 1, H) /\ Guides(g, 1, Unguided(g))
        /\ H[goal] = 0
        /\ \A u \in NodesOf(g) : H[u] = haversine(g, u, goal) /\ (u # goal => H[u] > 0) /\ H[u] \in Nat
    BY StraightIs
  <2> HIDE DEF g, H
  <2> QED  BY <2>1
<1> HIDE DEF g, H
<1>3. /\ goal \notin DOMAIN best => dr.cost = -1
      /\ goal \in DOMAIN best => dr.cost = best[goal] /\ ar.cost = best[goal]
  BY <1>2, AnswersAreWays DEF Guides
<1>4. /\ \A v \in DOMAIN best :
           best[v] \in Nat /\ \E p \in SimplePaths(g, s) : Last(p) = v /\ Length(g, p) = best[v]
  BY <1>2, ShortestIs
<1>5. /\ ExploresNoMore(best, dr, goal, 1, Unguided(g))
      /\ ExploresNoMore(best, ar, goal, 1, H)
  BY <1>2, ExploresRight
<1>6. goal \in DOMAIN best => goal \in dr.explored
  BY <1>2, AStarIsRight DEF guided
<1> HIDE DEF dr, ar, best
<1>7. ASSUME goal \in DOMAIN best PROVE best[goal] >= H[s]
  <2>1. PICK p \in SimplePaths(g, s) : Last(p) = goal /\ Length(g, p) = best[goal]
    BY <1>4, <1>7
  <2>2. PICK c : Costs(g, p, c) /\ Length(g, p) = c[Len(p)]
    BY <1>2, SimpleCosts
  <2>3. Len(p) \in 1 .. Len(p) /\ 1 \in 1 .. Len(p) /\ 1 <= Len(p) /\ p[1] = s /\ p[Len(p)] = goal
    BY <1>2, <2>1, SimpleIs
  <2>4. Priority(1, H, c[1], s) <= Priority(1, H, c[Len(p)], goal)
    BY <1>2, <2>2, <2>3, CostsRise
  <2>5. c[1] = 0
    BY <2>2 DEF Costs
  <2>6. H[s] \in Nat /\ best[goal] \in Nat
    BY <1>2, <1>4, <1>7
  <2> QED  BY <1>2, <2>1, <2>2, <2>4, <2>5, <2>6 DEF Priority
<1>8. ASSUME goal \in DOMAIN best PROVE ar.explored \subseteq dr.explored
  <2> SUFFICES ASSUME NEW u \in ar.explored PROVE u \in dr.explored
    OBVIOUS
  <2>1. u \in DOMAIN best /\ 1 * best[u] + H[u] <= 1 * best[goal] + H[goal]
    BY <1>5, <1>8 DEF ExploresNoMore
  <2>2. u \in NodesOf(g)
    <3>1. PICK p \in SimplePaths(g, s) : Last(p) = u
      BY <1>4, <2>1
    <3> QED  BY <1>2, <3>1, SimpleIs
  <2>3. CASE u = goal
    BY <1>6, <1>8, <2>3
  <2>4. CASE u # goal
    <3>1. best[u] < best[goal] /\ best[u] \in Nat /\ best[goal] \in Nat
      <4>1. best[u] \in Nat /\ best[goal] \in Nat
        BY <1>4, <1>8, <2>1
      <4>2. H[u] > 0 /\ H[u] \in Nat /\ H[goal] = 0
        BY <1>2, <2>2, <2>4
      <4> QED  BY <2>1, <4>1, <4>2
    <3>2. Unguided(g)[u] = 0 /\ Unguided(g)[goal] = 0
      BY <1>2, <2>2 DEF Unguided
    <3>3. 1 * best[u] + Unguided(g)[u] < 1 * best[goal] + Unguided(g)[goal]
      BY <3>1, <3>2
    <3> QED  BY <1>5, <1>8, <2>1, <3>3 DEF ExploresNoMore
  <2> QED  BY <2>3, <2>4
<1>9. dr.explored \subseteq DOMAIN best /\ DOMAIN best \subseteq NodesOf(g)
  <2>1. DOMAIN best \subseteq NodesOf(g)
    <3> SUFFICES ASSUME NEW v \in DOMAIN best PROVE v \in NodesOf(g)
      OBVIOUS
    <3>1. PICK p \in SimplePaths(g, s) : Last(p) = v
      BY <1>4
    <3> QED  BY <1>2, <3>1, SimpleIs
  <2> QED  BY <1>5, <2>1 DEF ExploresNoMore
<1>10. ASSUME goal \in DOMAIN best PROVE Cardinality(dr.explored) - Cardinality(ar.explored) >= 0
  <2>1. IsFiniteSet(dr.explored)
    <3>1. IsFiniteSet(NodesOf(g))
      BY <1>2, NodesFinite DEF IsGraph
    <3> QED  BY <1>9, <3>1, FS_Subset
  <2>2. /\ Cardinality(ar.explored) <= Cardinality(dr.explored)
        /\ Cardinality(ar.explored) \in Nat /\ Cardinality(dr.explored) \in Nat
    BY <1>8, <1>10, <2>1, FS_Subset, FS_CardinalityType
  <2> QED  BY <2>2
<1>11. ASSUME NEW c \in Compared(s, goal, g)
       PROVE  c.optimal /\ c.saved >= 0 /\ c.cost >= haversine(g, s, goal)
  <2>1. /\ dr.cost > 0
        /\ c = [optimal |-> dr.cost = ar.cost, cost |-> dr.cost,
                saved |-> Cardinality(dr.explored) - Cardinality(ar.explored)]
    BY <1>1, <1>11 DEF Compared
  <2>2. goal \in DOMAIN best
    BY <1>3, <2>1
  <2>3. dr.cost = ar.cost /\ dr.cost = best[goal] /\ H[s] = haversine(g, s, goal)
    BY <1>2, <1>3, <2>2
  <2> QED  BY <1>7, <1>10, <2>1, <2>2, <2>3
<1> QED  BY <1>11 DEF g

(* A row of the table of heuristic_experiment.cpp.                         *)
LEMMA RowRight ==
  ASSUME NEW n, NEW place, NEW lines, IsRoads(n, place, lines), NEW m \in Nat, NEW alpha \in Nat
  PROVE  LET g == load(n, place, lines)
             row == experiment(g, samplePairs(g, m), alpha)
         IN  row.noPath = 0 /\ (alpha <= 100 => row.isOptimal = row.valid)
<1> DEFINE g == load(n, place, lines)
           pairs == samplePairs(g, m)
           row == experiment(g, pairs, alpha)
           opt == [p \in pairs |-> runAstar(p[1], p[2], g, 0).cost]
           r == [p \in pairs |-> runAstar(p[1], p[2], g, alpha)]
           valid == {p \in pairs : r[p].cost >= 0}
           Equal(x, y) == y > 0 => 1000000 * (IF x < y THEN y - x ELSE x - y) < y
           equal == {p \in valid : Equal(r[p].cost, opt[p])}
<1>1. /\ row.noPath = Cardinality(pairs \ valid) /\ row.valid = Cardinality(valid)
      /\ row.isOptimal = Cardinality(equal)
  BY DEF experiment
<1>2. IsGraph(g) /\ NodesOf(g) = 0 .. n - 1
  BY LoadIs
<1> HIDE DEF row
<1>3. ASSUME NEW p \in pairs
      PROVE  /\ r[p].cost >= 0
             /\ alpha <= 100 => Equal(r[p].cost, opt[p])
  <2>1. p[1] \in 0 .. n - 1 /\ p[2] \in 0 .. n - 1 /\ p[2] \in DOMAIN Shortest(g, p[1])
    BY <1>2, SampledHaveWays
  <2>2. r[p] = runAstar(p[1], p[2], g, alpha) /\ opt[p] = runAstar(p[1], p[2], g, 0).cost
    OBVIOUS
  <2>3. /\ Journey(g, p[1], p[2], alpha, runAstar(p[1], p[2], g, alpha))
        /\ Journey(g, p[1], p[2], 0, runAstar(p[1], p[2], g, 0))
    BY <2>1, JourneyIs
  <2> HIDE DEF g, pairs, r, opt
  <2>4. /\ r[p].cost \in Nat /\ opt[p] \in Nat /\ opt[p] = Shortest(g, p[1])[p[2]]
        /\ alpha <= 100 => r[p].cost = Shortest(g, p[1])[p[2]]
    BY <2>1, <2>2, <2>3 DEF Journey
  <2>5. ASSUME NEW x \in Nat PROVE Equal(x, x)
    OBVIOUS
  <2> HIDE DEF Equal
  <2> QED  BY <2>4, <2>5
<1>4. pairs \ valid = {}
  BY <1>3
<1>5. alpha <= 100 => equal = valid
  BY <1>3
<1> HIDE DEF pairs, r, opt, valid, equal
<1>6. Cardinality({}) = 0
  BY FS_EmptySet
<1> QED  BY <1>1, <1>4, <1>5, <1>6 DEF row, pairs

(* The totals of divergence_analysis.cpp.                                  *)
LEMMA AnalysisRight ==
  ASSUME NEW n, NEW place, NEW lines, IsRoads(n, place, lines), NEW alpha \in Nat,
         NEW queries, \A q \in queries : q \in (0 .. n - 1) \X (0 .. n - 1)
  PROVE  LET a == analysis(load(n, place, lines), queries, alpha)
         IN  /\ alpha <= 100 => a.totalSubopt = 0
             /\ \A q \in DOMAIN a.divergences : a.divergences[q].node \notin {q[1], q[2]}
<1> DEFINE g == load(n, place, lines)
           a == analysis(g, queries, alpha)
           queried == {q \in queries : q[1] # q[2]}
           opt == [q \in queried |-> search(q[1], q[2], g, 0)]
           fast == [q \in queried |-> search(q[1], q[2], g, alpha)]
           checked == {q \in queried : opt[q].cost >= 0 /\ fast[q].cost >= 0}
           subopt == {q \in checked : Suboptimal(opt[q], fast[q])}
           left == {r \in subopt : Leaves(opt[r], fast[r]) # {}}
<1>1. /\ a.totalSubopt = Cardinality(subopt)
      /\ a.divergences = [q \in left |->
                           [detour |-> fast[q].cost - opt[q].cost,
                            node |-> fast[q].path[Min(Leaves(opt[q], fast[q]))]]]
  BY DEF analysis
<1>2. IsGraph(g) /\ NodesOf(g) = 0 .. n - 1
  BY LoadIs
<1> HIDE DEF a
<1>3. ASSUME NEW q \in queried
      PROVE  /\ Journey(g, q[1], q[2], alpha, fast[q]) /\ Journey(g, q[1], q[2], 0, opt[q])
             /\ q[1] \in NodesOf(g) /\ q[2] \in NodesOf(g)
  <2>1. q[1] \in 0 .. n - 1 /\ q[2] \in 0 .. n - 1
    OBVIOUS
  <2>2. fast[q] = runAstar(q[1], q[2], g, alpha) /\ opt[q] = runAstar(q[1], q[2], g, 0)
    BY DEF search, runAstar
  <2>3. /\ Journey(g, q[1], q[2], alpha, runAstar(q[1], q[2], g, alpha))
        /\ Journey(g, q[1], q[2], 0, runAstar(q[1], q[2], g, 0))
    BY <2>1, JourneyIs
  <2> QED  BY <1>2, <2>1, <2>2, <2>3
<1> HIDE DEF g, opt, fast
<1>4. ASSUME alpha <= 100, NEW q \in subopt PROVE FALSE
  <2>1. q \in queried /\ opt[q].cost >= 0 /\ fast[q].cost >= 0 /\ Suboptimal(opt[q], fast[q])
    OBVIOUS
  <2>2. Journey(g, q[1], q[2], alpha, fast[q]) /\ Journey(g, q[1], q[2], 0, opt[q])
    BY <1>3, <2>1
  <2>3. q[2] \in DOMAIN Shortest(g, q[1])
    BY <2>1, <2>2 DEF Journey
  <2>4. fast[q].cost = opt[q].cost /\ opt[q].cost \in Nat
    BY <1>4, <2>2, <2>3 DEF Journey
  <2>5. 10000 * fast[q].cost > 10001 * opt[q].cost
    BY <2>1 DEF Suboptimal
  <2> QED  BY <2>4, <2>5
<1>5. alpha <= 100 => a.totalSubopt = 0
  <2>1. alpha <= 100 => subopt = {}
    BY <1>4
  <2>2. Cardinality({}) = 0
    BY FS_EmptySet
  <2> HIDE DEF subopt
  <2> QED  BY <1>1, <2>1, <2>2
<1>6. ASSUME NEW q \in DOMAIN a.divergences
      PROVE  a.divergences[q].node \notin {q[1], q[2]}
  <2> DEFINE L == Leaves(opt[q], fast[q])
  <2>1. q \in left
    BY <1>1, <1>6
  <2>2. q \in queried /\ opt[q].cost >= 0 /\ L # {}
    BY <2>1
  <2>3. Journey(g, q[1], q[2], alpha, fast[q]) /\ Journey(g, q[1], q[2], 0, opt[q])
    BY <1>3, <2>2
  <2>4. q[2] \in DOMAIN Shortest(g, q[1])
    BY <2>2, <2>3 DEF Journey
  <2>5. /\ opt[q].path \in SimplePaths(g, q[1]) /\ Last(opt[q].path) = q[2]
        /\ fast[q].path \in SimplePaths(g, q[1])
    BY <2>3, <2>4 DEF Journey
  <2>6. /\ opt[q].path[1] = q[1] /\ opt[q].path[Len(opt[q].path)] = q[2]
        /\ 1 \in DOMAIN opt[q].path /\ Len(opt[q].path) \in DOMAIN opt[q].path
    <3>1. /\ opt[q].path[1] = q[1] /\ Last(opt[q].path) = opt[q].path[Len(opt[q].path)]
          /\ DOMAIN opt[q].path = 1 .. Len(opt[q].path) /\ Len(opt[q].path) \in Nat \ {0}
      BY <1>2, <2>5, SimpleIs
    <3> QED  BY <2>5, <3>1
  <2>7. q[1] \in ToSet(opt[q].path) /\ q[2] \in ToSet(opt[q].path)
    BY <2>6 DEF ToSet
  <2>8. L \subseteq Nat
    <3>1. DOMAIN fast[q].path = 1 .. Len(fast[q].path)
      BY <1>2, <2>5, SimpleIs
    <3> QED  BY <3>1 DEF Leaves
  <2>9. Min(L) \in L
    <3> HIDE DEF L
    <3>1. PICK x \in L : \A y \in L : x <= y
      BY <2>2, <2>8, HasLeast
    <3>2. Min(L) = x
      <4>1. x \in Nat /\ L \subseteq Int
        BY <2>8
      <4> QED  BY <3>1, <4>1, MinIsLeast
    <3> QED  BY <3>1, <3>2
  <2>10. fast[q].path[Min(L)] \notin ToSet(opt[q].path)
    BY <2>9 DEF Leaves
  <2>11. a.divergences[q].node = fast[q].path[Min(L)]
    BY <1>1, <2>1
  <2> QED  BY <2>7, <2>10, <2>11
<1> QED  BY <1>5, <1>6 DEF a, g

(* The ids of run_real_graph.cpp.                                          *)
LEMMA SequenceOf ==
  ASSUME NEW S, NEW m \in Nat, NEW q \in [1 .. m -> S]
  PROVE  q \in Seq(S) /\ Len(q) = m
OBVIOUS

LEMMA GreatestOf ==
  ASSUME NEW m \in Nat, NEW f \in [1 .. m + 1 -> Nat]
  PROVE  \E i \in 1 .. m + 1 : \A j \in 1 .. m + 1 : f[j] <= f[i]
<1> DEFINE T == {k \in 0 .. m : \E i \in 1 .. k + 1 : \A j \in 1 .. k + 1 : f[j] <= f[i]}
<1>1. 0 \in T
  <2>1. 1 \in 1 .. 0 + 1 /\ 1 \in 1 .. m + 1 /\ f[1] \in Nat
    OBVIOUS
  <2>2. \A j \in 1 .. 0 + 1 : f[j] <= f[1]
    BY <2>1
  <2> QED  BY <2>1, <2>2
<1>2. ASSUME NEW k \in 0 .. m - 1, k \in T PROVE k + 1 \in T
  <2>1. PICK i \in 1 .. k + 1 : \A j \in 1 .. k + 1 : f[j] <= f[i]
    BY <1>2
  <2> DEFINE l == (k + 1) + 1
  <2>2. l \in 1 .. m + 1 /\ k + 1 \in 0 .. m /\ i \in 1 .. l /\ l \in 1 .. l /\ i \in 1 .. m + 1
        /\ \A j \in 1 .. l : j \in 1 .. k + 1 \/ j = l
    OBVIOUS
  <2>3. f[l] \in Nat /\ f[i] \in Nat /\ \A j \in 1 .. l : f[j] \in Nat
    BY <2>2
  <2>4. CASE f[l] <= f[i]
    <3>1. \A j \in 1 .. l : f[j] <= f[i]
      BY <2>1, <2>2, <2>4
    <3> QED  BY <2>2, <3>1
  <2>5. CASE f[i] < f[l]
    <3> HIDE DEF l
    <3>1. \A j \in 1 .. l : f[j] <= f[l]
      <4> SUFFICES ASSUME NEW j \in 1 .. l PROVE f[j] <= f[l]
        OBVIOUS
      <4>1. CASE j \in 1 .. k + 1
        <5>1. f[j] <= f[i] /\ f[j] \in Nat
          BY <2>1, <2>3, <4>1
        <5> QED  BY <2>3, <2>5, <5>1
      <4>2. CASE j = l
        BY <2>3, <4>2
      <4> QED  BY <2>2, <4>1, <4>2
    <3> QED  BY <2>2, <3>1 DEF l
  <2> QED  BY <2>3, <2>4, <2>5
<1> HIDE DEF T
<1>3. \A k \in 0 .. m : k \in T
  BY <1>1, <1>2, SetInductionTo
<1>4. m \in T
  BY <1>3
<1> QED  BY <1>4 DEF T

LEMMA MaxIsGreatest ==
  ASSUME NEW S, S \subseteq Int, NEW x \in S, \A y \in S : y <= x
  PROVE  Max(S) = x
<1>1. \A y \in S : x >= y
  OBVIOUS
<1>2. Max(S) \in S /\ \A y \in S : Max(S) >= y
  BY <1>1, Zenon DEF Max
<1>3. Max(S) <= x /\ x <= Max(S) /\ x \in Int /\ Max(S) \in Int
  BY <1>2
<1> QED  BY <1>3

LEMMA LoadGraphIs ==
  ASSUME NEW pairs \in Seq(Nat \X Nat), pairs # <<>>
  PROVE  LET g == loadGraph(pairs)
         IN  IsGraph(g) /\ \A e \in EdgesOf(g) : e.weight = 1
<1> DEFINE g == loadGraph(pairs)
           m == Len(pairs) - 1
           Of(p) == Max({p[1], p[2]})
           f == [i \in 1 .. m + 1 |-> Of(pairs[i])]
           S == {Of(p) : p \in ToSet(pairs)}
           A == 0 .. Max(S)
           lines == [i \in DOMAIN pairs |-> [from |-> pairs[i][1], to |-> pairs[i][2], weight |-> 1]]
<1>1. /\ Len(pairs) \in Nat \ {0} /\ DOMAIN pairs = 1 .. Len(pairs)
      /\ \A i \in 1 .. Len(pairs) : pairs[i] \in Nat \X Nat
  BY SequenceIs
<1>2. m \in Nat /\ m + 1 = Len(pairs) /\ DOMAIN pairs = 1 .. m + 1
  BY <1>1
<1> HIDE DEF m
<1>3. ASSUME NEW x \in Nat, NEW y \in Nat
      PROVE  Max({x, y}) \in Nat /\ x <= Max({x, y}) /\ y <= Max({x, y})
  <2>1. CASE x <= y
    <3>1. {x, y} \subseteq Int /\ y \in {x, y} /\ \A z \in {x, y} : z <= y
      BY <2>1
    <3>2. Max({x, y}) = y
      BY <3>1, MaxIsGreatest
    <3> QED  BY <2>1, <3>2
  <2>2. CASE y < x
    <3>1. {x, y} \subseteq Int /\ x \in {x, y} /\ \A z \in {x, y} : z <= x
      BY <2>2
    <3>2. Max({x, y}) = x
      BY <3>1, MaxIsGreatest
    <3> QED  BY <2>2, <3>2
  <2> QED  BY <2>1, <2>2
<1>4. ASSUME NEW i \in 1 .. m + 1
      PROVE  /\ pairs[i][1] \in Nat /\ pairs[i][2] \in Nat /\ Of(pairs[i]) \in Nat
             /\ pairs[i][1] <= Of(pairs[i]) /\ pairs[i][2] <= Of(pairs[i])
  <2>1. pairs[i] \in Nat \X Nat
    BY <1>1, <1>2
  <2>2. pairs[i][1] \in Nat /\ pairs[i][2] \in Nat
    BY <2>1
  <2> QED  BY <1>3, <2>2
<1> HIDE DEF Of
<1>5. S = {f[i] : i \in 1 .. m + 1} /\ f \in [1 .. m + 1 -> Nat]
  BY <1>2, <1>4 DEF ToSet
<1>6. \A i \in 1 .. m + 1 : f[i] = Of(pairs[i])
  OBVIOUS
<1> HIDE DEF f, S
<1>7. PICK i \in 1 .. m + 1 : \A j \in 1 .. m + 1 : f[j] <= f[i]
  BY <1>2, <1>5, GreatestOf
<1>8. Max(S) = f[i] /\ f[i] \in Nat
  <2>1. \A j \in 1 .. m + 1 : f[j] \in Nat
    BY <1>5
  <2>2. f[i] \in Nat /\ S \subseteq Int /\ f[i] \in S
    BY <1>5, <2>1
  <2>3. \A y \in S : y <= f[i]
    BY <1>5, <1>7
  <2> QED  BY <2>2, <2>3, MaxIsGreatest
<1>9. \A j \in 1 .. m + 1 : pairs[j][1] \in A /\ pairs[j][2] \in A
  <2> SUFFICES ASSUME NEW j \in 1 .. m + 1 PROVE pairs[j][1] \in A /\ pairs[j][2] \in A
    OBVIOUS
  <2>1. /\ pairs[j][1] \in Nat /\ pairs[j][2] \in Nat /\ f[j] \in Nat /\ f[j] <= Max(S)
        /\ pairs[j][1] <= f[j] /\ pairs[j][2] <= f[j] /\ Max(S) \in Nat
    BY <1>4, <1>6, <1>7, <1>8
  <2> QED  BY <2>1
<1>10. g.n = 1 + Max(S) /\ g.edges = EachWay(lines)
  BY DEF loadGraph, S, Of
<1>11. NodesOf(g) = A /\ g.n \in Nat
  <2>1. Max(S) \in Nat /\ (1 + Max(S)) - 1 = Max(S)
    BY <1>8
  <2> QED  BY <1>10, <2>1 DEF NodesOf
<1> HIDE DEF g, A
<1>12. /\ lines \in Seq([from : A, to : A, weight : Nat])
       /\ Len(lines) = m + 1 /\ \A j \in 1 .. m + 1 : lines[j].weight = 1
  <2>1. lines = [j \in 1 .. m + 1 |-> [from |-> pairs[j][1], to |-> pairs[j][2], weight |-> 1]]
    BY <1>2
  <2>2. \A j \in 1 .. m + 1 : lines[j] \in [from : A, to : A, weight : Nat] /\ lines[j].weight = 1
    BY <1>9, <2>1
  <2> HIDE DEF lines
  <2> DEFINE R == [from : A, to : A, weight : Nat]
  <2> HIDE DEF R
  <2>3. lines \in [1 .. m + 1 -> R] /\ m + 1 \in Nat
    <3>1. m + 1 \in Nat
      BY <1>2
    <3>2. DOMAIN lines = 1 .. m + 1 /\ lines = [j \in DOMAIN lines |-> lines[j]]
      BY <2>1
    <3>3. \A j \in 1 .. m + 1 : lines[j] \in R
      BY <2>2 DEF R
    <3> QED  BY <3>1, <3>2, <3>3
  <2>4. lines \in Seq(R) /\ Len(lines) = m + 1
    BY <2>3, SequenceOf
  <2> QED  BY <2>2, <2>4 DEF R
<1> HIDE DEF lines
<1>13. /\ EachWay(lines) \in Seq([from : A, to : A, weight : Nat])
       /\ \A e \in ToSet(EachWay(lines)) :
            \E j \in 1 .. Len(lines) : e = lines[j] \/ e = TheOtherWay(lines[j])
  BY <1>12, EachWayIs, Zenon
<1>14. IsGraph(g)
  <2>1. [from : A, to : A, weight : Nat] \subseteq [from : A, to : A, weight : Int]
    OBVIOUS
  <2>2. EachWay(lines) \in Seq([from : A, to : A, weight : Int])
    BY <1>13, <2>1, SequenceIn
  <2> QED  BY <1>10, <1>11, <2>2 DEF IsGraph
<1>15. ASSUME NEW e \in EdgesOf(g) PROVE e.weight = 1
  <2>1. PICK j \in 1 .. Len(lines) : e = lines[j] \/ e = TheOtherWay(lines[j])
    BY <1>10, <1>13, <1>15 DEF EdgesOf
  <2>2. lines[j].weight = 1
    BY <1>12, <2>1
  <2> QED  BY <2>1, <2>2 DEF TheOtherWay
<1> QED  BY <1>14, <1>15 DEF g

(* Where every edge weighs one, a path is as long as it has edges.         *)
LEMMA LengthCounts ==
  ASSUME NEW g, IsGraph(g), \A e \in EdgesOf(g) : e.weight = 1, NEW s, NEW p \in SimplePaths(g, s)
  PROVE  Length(g, p) = Len(p) - 1
<1>1. PICK c : Costs(g, p, c) /\ Length(g, p) = c[Len(p)]
  BY SimpleCosts
<1>2. Len(p) \in Nat \ {0} /\ IsPath(g, p)
  BY SimpleIs
<1> DEFINE m == Len(p) - 1
           T == {k \in 0 .. m : c[k + 1] = k}
<1>3. m \in Nat /\ m + 1 = Len(p)
  BY <1>2
<1>4. 0 \in T
  BY <1>1, <1>3 DEF Costs
<1>5. ASSUME NEW k \in 0 .. m - 1, k \in T PROVE k + 1 \in T
  <2>1. k + 1 \in 1 .. Len(p) - 1 /\ k + 1 \in 0 .. m
    BY <1>3
  <2>2. WeightOf(g, p[k + 1], p[(k + 1) + 1]) = 1
    BY <1>2, <2>1, StepsWeigh
  <2>3. c[(k + 1) + 1] = c[k + 1] + 1
    BY <1>1, <2>1, <2>2 DEF Costs
  <2> QED  BY <1>5, <2>1, <2>3
<1> HIDE DEF T
<1>6. \A k \in 0 .. m : k \in T
  BY <1>3, <1>4, <1>5, SetInductionTo
<1>7. m \in T
  BY <1>3, <1>6
<1> QED  BY <1>1, <1>3, <1>7 DEF T

LEMMA ShortestCounts ==
  ASSUME NEW g, IsGraph(g), \A e \in EdgesOf(g) : e.weight = 1, NEW s
  PROVE  Shortest(g, s) = FewestHops(g, s)
<1> DEFINE P == SimplePaths(g, s)
<1>1. \A p \in P : Length(g, p) = Len(p) - 1
  BY LengthCounts
<1>2. \A v : {Length(g, p) : p \in {q \in P : Last(q) = v}} = {Len(p) - 1 : p \in {q \in P : Last(q) = v}}
  BY <1>1
<1> HIDE DEF P
<1> QED  BY <1>2 DEF Shortest, FewestHops, P

LEMMA QuotientIs ==
  ASSUME NEW x \in Nat, NEW d \in Nat \ {0}
  PROVE  x \div d \in Nat /\ x \div d <= x
<1>1. x = d * (x \div d) + (x % d) /\ x % d \in 0 .. d - 1 /\ x \div d \in Nat
  BY Divided
<1> DEFINE q == x \div d
<1>3. q \in Nat /\ x = d * q + (x % d)
  BY <1>1
<1> HIDE DEF q
<1>4. d * q = q + (d - 1) * q /\ (d - 1) * q \in Nat
  <2>1. d - 1 \in Nat /\ d = 1 + (d - 1)
    OBVIOUS
  <2>2. q * (1 + (d - 1)) = q * 1 + q * (d - 1)
    BY <1>3, <2>1, Distributes
  <2>3. (d - 1) * q \in Nat /\ (d - 1) * q = q * (d - 1) /\ q * d = d * q
    BY <1>3, <2>1, Products
  <2> QED  BY <1>3, <2>1, <2>2, <2>3
<1>5. q <= x
  <2> DEFINE a == d * q  Z == (d - 1) * q  r == x % d
  <2>1. x = a + r /\ a = q + Z /\ Z \in Nat /\ r \in Nat
    BY <1>1, <1>3, <1>4
  <2> HIDE DEF a, Z, r
  <2> QED  BY <1>3, <2>1
<1> QED  BY <1>3, <1>5 DEF q

(* What may be drawn from a source is what is between minHops and 3 * minHops*)
(* hops away.                                                              *)
LEMMA SampledAre ==
  ASSUME NEW g, IsGraph(g), NEW k \in Nat, NEW s \in NodesOf(g)
  PROVE  {p \in samplePairs(g, k) : p[1] = s}
           = {s} \X {v \in DOMAIN FewestHops(g, s) : FewestHops(g, s)[v] \in k .. 3 * k}
<1> DEFINE hops == FewestHops(g, s)
           D(u) == bfsSearch(g, 3 * k, u).dist
           drawn == {v \in DOMAIN D(s) : D(s)[v] >= k}
           between == {v \in DOMAIN hops : hops[v] \in k .. 3 * k}
<1>1. {p \in samplePairs(g, k) : p[1] = s} = {s} \X drawn
  BY DEF samplePairs
<1>2. /\ DOMAIN D(s) = {v \in DOMAIN hops : hops[v] <= 3 * k}
      /\ \A v \in DOMAIN D(s) : D(s)[v] = hops[v]
  <2>1. 3 * k \in Nat
    OBVIOUS
  <2> QED  BY <2>1, BfsIsRight
<1>3. \A v \in DOMAIN hops : hops[v] \in Nat
  BY FewestIs
<1> HIDE DEF hops, D
<1>4. drawn = between
  BY <1>2, <1>3
<1> QED  BY <1>1, <1>4 DEF hops

(* The estimate from ids is off by no more than the number of nodes.       *)
LEMMA IdSteers ==
  ASSUME NEW g, IsGraph(g), \A e \in EdgesOf(g) : e.weight = 1, NEW goal \in NodesOf(g)
  PROVE  LET H == IdEstimate(g, goal)
         IN  /\ Measures(g, 1, H) /\ Steers(g, 1, g.n, H)
             /\ Consistent(g, H) => Guides(g, 1, H)
<1> DEFINE H == IdEstimate(g, goal)
<1>1. g.n \in Nat \ {0} /\ NodesOf(g) = 0 .. g.n - 1
  BY DEF IsGraph, NodesOf
<1>2. ASSUME NEW u \in NodesOf(g) PROVE H[u] \in Nat /\ H[u] <= g.n
  <2> DEFINE x == IF u < goal THEN goal - u ELSE u - goal
  <2>1. H[u] = x \div IdStep
    BY DEF IdEstimate
  <2>2. x \in Nat /\ x <= g.n
    BY <1>1
  <2> HIDE DEF x, H
  <2>3. x \div IdStep \in Nat /\ x \div IdStep <= x
    BY <2>2, IdStepAssumption, QuotientIs
  <2> DEFINE y == x \div IdStep
  <2>4. H[u] = y /\ y \in Nat /\ y <= x
    BY <2>1, <2>3
  <2> HIDE DEF y
  <2> QED  BY <1>1, <2>2, <2>4
<1>3. H \in [NodesOf(g) -> Nat]
  <2>1. H = [u \in NodesOf(g) |-> H[u]]
    BY DEF IdEstimate
  <2> HIDE DEF H
  <2> QED  BY <1>2, <2>1
<1> HIDE DEF H
<1>4. \A e \in EdgesOf(g) : e.from \in NodesOf(g) /\ e.to \in NodesOf(g) /\ e.weight = 1
  BY EdgeIs
<1>5. Measures(g, 1, H) /\ Measures(g, g.n, H)
  BY <1>1, <1>3, <1>4 DEF Measures
<1>6. ASSUME NEW e \in EdgesOf(g) PROVE H[e.from] <= g.n * e.weight + H[e.to]
  <2>1. H[e.from] <= g.n /\ H[e.from] \in Nat /\ H[e.to] \in Nat /\ e.weight = 1
    BY <1>2, <1>4
  <2> QED  BY <1>1, <2>1
<1>7. Steers(g, 1, g.n, H)
  BY <1>1, <1>5, <1>6 DEF Steers, Guides
<1>8. ASSUME Consistent(g, H) PROVE Guides(g, 1, H)
  <2> SUFFICES ASSUME NEW e \in EdgesOf(g) PROVE H[e.from] <= 1 * e.weight + H[e.to]
    BY <1>5 DEF Guides
  <2>1. H[e.from] <= e.weight + H[e.to] /\ e.weight = 1
    BY <1>4, <1>8 DEF Consistent
  <2> QED  BY <2>1
<1> QED  BY <1>5, <1>7, <1>8 DEF H

(* The two searches of run_real_graph.cpp.                                 *)
LEMMA HopsRight ==
  ASSUME NEW g, IsGraph(g), \A e \in EdgesOf(g) : e.weight = 1,
         NEW s \in NodesOf(g), NEW goal \in NodesOf(g)
  PROVE  /\ Answers(g, FewestHops(g, s), dijkstraTo(s, goal, g), s, goal, 100)
         /\ Answers(g, FewestHops(g, s), astarById(s, goal, g), s, goal,
                    IF Consistent(g, IdEstimate(g, goal)) THEN 100 ELSE 100 * g.n)
<1> DEFINE best == Shortest(g, s)
           H == IdEstimate(g, goal)
           r == guided(g, s, goal, 1, H)
<1>1. best = FewestHops(g, s)
  BY ShortestCounts
<1>2. \A e \in EdgesOf(g) : e.weight \in Nat
  OBVIOUS
<1>3. \A v \in DOMAIN best : best[v] \in Nat
  BY <1>2, ShortestIs
<1>4. ASSUME NEW f, Guides(g, 1, f) PROVE Answers(g, best, guided(g, s, goal, 1, f), s, goal, 100)
  <2>1. Measures(g, 1, f)
    BY <1>4 DEF Guides
  <2>2. goal \in DOMAIN best => guided(g, s, goal, 1, f).cost = best[goal]
    BY <1>4, <2>1, AnswersAreWays
  <2>3. goal \in DOMAIN best => 100 * guided(g, s, goal, 1, f).cost <= 100 * best[goal]
    <3> HIDE DEF best
    <3> QED  BY <1>3, <2>2
  <2> QED  BY <2>1, <2>3, AnswersRight
<1>5. dijkstraTo(s, goal, g) = guided(g, s, goal, 1, Unguided(g)) /\ astarById(s, goal, g) = r
  BY DEF dijkstraTo, astarById, Unguided
<1>6. Answers(g, best, dijkstraTo(s, goal, g), s, goal, 100)
  BY <1>2, <1>4, <1>5, UnguidedIs
<1>7. /\ Measures(g, 1, H) /\ Steers(g, 1, g.n, H)
      /\ Consistent(g, H) => Guides(g, 1, H)
  BY IdSteers
<1>8. g.n \in Nat /\ 100 * g.n \in Nat
  BY DEF IsGraph
<1> HIDE DEF H
<1>9. goal \in DOMAIN best => 1 * r.cost <= g.n * best[goal]
  BY <1>7, AnswersAreWays
<1>10. goal \in DOMAIN best => r.cost \in Nat
  <2> SUFFICES ASSUME goal \in DOMAIN best PROVE r.cost \in Nat
    OBVIOUS
  <2>1. goal \in DOMAIN guidedSearch(g, s, goal, 1, H).dist
    BY <1>7, WaysLeadBack
  <2>2. guidedSearch(g, s, goal, 1, H).dist \in NatDists(g)
    BY <1>7, WalkRuns DEF Walks, GuidedStates
  <2> QED  BY <2>1, <2>2, NatDistIs DEF guided
<1>11. goal \in DOMAIN best => 100 * r.cost <= (100 * g.n) * best[goal]
  <2> SUFFICES ASSUME goal \in DOMAIN best PROVE 100 * r.cost <= (100 * g.n) * best[goal]
    OBVIOUS
  <2> DEFINE c == r.cost  Z == best[goal]  n == g.n
  <2>1. c \in Nat /\ Z \in Nat /\ n \in Nat /\ 1 * c <= n * Z
    BY <1>3, <1>8, <1>9, <1>10
  <2> HIDE DEF c, Z, n
  <2>2. (100 * n) * Z = 100 * (n * Z) /\ n * Z \in Nat
    BY <2>1, Products
  <2> DEFINE w == n * Z
  <2>3. w \in Nat /\ c <= w
    BY <2>1, <2>2
  <2> HIDE DEF w
  <2>4. 100 * c <= 100 * w
    BY <2>1, <2>3
  <2> QED  BY <2>2, <2>4 DEF w, c, Z, n
<1>12. Answers(g, best, r, s, goal, 100 * g.n)
  BY <1>7, <1>8, <1>11, AnswersRight
<1>13. Consistent(g, H) => Answers(g, best, r, s, goal, 100)
  BY <1>4, <1>7
<1>14. Answers(g, best, r, s, goal, IF Consistent(g, H) THEN 100 ELSE 100 * g.n)
  <2> HIDE DEF r, best
  <2> QED  BY <1>12, <1>13
<1> HIDE DEF best, r
<1> QED  BY <1>1, <1>5, <1>6, <1>14 DEF H

(* As for the paths.                                                       *)
ExperimentsKept == IsPathProblem(problem) /\ ExperimentsAgree

(* What ExperimentsAgree says of the answers x to queries.                 *)
JourneysAgree(g, queries, alphas, x) ==
  LET least == [s \in {q[1] : q \in queries} |-> Shortest(g, s)]
  IN  /\ \A alpha \in alphas, q \in queries :
           LET r == x.found[alpha][q]
           IN  /\ Answers(g, least[q[1]], r, q[1], q[2], IF alpha <= 100 THEN 100 ELSE alpha)
               /\ alpha <= 100 =>
                    ExploresNoMore(least[q[1]], r, q[2], 100, Estimate(g, q[2], alpha))
      /\ \A q \in queries : \A c \in x.compared[q] :
           c.optimal /\ c.saved >= 0 /\ c.cost >= haversine(g, q[1], q[2])
      /\ \A alpha \in alphas :
           LET row == x.row[alpha]  a == x.analysis[alpha]
           IN  /\ row.noPath = 0
               /\ alpha <= 100 => row.isOptimal = row.valid /\ a.totalSubopt = 0
               /\ \A q \in DOMAIN a.divergences : a.divergences[q].node \notin {q[1], q[2]}

LEMMA JourneysRight ==
  ASSUME NEW n, NEW place, NEW lines, IsRoads(n, place, lines), NEW m \in Nat,
         NEW queries, \A q \in queries : q \in (0 .. n - 1) \X (0 .. n - 1),
         NEW alphas, \A alpha \in alphas : alpha \in Nat
  PROVE  LET g == load(n, place, lines)
         IN  JourneysAgree(g, queries, alphas,
               [found |-> [alpha \in alphas |-> [q \in queries |-> runAstar(q[1], q[2], g, alpha)]],
                compared |-> [q \in queries |-> Compared(q[1], q[2], g)],
                row |-> [alpha \in alphas |-> experiment(g, samplePairs(g, m), alpha)],
                analysis |-> [alpha \in alphas |-> analysis(g, queries, alpha)]])
<1> DEFINE g == load(n, place, lines)
           least == [s \in {q[1] : q \in queries} |-> Shortest(g, s)]
           x == [found |-> [alpha \in alphas |-> [q \in queries |-> runAstar(q[1], q[2], g, alpha)]],
                 compared |-> [q \in queries |-> Compared(q[1], q[2], g)],
                 row |-> [alpha \in alphas |-> experiment(g, samplePairs(g, m), alpha)],
                 analysis |-> [alpha \in alphas |-> analysis(g, queries, alpha)]]
<1>1. ASSUME NEW alpha \in alphas, NEW q \in queries
      PROVE  LET r == x.found[alpha][q]
             IN  /\ Answers(g, least[q[1]], r, q[1], q[2], IF alpha <= 100 THEN 100 ELSE alpha)
                 /\ alpha <= 100 =>
                      ExploresNoMore(least[q[1]], r, q[2], 100, Estimate(g, q[2], alpha))
  <2>1. q[1] \in 0 .. n - 1 /\ q[2] \in 0 .. n - 1 /\ alpha \in Nat
    OBVIOUS
  <2>2. least[q[1]] = Shortest(g, q[1]) /\ x.found[alpha][q] = runAstar(q[1], q[2], g, alpha)
    OBVIOUS
  <2>3. Journey(g, q[1], q[2], alpha, runAstar(q[1], q[2], g, alpha))
    BY <2>1, JourneyIs
  <2> HIDE DEF g, least, x
  <2> QED  BY <2>2, <2>3 DEF Journey
<1>2. ASSUME NEW q \in queries
      PROVE  \A c \in x.compared[q] :
               c.optimal /\ c.saved >= 0 /\ c.cost >= haversine(g, q[1], q[2])
  <2>1. q[1] \in 0 .. n - 1 /\ q[2] \in 0 .. n - 1
    OBVIOUS
  <2>2. x.compared[q] = Compared(q[1], q[2], g)
    OBVIOUS
  <2>3. \A c \in Compared(q[1], q[2], g) :
          c.optimal /\ c.saved >= 0 /\ c.cost >= haversine(g, q[1], q[2])
    BY <2>1, ComparedRight
  <2> HIDE DEF x, g
  <2> QED  BY <2>2, <2>3
<1>3. ASSUME NEW alpha \in alphas
      PROVE  LET row == x.row[alpha]  a == x.analysis[alpha]
             IN  /\ row.noPath = 0
                 /\ alpha <= 100 => row.isOptimal = row.valid /\ a.totalSubopt = 0
                 /\ \A q \in DOMAIN a.divergences : a.divergences[q].node \notin {q[1], q[2]}
  <2>1. alpha \in Nat
    OBVIOUS
  <2>2. LET row == experiment(g, samplePairs(g, m), alpha)
        IN  row.noPath = 0 /\ (alpha <= 100 => row.isOptimal = row.valid)
    BY <2>1, RowRight
  <2>3. LET a == analysis(g, queries, alpha)
        IN  /\ alpha <= 100 => a.totalSubopt = 0
            /\ \A q \in DOMAIN a.divergences : a.divergences[q].node \notin {q[1], q[2]}
    BY <2>1, AnalysisRight
  <2>4. x.row[alpha] = experiment(g, samplePairs(g, m), alpha) /\ x.analysis[alpha] = analysis(g, queries, alpha)
    OBVIOUS
  <2> HIDE DEF g, x
  <2> QED  BY <2>2, <2>3, <2>4
<1> HIDE DEF x, g
<1>4. JourneysAgree(g, queries, alphas, x)
  BY <1>1, <1>2, <1>3, Zenon DEF JourneysAgree, least
<1> QED  BY <1>4 DEF x, g

(* The problems whose answers ExperimentsAgree compares.                   *)
LEMMA SampleIs ==
  ASSUME NEW p, IsPathProblem(p)
  PROVE  /\ p.family = "journeys" =>
              /\ IsRoads(p.n, p.place, p.lines)
              /\ \A q \in p.queries : q \in (0 .. p.n - 1) \X (0 .. p.n - 1)
              /\ \A alpha \in p.alphas : alpha \in Nat
              /\ p.minHops \in Nat
         /\ p.family = "hops" =>
              /\ p.pairs \in Seq(Nat \X Nat) /\ p.pairs # <<>>
              /\ p.source \in NodesOf(loadGraph(p.pairs)) /\ p.minHops \in Nat
<1>1. CASE p.family = "journeys"
  BY <1>1 DEF IsPathProblem
<1>2. CASE p.family = "hops"
  BY <1>2 DEF IsPathProblem
<1> QED  BY <1>1, <1>2

(* ExperimentsAgree: for any roads with queries and alphas, and for any    *)
(* links between ids, no pair that may be drawn is without an answer,      *)
(* searches with alpha <= 1 are optimal and explore nothing beyond their   *)
(* goals, the others cost at most alpha times the least, and a divergence  *)
(* is never at an end of the query.                                        *)
THEOREM ExperimentsAreRight == PathSpec => []ExperimentsAgree
<1>1. PathInit => ExperimentsKept
  BY DEF PathInit, ExperimentsKept, ExperimentsAgree, Solved
<1>2. ASSUME ExperimentsKept, [PathNext]_pathVars PROVE ExperimentsKept'
  <2>0. IsPathProblem(problem) /\ ExperimentsAgree
    BY <1>2 DEF ExperimentsKept
  <2>1. CASE UNCHANGED pathVars
    BY <2>0, <2>1 DEF pathVars, ExperimentsKept, ExperimentsAgree, Solved
  <2>2. CASE PathNext
    <3>1. problem' = problem /\ IsPathProblem(problem')
      BY <2>0, <2>2 DEF PathNext, SolveSigned, SolveWays, SolveReached, SolveJourneys, SolveHops, SolvedBy
    <3>2. CASE SolveSigned \/ SolveWays \/ SolveReached
      <4>1. problem.family \in {"signed", "ways", "reached"}
        BY <3>2 DEF SolveSigned, SolveWays, SolveReached, SolvedBy
      <4> QED  BY <3>1, <4>1 DEF ExperimentsKept, ExperimentsAgree, Solved
    <3>3. CASE SolveJourneys
      <4> DEFINE g == load(problem.n, problem.place, problem.lines)
                 queries == problem.queries
                 alphas == problem.alphas
      <4>1. /\ problem.family = "journeys"
            /\ answer' = [found |-> [alpha \in alphas |-> [q \in queries |-> runAstar(q[1], q[2], g, alpha)]],
                          compared |-> [q \in queries |-> Compared(q[1], q[2], g)],
                          row |-> [alpha \in alphas |-> experiment(g, samplePairs(g, problem.minHops), alpha)],
                          analysis |-> [alpha \in alphas |-> analysis(g, queries, alpha)]]
        BY <3>3 DEF SolveJourneys, SolvedBy
      <4>2. /\ IsRoads(problem.n, problem.place, problem.lines)
            /\ \A q \in queries : q \in (0 .. problem.n - 1) \X (0 .. problem.n - 1)
            /\ \A alpha \in alphas : alpha \in Nat
            /\ problem.minHops \in Nat
        BY <2>0, <4>1, SampleIs
      <4>3. JourneysAgree(g, queries, alphas, answer')
        BY <4>1, <4>2, JourneysRight
      <4>4. ~Solved("hops")'
        BY <3>1, <4>1 DEF Solved
      <4>5. JourneysAgree(g, queries, alphas, answer)'
        BY <3>1, <4>3
      <4>6. ExperimentsAgree'
        BY <4>4, <4>5, Zenon DEF JourneysAgree, ExperimentsAgree
      <4> QED  BY <3>1, <4>6 DEF ExperimentsKept
    <3>4. CASE SolveHops
      <4> DEFINE g == loadGraph(problem.pairs)
                 s == problem.source
                 k == problem.minHops
                 hops == FewestHops(g, s)
      <4>1. /\ problem.family = "hops"
            /\ answer' = [sampled |-> samplePairs(g, k),
                          byId |-> [goal \in NodesOf(g) |-> astarById(s, goal, g)],
                          plain |-> [goal \in NodesOf(g) |-> dijkstraTo(s, goal, g)]]
        BY <3>4 DEF SolveHops, SolvedBy
      <4>2. /\ problem.pairs \in Seq(Nat \X Nat) /\ problem.pairs # <<>>
            /\ s \in NodesOf(g) /\ k \in Nat
        BY <2>0, <4>1, SampleIs
      <4>3. IsGraph(g) /\ \A e \in EdgesOf(g) : e.weight = 1
        BY <4>2, LoadGraphIs
      <4> HIDE DEF g
      <4>4. {p \in answer'.sampled : p[1] = s} = {s} \X {v \in DOMAIN hops : hops[v] \in k .. 3 * k}
        BY <4>1, <4>2, <4>3, SampledAre
      <4>5. \A goal \in NodesOf(g) :
              /\ Answers(g, hops, answer'.plain[goal], s, goal, 100)
              /\ Answers(g, hops, answer'.byId[goal], s, goal,
                         IF Consistent(g, IdEstimate(g, goal)) THEN 100 ELSE 100 * g.n)
        <5> SUFFICES ASSUME NEW goal \in NodesOf(g)
                     PROVE  /\ Answers(g, hops, answer'.plain[goal], s, goal, 100)
                            /\ Answers(g, hops, answer'.byId[goal], s, goal,
                                       IF Consistent(g, IdEstimate(g, goal)) THEN 100 ELSE 100 * g.n)
          OBVIOUS
        <5>1. answer'.plain[goal] = dijkstraTo(s, goal, g) /\ answer'.byId[goal] = astarById(s, goal, g)
          BY <4>1
        <5> QED  BY <4>2, <4>3, <5>1, HopsRight
      <4> QED  BY <3>1, <4>1, <4>4, <4>5 DEF ExperimentsKept, ExperimentsAgree, Solved, g
    <3> QED  BY <2>2, <3>2, <3>3, <3>4 DEF PathNext
  <2> QED  BY <1>2, <2>1, <2>2
<1>3. ExperimentsKept => ExperimentsAgree
  BY DEF ExperimentsKept
<1> QED  BY <1>1, <1>2, <1>3, PTL DEF PathSpec
=============================================================================
