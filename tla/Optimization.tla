---------------------------- MODULE Optimization ----------------------------
(***************************************************************************)
(* include/dynamic_programming.hpp and the exact travelling salesman of    *)
(* optimization/branch_and_bound_tsp.cpp.  A table of the code is a        *)
(* recursive function over its indices.                                    *)
(***************************************************************************)
EXTENDS Integers, Sequences, FiniteSets

LOCAL INSTANCE SequencesExt
LOCAL INSTANCE FiniteSetsExt

-----------------------------------------------------------------------------
(* A mistake the checks are tested with: an item added to the row that may *)
(* hold it already.                                                        *)
SameRow(i) == i

-----------------------------------------------------------------------------
editDistance(a, b) ==
  LET dp[i \in 0 .. Len(a), j \in 0 .. Len(b)] ==
        IF i = 0 THEN j
        ELSE IF j = 0 THEN i
        ELSE IF a[i] = b[j] THEN dp[i - 1, j - 1]
        ELSE 1 + Min({dp[i - 1, j], dp[i, j - 1], dp[i - 1, j - 1]})
  IN  dp[Len(a), Len(b)]

lcs(a, b) ==
  LET dp[i \in 0 .. Len(a), j \in 0 .. Len(b)] ==
        IF i = 0 \/ j = 0 THEN 0
        ELSE IF a[i] = b[j] THEN dp[i - 1, j - 1] + 1
        ELSE Max({dp[i - 1, j], dp[i, j - 1]})
  IN  dp[Len(a), Len(b)]

(* The row an item is added to is the one before it, so it is used once.   *)
RowBefore(i) == i - 1
knapsack(capacity, weights, values) ==
  LET dp[i \in 0 .. Len(weights), w \in 0 .. capacity] ==
        IF i = 0 THEN 0
        ELSE IF weights[i] > w THEN dp[i - 1, w]
        ELSE Max({dp[i - 1, w], dp[RowBefore(i), w - weights[i]] + values[i]})
  IN  dp[Len(weights), capacity]

(* best: the cost of the best tour so far and the tour, None before one.   *)
Prunes(cost, best) == cost >= best
RECURSIVE branchAndBound(_, _, _, _)
branchAndBound(dist, path, cost, best) ==
  LET n == Cardinality(DOMAIN dist)
      go(b, next) ==
        LET c == cost + dist[Last(path)][next]
        IN  IF Contains(path, next) \/ Prunes(c, b.cost) THEN b
            ELSE branchAndBound(dist, Append(path, next), c, b)
      total == cost + dist[Last(path)][path[1]]
  IN  IF Len(path) = n
        THEN IF total < best.cost THEN [cost |-> total, path |-> path] ELSE best
        ELSE FoldLeft(go, best, [i \in 1 .. n |-> i - 1])

-----------------------------------------------------------------------------
(* What they are compared with.  An alignment of two strings pairs as many *)
(* places of the one with places of the other, in order.                   *)
Alignments(a, b) ==
  {p \in (SUBSET DOMAIN a) \X (SUBSET DOMAIN b) : Cardinality(p[1]) = Cardinality(p[2])}
Picked(a, S) == LET s == SetToSortSeq(S, <) IN [i \in DOMAIN s |-> a[s[i]]]
Changes(x, y) == Cardinality({i \in DOMAIN x : x[i] # y[i]})
FewestEdits(a, b) ==
  Min({Len(a) + Len(b) - 2 * Cardinality(p[1]) + Changes(Picked(a, p[1]), Picked(b, p[2])) :
         p \in Alignments(a, b)})
LongestCommon(a, b) ==
  Max({Cardinality(p[1]) :
         p \in {q \in Alignments(a, b) : Picked(a, q[1]) = Picked(b, q[2])}})

BestLoad(capacity, weights, values) ==
  Max({MapThenSumSet(LAMBDA i : values[i], S) :
         S \in {T \in SUBSET DOMAIN weights :
                  MapThenSumSet(LAMBDA i : weights[i], T) <= capacity}})

TourCost(dist, p) ==
  MapThenSumSet(LAMBDA i : dist[p[i]][p[IF i = Len(p) THEN 1 ELSE i + 1]], DOMAIN p)
BestTour(dist) ==
  LET n == Cardinality(DOMAIN dist)
  IN  Min({TourCost(dist, p) :
             p \in {q \in [1 .. n -> 0 .. n - 1] : q[1] = 0 /\ IsInjective(q)}})
=============================================================================
