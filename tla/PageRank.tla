------------------------------ MODULE PageRank ------------------------------
(***************************************************************************)
(* graph/pagerank.cpp with exact fractions.  The ranks are numbers of      *)
(* parts of a whole; a round divides each part by 20, for the damping of   *)
(* 17/20, and by Shares, which every number of links divides.              *)
(***************************************************************************)
EXTENDS ShortestPaths

LOCAL INSTANCE SequencesExt
LOCAL INSTANCE FiniteSetsExt
LOCAL INSTANCE Functions

Factorial[k \in Nat] == IF k = 0 THEN 1 ELSE k * Factorial[k - 1]
Shares(g) == Factorial[g.n - 1]

FirstRank(g) == [whole |-> g.n, rank |-> [v \in NodesOf(g) |-> 1]]

outLinks(g, u) == Len(adj(g, u))

(* A mistake the checks are tested with: damping forgotten for the links.  *)
Undamped(g, r, e) == 20 * (Shares(g) \div outLinks(g, e.from)) * r.rank[e.from]

Damped(g, r, e) == 17 * (Shares(g) \div outLinks(g, e.from)) * r.rank[e.from]

NextRank(g, r) ==
  [whole |-> 20 * Shares(g) * r.whole,
   rank |-> FoldLeft(LAMBDA R, e : [R EXCEPT ![e.to] = @ + Damped(g, r, e)],
                     [v \in NodesOf(g) |-> (3 * Shares(g) * r.whole) \div g.n], g.edges)]

(* The ranks before the first of the iterations and after each.            *)
pageRanks(g, iterations) ==
  FoldLeft(LAMBDA s, i : Append(s, NextRank(g, Last(s))), <<FirstRank(g)>>,
           [i \in 1 .. iterations |-> i])

-----------------------------------------------------------------------------
(* What is expected of them: nothing is lost but the damped rank of pages  *)
(* without links, and a round brings the ranks nearer to each other by the *)
(* damping, so that they converge.                                         *)
Mass(r) == FoldFunction(+, 0, r.rank)
Dangling(g, r) == MapThenSumSet(LAMBDA u : r.rank[u], {u \in NodesOf(g) : outLinks(g, u) = 0})
KeepsMass(g, r, s) ==
  Mass(s) = 3 * Shares(g) * r.whole + 17 * Shares(g) * (Mass(r) - Dangling(g, r))
Moved(r, s) ==
  LET k == s.whole \div r.whole
  IN  MapThenSumSet(LAMBDA v : IF s.rank[v] < k * r.rank[v] THEN k * r.rank[v] - s.rank[v]
                                                            ELSE s.rank[v] - k * r.rank[v],
                    DOMAIN r.rank)
Converges(g, r, s, t) == Moved(s, t) <= 17 * Shares(g) * Moved(r, s)
=============================================================================
