---------------------------- MODULE MCAlgorithms ----------------------------
(***************************************************************************)
(* The pure algorithms on every input of small families.  A behaviour      *)
(* picks one problem, of PathProblems or another, and solves it with the   *)
(* program's algorithms; the properties compare the answers with the       *)
(* references.                                                             *)
(***************************************************************************)
EXTENDS PathProblems, GraphStructure, RoadAnalysis, PageRank,
        Sorting, Optimization, MinHash

LOCAL INSTANCE TLC
LOCAL INSTANCE SequencesExt
LOCAL INSTANCE FiniteSetsExt

NoEdge == 99

(* A graph from a function on its pairs of nodes, both ways if undirected. *)
EdgeList(k, W) ==
  LET E == [x \in 1 .. k * k |-> LET p == <<(x - 1) \div k, (x - 1) % k>>
                                 IN  [from |-> p[1], to |-> p[2],
                                      weight |-> IF p \in DOMAIN W THEN W[p] ELSE NoEdge]]
  IN  SelectSeq(E, LAMBDA e : e.weight # NoEdge)
Reversed(E) == [i \in DOMAIN E |-> [from |-> E[i].to, to |-> E[i].from, weight |-> E[i].weight]]
Directed(k, W) == [n |-> k, edges |-> EdgeList(k, W)]
Undirected(k, W) == [n |-> k, edges |-> EdgeList(k, W) \o Reversed(EdgeList(k, W))]

Arcs(k) == {p \in (0 .. k - 1) \X (0 .. k - 1) : p[1] # p[2]}
Ascending(k) == {p \in Arcs(k) : p[1] < p[2]}

(* Three directed nodes with weights of either sign, the edges out of the  *)
(* source last.                                                            *)
SignedProblems ==
  {[family |-> "signed", g |-> [n |-> 3, edges |-> Reverse(EdgeList(3, W))], source |-> 0] :
     W \in [Arcs(3) -> {NoEdge, -1, 1, 3}]}
(* Four nodes at places 0 .. 3 of a line, an undirected edge as long as    *)
(* the distance of its ends or longer: the distance to a goal is then an   *)
(* estimate that no edge contradicts.                                      *)
RoadGraphs ==
  {Undirected(4, [p \in Ascending(4) |-> IF X[p] = NoEdge THEN NoEdge ELSE p[2] - p[1] + X[p]]) :
     X \in [Ascending(4) -> {NoEdge, 0, 2}]}
Apart == [u \in 0 .. 3 |-> [v \in 0 .. 3 |-> IF v < u THEN u - v ELSE v - u]]
WayProblems == {[family |-> "ways", g |-> g, source |-> 0, estimate |-> Apart] : g \in RoadGraphs}
RoadProblems == {[family |-> "roads", g |-> g] : g \in RoadGraphs}
(* Four nodes along a road whose middle stretch is longer, every road as   *)
(* long as the distance of its ends or longer; and five nodes joined by    *)
(* any roads, numbered at random.                                          *)
Place == [v \in 0 .. 3 |-> <<0, 1, 3, 4>>[v + 1]]
JourneyProblems ==
  {[family |-> "journeys",
    lines |-> EdgeList(4, [p \in Ascending(4) |-> IF X[p] = NoEdge THEN NoEdge
                                                  ELSE Place[p[2]] - Place[p[1]] + X[p]]),
    n |-> 4, place |-> Place, queries |-> {<<s, t>> \in {0, 3} \X (0 .. 3) : s # t},
    alphas |-> {0, 50, 100, 200, 400}, minHops |-> 1] :
     X \in [Ascending(4) -> {NoEdge, 0, 2}]}
HopProblems ==
  {[family |-> "hops", pairs |-> SelectSeq([x \in 1 .. 25 |-> <<(x - 1) \div 5, (x - 1) % 5>>],
                                           LAMBDA p : p \in S),
    source |-> 0, minHops |-> 1] :
     S \in SUBSET Ascending(5) \ {{}}}
ArcGraphs == {Directed(4, W) : W \in [Arcs(4) -> {NoEdge, 1}]}
ArcProblems == {[family |-> "arcs", g |-> g] : g \in ArcGraphs}
ReachProblems == {[family |-> "reached", g |-> g, source |-> 0] : g \in ArcGraphs \cup RoadGraphs}
MatchingProblems ==
  {[family |-> "matching", pairs |-> S] : S \in SUBSET ((1 .. 3) \X (1 .. 3))}
(* Flow from 0 to 5, where the first path found, 0-1-3-5, may have to give *)
(* way.                                                                    *)
Pipes == {<<0, 1>>, <<0, 2>>, <<1, 3>>, <<1, 4>>, <<2, 3>>, <<3, 5>>, <<4, 5>>}
FlowProblems ==
  {[family |-> "flow",
    cap |-> [p \in (0 .. 5) \X (0 .. 5) |-> IF p \in Pipes THEN C[p] ELSE 0]] :
     C \in [Pipes -> 0 .. 2]}
SortingProblems ==
  UNION {{[family |-> "sorting", a |-> a] : a \in [0 .. k - 1 -> 1 .. 3]} : k \in 0 .. 5}
Strings == UNION {[1 .. k -> {"a", "b"}] : k \in 0 .. 4}
StringProblems == {[family |-> "strings", a |-> s, b |-> t] : s, t \in Strings}
KnapsackProblems ==
  {[family |-> "knapsack", capacity |-> c, weights |-> w, values |-> v] :
     c \in {0, 3, 4}, w \in [1 .. 3 -> 1 .. 3], v \in [1 .. 3 -> {1, 3}]}
TourProblems ==
  {[family |-> "tour",
    dist |-> [i \in 0 .. 3 |-> [j \in 0 .. 3 |->
                IF i = j THEN 0 ELSE W[<<Min({i, j}), Max({i, j})>>]]]] :
     W \in [Ascending(4) -> {0, 1, 5}]}

SetProblems == {[family |-> "sets", a |-> A, b |-> B] : A, B \in SUBSET (0 .. 4)}
MCConstants == [h \in 0 .. 2 |-> <<0, 5, 3>>[h + 1]]

PathProblems_ == SignedProblems \cup WayProblems \cup ReachProblems \cup JourneyProblems \cup HopProblems
Problems == PathProblems_ \cup RoadProblems \cup ArcProblems \cup MatchingProblems \cup FlowProblems
              \cup SortingProblems \cup StringProblems \cup KnapsackProblems \cup TourProblems
              \cup SetProblems

ASSUME PathProblemsAssumption == \A p \in PathProblems_ : IsPathProblem(p)

MCInit == problem \in Problems /\ answer = <<>>

-----------------------------------------------------------------------------
AllOver(a) == <<a, 0, Size(a) - 1>>

SolveRoads ==
  SolvedBy("roads",
    LET g == problem.g
        cuts == analyze(g)
    IN  [kruskal |-> kruskal(g), prim |-> primsMST(g), sets |-> uniteAll(g),
         isAP |-> cuts.isAP, bridges |-> cuts.bridges, bc |-> betweenness(g, <<0, 3>>),
         near |-> nearOptimal(0, 3, g, {20, 50})])
SolveArcs ==
  SolvedBy("arcs", [sccs |-> sccs(problem.g), order |-> topologicalOrder(problem.g),
                  ranks |-> pageRanks(problem.g, 3)])
SolveMatching == SolvedBy("matching", maxMatching(problem.pairs))
SolveFlow == SolvedBy("flow", [flow |-> maxFlow(0 .. 5, problem.cap, 0, 5)])
SolveSorting ==
  SolvedBy("sorting",
    LET a == problem.a  n == Size(a)  sorted == mergeSort(a, 0, n - 1)
    IN  [merge |-> sorted, quick |-> quickSort(a, 0, n - 1), heap |-> heapSort(a),
         found |-> [x \in 0 .. 4 |-> binarySearch(sorted, x)]])
SolveStrings ==
  SolvedBy("strings", [edits |-> editDistance(problem.a, problem.b),
                     lcs |-> lcs(problem.a, problem.b),
                     shingles |-> [x \in {"a", "b"} |-> shingle(problem[x], 2)]])
SolveKnapsack ==
  SolvedBy("knapsack",
    [value |-> knapsack(problem.capacity, problem.weights, problem.values)])
SolveTour ==
  SolvedBy("tour", branchAndBound(problem.dist, <<0>>, 0, [cost |-> 1000, path |-> <<>>]))
SolveSets ==
  SolvedBy("sets", [real |-> realJaccard(problem.a, problem.b),
                  matches |-> Matches(minHashSignature(problem.a), minHashSignature(problem.b))])

MCNext == \/ PathNext \/ SolveRoads \/ SolveArcs \/ SolveMatching \/ SolveFlow \/ SolveSorting
          \/ SolveStrings \/ SolveKnapsack \/ SolveTour \/ SolveSets
MCSpec == MCInit /\ [][MCNext]_pathVars

-----------------------------------------------------------------------------
(* "For each query where A* at alpha=1.05 produces a suboptimal path, this *)
(* tool: 1. Finds the exact node where the A* path diverges from the       *)
(* optimal path": every query counted as suboptimal has its divergence.    *)
DivergencesFound ==
  Solved("journeys") =>
    \A alpha \in problem.alphas :
       Cardinality(DOMAIN answer.analysis[alpha].divergences) = answer.analysis[alpha].totalSubopt

(* The structure found is the graph's: both spanning trees are lightest    *)
(* (Prim's that of the part with node 0), union-find joins exactly what    *)
(* edges connect, the cut nodes and bridges are those whose removal parts  *)
(* the graph, the strong components are the classes of mutual              *)
(* reachability, an order of all nodes comes out exactly for acyclic       *)
(* graphs and respects every edge, a matching is one and a largest one,    *)
(* and a flow is as large as the least cut.  Brandes' dependencies are the *)
(* shares of shortest paths, and the nearly optimal links those of nearly  *)
(* optimal routes.                                                         *)
StructureIsFound ==
  /\ Solved("roads") =>
       LET g == problem.g  parts == Components(NodesOf(g), Pairs(g))
           near == ReachableBy(Pairs(g), 0)
           dist == Shortest(g, 0)
       IN  /\ answer.kruskal = LightestSpan(g)
           /\ answer.prim = LightestSpan([g EXCEPT !.edges =
                                SelectSeq(@, LAMBDA e : e.from \in near)])
           /\ answer.sets.unions = g.n - Cardinality(parts)
           /\ \A u, v \in NodesOf(g) :
                 Root(answer.sets.forest.parent, u) = Root(answer.sets.forest.parent, v)
                   <=> \E C \in parts : {u, v} \subseteq C
           /\ answer.isAP = CutNodes(g) /\ answer.bridges = CutLinks(g)
           /\ \A v \in NodesOf(g) : answer.bc[v] = Dependency(g, 0, v) + Dependency(g, 3, v)
           /\ \A epsilon \in DOMAIN answer.near.links :
                answer.near.links[epsilon] = LinksWithin(0, 3, g, epsilon)
           /\ answer.near.optimal_cost = IF 3 \in DOMAIN dist THEN dist[3] ELSE -1
  /\ Solved("arcs") =>
       LET g == problem.g  order == answer.order
       IN  /\ answer.sccs = StrongComponents(g)
           /\ Len(order) = g.n <=> Cardinality(answer.sccs) = g.n
           /\ Len(order) = g.n => \A i, j \in DOMAIN order :
                                    <<order[i], order[j]>> \in Pairs(g) => i < j
  /\ Solved("matching") =>
       LET L == answer.matchL  R == answer.matchR
       IN  /\ \A u \in DOMAIN L : <<u, L[u]>> \in problem.pairs /\ R[L[u]] = u
           /\ Cardinality(DOMAIN R) = Cardinality(DOMAIN L)
           /\ Cardinality(DOMAIN L) = LargestMatching(problem.pairs)
  /\ Solved("flow") => answer.flow = LeastCut(0 .. 5, problem.cap, 0, 5)

(* The three sorts return the input in order, binary search finds what is  *)
(* there and only that, the tables of dynamic programming and the pruned   *)
(* search for a tour reach the optimum, page ranks keep their sum and      *)
(* converge, and two MinHash signatures agree exactly where the least      *)
(* shingle of all is in both sets, as always in equal ones and never in    *)
(* disjoint ones; a word changed in a text changes as many shingles as it  *)
(* is part of.                                                             *)
OrdersAndOptima ==
  /\ Solved("sorting") =>
       /\ \A b \in {answer.merge, answer.quick, answer.heap} : Sorts(problem.a, b)
       /\ \A x \in DOMAIN answer.found : Finds(answer.merge, x, answer.found[x])
  /\ Solved("strings") => /\ answer.edits = FewestEdits(problem.a, problem.b)
                          /\ answer.lcs = LongestCommon(problem.a, problem.b)
                          /\ Swaps(problem.a, problem.b) =>
                               Cardinality(answer.shingles["a"] \ answer.shingles["b"]) <= 2
  /\ Solved("knapsack") =>
       answer.value = BestLoad(problem.capacity, problem.weights, problem.values)
  /\ Solved("tour") => /\ answer.cost = BestTour(problem.dist)
                       /\ TourCost(problem.dist, answer.path) = answer.cost
  /\ Solved("arcs") =>
       LET r == answer.ranks
       IN  /\ \A i \in 1 .. 3 : KeepsMass(problem.g, r[i], r[i + 1])
           /\ \A i \in 1 .. 2 : Converges(problem.g, r[i], r[i + 1], r[i + 2])
  /\ Solved("sets") =>
       /\ answer.matches = Cardinality(FirstIsShared(problem.a, problem.b))
       /\ answer.real[1] = answer.real[2] => answer.matches = numHashes_
       /\ answer.real[1] = 0 => answer.matches = 0
=============================================================================
