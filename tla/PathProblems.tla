--------------------------- MODULE PathProblems ---------------------------
(***************************************************************************)
(* Problems about paths, of any size.  A behaviour has one problem and     *)
(* solves it with the program's algorithms; the properties compare the     *)
(* answer with the least lengths of all simple paths.                      *)
(***************************************************************************)
EXTENDS RoadExperiments

VARIABLES problem,  \* [family, ...] as IsPathProblem says
          answer    \* what the algorithms return; <<>> while they run
pathVars == <<problem, answer>>

IsGraph(g) ==
  /\ g.n \in Nat
  /\ g.edges \in Seq([from : NodesOf(g), to : NodesOf(g), weight : Int])
NoneNegative(g) == \A e \in EdgesOf(g) : e.weight >= 0
OneForEachPair(g) ==
  \A e, f \in EdgesOf(g) : e.from = f.from /\ e.to = f.to => e.weight = f.weight

(* Nodes at places of their own, joined by roads that are as long as the   *)
(* distance of their ends or longer.                                       *)
IsRoads(n, place, lines) ==
  /\ n \in Nat /\ place \in [0 .. n - 1 -> Int] /\ IsInjective(place)
  /\ lines \in Seq([from : 0 .. n - 1, to : 0 .. n - 1, weight : Nat])
  /\ \A i \in 1 .. Len(lines) :
       haversine([place |-> place], lines[i].from, lines[i].to) <= lines[i].weight

(* Any weights; weights of at least zero with one for each pair of nodes,  *)
(* and an estimate for each goal that no edge contradicts; any graph, for  *)
(* numbers of hops; roads with queries; and links between ids.             *)
IsPathProblem(p) ==
  \/ p.family = "signed" /\ IsGraph(p.g) /\ p.source \in NodesOf(p.g)
  \/ /\ p.family = "ways" /\ IsGraph(p.g) /\ p.source \in NodesOf(p.g)
     /\ NoneNegative(p.g) /\ OneForEachPair(p.g)
     /\ p.estimate \in [NodesOf(p.g) -> [NodesOf(p.g) -> Nat]]
     /\ \A goal \in NodesOf(p.g) : Consistent(p.g, p.estimate[goal])
  \/ p.family = "reached" /\ IsGraph(p.g) /\ p.source \in NodesOf(p.g)
  \/ /\ p.family = "journeys" /\ IsRoads(p.n, p.place, p.lines)
     /\ \A q \in p.queries : q \in (0 .. p.n - 1) \X (0 .. p.n - 1)
     /\ \A alpha \in p.alphas : alpha \in Nat
     /\ p.minHops \in Nat
  \/ /\ p.family = "hops" /\ p.pairs \in Seq(Nat \X Nat) /\ p.pairs # <<>>
     /\ p.source \in NodesOf(loadGraph(p.pairs)) /\ p.minHops \in Nat

PathInit == IsPathProblem(problem) /\ answer = <<>>

-----------------------------------------------------------------------------
SolvedBy(family, result) ==
  /\ answer = <<>> /\ problem.family = family
  /\ answer' = result
  /\ UNCHANGED problem

SolveSigned ==
  SolvedBy("signed",
    LET dist == bellmanFord(problem.g, problem.source)
    IN  [bellman |-> dist, negative |-> negativeCycle(problem.g, dist)])
SolveWays ==
  SolvedBy("ways",
    LET g == problem.g  s == problem.source
    IN  [dijkstra |-> dijkstra(g, s), bellman |-> bellmanFord(g, s), floyd |-> floyd(g),
         astar |-> [goal \in NodesOf(g) |-> astar(g, s, goal, problem.estimate[goal])]])
SolveReached ==
  SolvedBy("reached",
    LET g == problem.g  s == problem.source
    IN  [bfs |-> bfs(g, s), ways |-> [v \in NodesOf(g) |-> bfsPath(g, s, v)]])
SolveJourneys ==
  SolvedBy("journeys",
    LET g == load(problem.n, problem.place, problem.lines)
        queries == problem.queries
        pairs == samplePairs(g, problem.minHops)
    IN  [found |-> [alpha \in problem.alphas |->
                      [q \in queries |-> runAstar(q[1], q[2], g, alpha)]],
         compared |-> [q \in queries |-> Compared(q[1], q[2], g)],
         row |-> [alpha \in problem.alphas |-> experiment(g, pairs, alpha)],
         analysis |-> [alpha \in problem.alphas |-> analysis(g, queries, alpha)]])
SolveHops ==
  SolvedBy("hops",
    LET g == loadGraph(problem.pairs)  s == problem.source
    IN  [sampled |-> samplePairs(g, problem.minHops),
         byId |-> [goal \in NodesOf(g) |-> astarById(s, goal, g)],
         plain |-> [goal \in NodesOf(g) |-> dijkstraTo(s, goal, g)]])

PathNext == SolveSigned \/ SolveWays \/ SolveReached \/ SolveJourneys \/ SolveHops
PathSpec == PathInit /\ [][PathNext]_pathVars

-----------------------------------------------------------------------------
Solved(family) == answer # <<>> /\ problem.family = family

(* Dijkstra, A-star, Bellman-Ford, Floyd-Warshall and BFS find least       *)
(* lengths: each agrees with the least over all simple paths, wherever it  *)
(* is meant to be used (Bellman-Ford also with negative weights, where it  *)
(* tells exactly the graphs with a negative cycle it can reach), and the   *)
(* paths that A-star and BFS walk back are such paths.                     *)
PathsAreShortest ==
  LET g == problem.g  s == problem.source
  IN  /\ Solved("signed") =>
           /\ answer.negative = HasNegativeCycle(g, s)
           /\ ~answer.negative => answer.bellman = Shortest(g, s)
      /\ Solved("ways") =>
           LET dist == Shortest(g, s)
           IN  /\ answer.dijkstra = dist /\ answer.bellman = dist
               /\ FloydRow(answer.floyd, s) = dist
               /\ \A goal \in NodesOf(g) : Answers(g, dist, answer.astar[goal], s, goal, 100)
      /\ Solved("reached") =>
           /\ answer.bfs = FewestHops(g, s)
           /\ \A v \in DOMAIN answer.bfs :
                IsWay(g, s, v, answer.ways[v]) /\ Len(answer.ways[v]) = answer.bfs[v] + 1

(* The experiments with scaled estimates measure what they say.  A query   *)
(* that may be drawn has a way of at least minHops and at most 3 * minHops *)
(* hops, so none goes without an answer.  With alpha <= 1 every search is  *)
(* optimal and explores nothing beyond its goal, so that no more nodes are *)
(* saved than there were; with alpha > 1 the cost is at most alpha times   *)
(* the least, and the path walked is no longer than the cost reported.     *)
(* The estimate from the ids, which overestimates where a road joins nodes *)
(* with ids far apart, still finds a way.                                  *)
ExperimentsAgree ==
  /\ Solved("journeys") =>
       LET g == load(problem.n, problem.place, problem.lines)
           least == [s \in {q[1] : q \in problem.queries} |-> Shortest(g, s)]
       IN  /\ \A alpha \in problem.alphas, q \in problem.queries :
                LET r == answer.found[alpha][q]
                IN  /\ Answers(g, least[q[1]], r, q[1], q[2], IF alpha <= 100 THEN 100 ELSE alpha)
                    /\ alpha <= 100 =>
                         ExploresNoMore(least[q[1]], r, q[2], 100, Estimate(g, q[2], alpha))
           /\ \A q \in problem.queries : \A c \in answer.compared[q] :
                c.optimal /\ c.saved >= 0 /\ c.cost >= haversine(g, q[1], q[2])
           /\ \A alpha \in problem.alphas :
                LET row == answer.row[alpha]  a == answer.analysis[alpha]
                IN  /\ row.noPath = 0
                    /\ alpha <= 100 => row.isOptimal = row.valid /\ a.totalSubopt = 0
                    /\ \A q \in DOMAIN a.divergences : a.divergences[q].node \notin {q[1], q[2]}
  /\ Solved("hops") =>
       LET g == loadGraph(problem.pairs)
           s == problem.source
           hops == FewestHops(g, s)
           k == problem.minHops
       IN  /\ {p \in answer.sampled : p[1] = s} = {s} \X {v \in DOMAIN hops : hops[v] \in k .. 3 * k}
           /\ \A goal \in NodesOf(g) :
                /\ Answers(g, hops, answer.plain[goal], s, goal, 100)
                /\ Answers(g, hops, answer.byId[goal], s, goal,
                           IF Consistent(g, IdEstimate(g, goal)) THEN 100 ELSE 100 * g.n)
=============================================================================
