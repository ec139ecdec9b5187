-------------------------- MODULE RoadExperiments --------------------------
(***************************************************************************)
(* The experiments of scripts/ over a road graph.  A graph is as in        *)
(* ShortestPaths, with the place of every node on a line, so that          *)
(* haversine, the great-circle distance of the code, is the difference of  *)
(* two places.  An alpha is given in hundredths.  Where a script samples   *)
(* queries at random, its totals are those over a set of queries.          *)
(***************************************************************************)
EXTENDS ShortestPaths

CONSTANT IdStep   \* ids this far apart count for one hop (100 in the code)

ASSUME IdStepAssumption == IdStep \in Nat \ {0}

haversine(g, u, v) ==
  IF g.place[u] < g.place[v] THEN g.place[v] - g.place[u] ELSE g.place[u] - g.place[v]

(* Each line of a file is an edge both ways.                               *)
TheOtherWay(e) == [from |-> e.to, to |-> e.from, weight |-> e.weight]
EachWay(lines) ==
  [i \in 1 .. 2 * Len(lines) |-> IF i % 2 = 1 THEN lines[(i + 1) \div 2] ELSE TheOtherWay(lines[i \div 2])]
load(n, place, lines) == [n |-> n, place |-> place, edges |-> EachWay(lines)]

-----------------------------------------------------------------------------
(* heuristic_experiment.cpp                                                *)
Estimate(g, goal, alpha) == [u \in NodesOf(g) |-> alpha * haversine(g, u, goal)]
runAstar(start, goal, g, alpha) == guided(g, start, goal, 100, Estimate(g, goal, alpha))

(* Every pair that may be drawn.                                           *)
samplePairs(g, minHops) ==
  UNION {LET depth == bfsSearch(g, 3 * minHops, u).dist
         IN  {u} \X {v \in DOMAIN depth : depth[v] >= minHops} : u \in NodesOf(g)}

(* The row of the table for one alpha.                                     *)
experiment(g, pairs, alpha) ==
  LET optimal == [p \in pairs |-> runAstar(p[1], p[2], g, 0).cost]
      r == [p \in pairs |-> runAstar(p[1], p[2], g, alpha)]
      valid == {p \in pairs : r[p].cost >= 0}
      Equal(x, y) == y > 0 => 1000000 * (IF x < y THEN y - x ELSE x - y) < y
  IN  [noPath |-> Cardinality(pairs \ valid), valid |-> Cardinality(valid),
       isOptimal |-> Cardinality({p \in valid : Equal(r[p].cost, optimal[p])})]

-----------------------------------------------------------------------------
(* divergence_analysis.cpp                                                 *)
search(s, goal, g, alpha) == guided(g, s, goal, 100, Estimate(g, goal, alpha))

Suboptimal(opt, fast) == 10000 * fast.cost > 10001 * opt.cost
Leaves(opt, fast) == {i \in DOMAIN fast.path : fast.path[i] \notin ToSet(opt.path)}

analysis(g, queries, alpha) ==
  LET asked == {q \in queries : q[1] # q[2]}
      opt == [q \in asked |-> search(q[1], q[2], g, 0)]
      fast == [q \in asked |-> search(q[1], q[2], g, alpha)]
      checked == {q \in asked : opt[q].cost >= 0 /\ fast[q].cost >= 0}
      subopt == {q \in checked : Suboptimal(opt[q], fast[q])}
  IN  [totalNoPath |-> Cardinality(asked \ checked), totalChecked |-> Cardinality(checked),
       totalSubopt |-> Cardinality(subopt),
       divergences |-> [q \in {r \in subopt : Leaves(opt[r], fast[r]) # {}} |->
                          [detour |-> fast[q].cost - opt[q].cost,
                           node |-> fast[q].path[Min(Leaves(opt[q], fast[q]))]]]]

-----------------------------------------------------------------------------
(* run_osm_astar.cpp: the comparison it prints, where both found a way     *)
runSearch(start, goal, g, isAstar) ==
  guided(g, start, goal, 1,
         [u \in NodesOf(g) |-> IF isAstar THEN haversine(g, u, goal) ELSE 0])
Compared(start, goal, g) ==
  LET dr == runSearch(start, goal, g, FALSE)
      ar == runSearch(start, goal, g, TRUE)
  IN  IF dr.cost > 0 /\ ar.cost > 0
        THEN {[optimal |-> dr.cost = ar.cost, cost |-> dr.cost,
               saved |-> Cardinality(dr.explored) - Cardinality(ar.explored)]}
        ELSE {}

-----------------------------------------------------------------------------
(* run_real_graph.cpp: hops, and an estimate from the ids of the nodes     *)
loadGraph(pairs) ==
  [n |-> 1 + Max({Max({p[1], p[2]}) : p \in ToSet(pairs)}),
   edges |-> EachWay([i \in DOMAIN pairs |-> [from |-> pairs[i][1], to |-> pairs[i][2],
                                              weight |-> 1]])]
dijkstraTo(start, goal, g) == guided(g, start, goal, 1, [u \in NodesOf(g) |-> 0])
IdEstimate(g, goal) ==
  [u \in NodesOf(g) |-> (IF u < goal THEN goal - u ELSE u - goal) \div IdStep]
astarById(start, goal, g) == guided(g, start, goal, 1, IdEstimate(g, goal))

-----------------------------------------------------------------------------
(* What they are compared with: the way and the nodes that a search with   *)
(* an estimate never too large for an edge must find.                      *)
Consistent(g, h) ==
  \A e \in EdgesOf(g) : h[e.from] <= e.weight + h[e.to]
IsWay(g, start, goal, p) ==
  p # <<>> /\ p[1] = start /\ Last(p) = goal /\ IsInjective(p) /\ IsPath(g, p)
(* least has the least lengths from start.  r answers the query when its   *)
(* cost is at most bound / 100 of the least, the path is a way no longer   *)
(* than the cost, and if nothing was found there is no way.                *)
Answers(g, least, r, start, goal, bound) ==
  IF goal \notin DOMAIN least THEN r.cost = -1 /\ r.path = <<>>
  ELSE /\ least[goal] <= r.cost /\ 100 * r.cost <= bound * least[goal]
       /\ IsWay(g, start, goal, r.path) /\ Length(g, r.path) <= r.cost
(* A search with a consistent estimate explores what lies before the goal, *)
(* and nothing beyond it.                                                  *)
ExploresNoMore(least, r, goal, k, h) ==
  LET f(v) == k * least[v] + h[v]
  IN  IF goal \notin DOMAIN least THEN r.explored = DOMAIN least
      ELSE /\ {v \in DOMAIN least : f(v) < f(goal)} \subseteq r.explored
           /\ r.explored \subseteq {v \in DOMAIN least : f(v) <= f(goal)}
=============================================================================
