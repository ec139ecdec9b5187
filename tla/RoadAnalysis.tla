---------------------------- MODULE RoadAnalysis ----------------------------
(***************************************************************************)
(* What the scripts compute over a road graph: Brandes' dependencies       *)
(* (scripts/betweenness.cpp) and the edges on nearly optimal routes        *)
(* (scripts/near_optimal_subgraph.cpp).  Graphs are as in ShortestPaths,   *)
(* undirected and with lengths above zero: between places of distance 0    *)
(* each would count as the predecessor of the other.  A dependency is      *)
(* given in parts of Unit, which all numbers of paths must divide.         *)
(***************************************************************************)
EXTENDS ShortestPaths

LOCAL INSTANCE TLC
LOCAL INSTANCE SequencesExt
LOCAL INSTANCE FiniteSetsExt

CONSTANT Unit

ASSUME UnitAssumption == Unit \in Nat \ {0}

-----------------------------------------------------------------------------
(* The search of brandes_source: sigma counts shortest paths, pred has     *)
(* the predecessors on them, order the nodes as they were popped.          *)
BrandesStart(g, s) ==
  [dist |-> s :> 0, pq |-> {<<0, s>>}, order |-> <<>>,
   sigma |-> [v \in NodesOf(g) |-> IF v = s THEN 1 ELSE 0],
   pred |-> [v \in NodesOf(g) |-> <<>>]]

Nearer(b, v, d) ==
  IF Closer(b.dist, v, d)
    THEN [b EXCEPT !.dist = With(@, v, d), !.pq = @ \cup {<<d, v>>},
                   !.sigma[v] = 0, !.pred[v] = <<>>]
    ELSE b
CountPaths(b, u, v, d) ==
  IF d = b.dist[v] THEN [b EXCEPT !.sigma[v] = @ + b.sigma[u], !.pred[v] = Append(@, u)] ELSE b

RECURSIVE BrandesLoop(_, _)
BrandesLoop(g, b) ==
  IF b.pq = {} THEN b
  ELSE LET u == Top(b.pq)[2]
           popped == [b EXCEPT !.pq = @ \ {Top(b.pq)}]
           follow(c, e) == LET d == c.dist[u] + e.weight
                           IN  CountPaths(Nearer(c, e.to, d), u, e.to, d)
       IN  IF Top(b.pq)[1] > b.dist[u] THEN BrandesLoop(g, popped)
           ELSE BrandesLoop(g, FoldLeft(follow, [popped EXCEPT !.order = Append(@, u)], adj(g, u)))

(* From the farthest node back, each predecessor gets its share.           *)
brandes_source(s, g) ==
  LET b == BrandesLoop(g, BrandesStart(g, s))
      share(w, D, v) == [D EXCEPT ![v] = @ + (b.sigma[v] * (Unit + D[w])) \div b.sigma[w]]
      back(D, w) == FoldLeft(LAMBDA C, v : share(w, C, v), D, b.pred[w])
      delta == FoldLeft(back, [v \in NodesOf(g) |-> 0], Reverse(b.order))
  IN  [v \in NodesOf(g) |-> IF v = s THEN 0 ELSE delta[v]]

(* main's sum over the sources drawn, before it is divided by their number.*)
betweenness(g, sources) ==
  FoldLeft(LAMBDA bc, s : LET delta == brandes_source(s, g) IN [v \in NodesOf(g) |-> bc[v] + delta[v]],
           [v \in NodesOf(g) |-> 0], sources)

(* The links of the nearly optimal subgraph for each epsilon, in           *)
(* hundredths, and how many links there are, and on the source's side.     *)
nearOptimal(src, goal, g, epsilons) ==
  LET df == dijkstra(g, src)  db == dijkstra(g, goal)
      total == {e \in EdgesOf(g) : e.from < e.to}
      reachable == {e \in total : e.from \in DOMAIN df /\ e.to \in DOMAIN db}
      through(u, v, w) == df[u] + w + db[v]
      best(e) == Min({through(e.from, e.to, e.weight), through(e.to, e.from, e.weight)})
      none == [epsilon \in epsilons |-> {}]
  IN  IF goal \notin DOMAIN df
        THEN [optimal_cost |-> -1, links |-> none, total_edges |-> 0, reachable_edges |-> 0]
        ELSE [optimal_cost |-> df[goal], total_edges |-> Cardinality(total),
              reachable_edges |-> Cardinality(reachable),
              links |-> [epsilon \in epsilons |->
                           {{e.from, e.to} : e \in {f \in reachable :
                              100 * best(f) <= (100 + epsilon) * df[goal]}}]]

-----------------------------------------------------------------------------
(* What they are compared with.                                            *)
ShortestPathsTo(g, s, t) ==
  {p \in SimplePaths(g, s) : Last(p) = t /\ Length(g, p) = Shortest(g, s)[t]}
Dependency(g, s, v) ==
  LET targets == DOMAIN Shortest(g, s) \ {s, v}
      part(t) == LET P == ShortestPathsTo(g, s, t)
                 IN  (Unit * Cardinality({p \in P : v \in ToSet(p)})) \div Cardinality(P)
  IN  IF v = s THEN 0 ELSE MapThenSumSet(part, targets)

(* A route over the link is a path to one end and a path back from the     *)
(* other.                                                                  *)
LinksWithin(src, goal, g, epsilon) ==
  LET best == Shortest(g, src)[goal]
      from == SimplePaths(g, src)  to == SimplePaths(g, goal)
  IN  IF goal \notin DOMAIN Shortest(g, src) THEN {}
      ELSE {{e.from, e.to} : e \in {f \in EdgesOf(g) :
              \E p \in from, q \in to :
                 /\ Last(p) = f.from /\ Last(q) = f.to
                 /\ 100 * (Length(g, p) + f.weight + Length(g, q)) <= (100 + epsilon) * best}}
=============================================================================
