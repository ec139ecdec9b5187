--------------------------- MODULE ShortestPaths ---------------------------
(***************************************************************************)
(* Graphs, their paths, and the algorithms of graph/ and include/graph.hpp *)
(* that measure them, each a function from a graph to what the program     *)
(* computes.  A graph is [n, edges]: nodes 0 .. n - 1 and a sequence of    *)
(* edges [from, to, weight] in the order in which they were added.  dist   *)
(* has the nodes reached for domain, where the code keeps INF (or -1) for  *)
(* the others.                                                             *)
(***************************************************************************)
EXTENDS Integers, Sequences, FiniteSets, SequencesExt

NodesOf(g) == 0 .. g.n - 1
EdgesOf(g) == ToSet(g.edges)
adj(g, u) == SelectSeq(g.edges, LAMBDA e : e.from = u)

Closer(dist, v, d) == v \in DOMAIN dist => d < dist[v]
With(dist, v, d) == [x \in DOMAIN dist \cup {v} |-> IF x = v THEN d ELSE dist[x]]

-----------------------------------------------------------------------------
(* Mistakes the checks are tested with: one pass too few; a search that    *)
(* ends when the goal is seen, before it is popped.                        *)
PassesLessOne(g) == g.n - 2
EndsWhenSeen(goal, s) == s.pq = {} \/ goal \in DOMAIN s.dist

-----------------------------------------------------------------------------
(* bellmanFord, and the extra pass of bellman_ford.cpp                     *)
Improves(dist, e) == e.from \in DOMAIN dist /\ Closer(dist, e.to, dist[e.from] + e.weight)
Relax(dist, e) == IF Improves(dist, e) THEN With(dist, e.to, dist[e.from] + e.weight) ELSE dist
BellmanPass(dist, edges) == FoldLeft(Relax, dist, edges)
Passes(g) == g.n - 1
OnlySource(source) == [v \in {source} |-> 0]
bellmanFord(g, source) ==
  FoldLeft(LAMBDA D, i : BellmanPass(D, g.edges), OnlySource(source), [i \in 1 .. Passes(g) |-> i])
negativeCycle(g, dist) == \E e \in EdgesOf(g) : Improves(dist, e)

(* floyd_warshall.cpp: dist has the pairs connected so far.  It is meant   *)
(* for weights of at least zero, where a sum with INF is never less than   *)
(* INF, and has room for one edge from a node to another.                  *)
FloydStart(g) ==
  [p \in {<<u, u>> : u \in NodesOf(g)} \cup {<<e.from, e.to>> : e \in EdgesOf(g)} |->
     IF p[1] = p[2] THEN 0
     ELSE (CHOOSE e \in EdgesOf(g) : e.from = p[1] /\ e.to = p[2]).weight]
FloydBetter(dist, k, i, j) ==
  LET through == dist[<<i, k>>] + dist[<<k, j>>]
  IN  IF {<<i, k>>, <<k, j>>} \subseteq DOMAIN dist /\ Closer(dist, <<i, j>>, through)
        THEN With(dist, <<i, j>>, through)
        ELSE dist
FloydStage(g, dist, k) ==
  FoldLeft(LAMBDA D, x : FloydBetter(D, k, x \div g.n, x % g.n),
           dist, [x \in 1 .. g.n * g.n |-> x - 1])
floyd(g) ==
  FoldLeft(LAMBDA D, k : FloydStage(g, D, k), FloydStart(g), [x \in 1 .. g.n |-> x - 1])
FloydRow(dist, s) == [v \in {p[2] : p \in {q \in DOMAIN dist : q[1] = s}} |-> dist[<<s, v>>]]

-----------------------------------------------------------------------------
(* dijkstra: no node is closed; an entry of the queue is stale when its    *)
(* node has become closer since.  d and u are the entry popped last.  With *)
(* weights of at least zero no more is ever queued than the source and,    *)
(* once for each edge, its end, so that the queue is empty after as many   *)
(* turns: those that are left do nothing.                                  *)
Top(pq) == CHOOSE x \in pq : \A y \in pq : x[1] < y[1] \/ (x[1] = y[1] /\ x[2] <= y[2])
Turns(g) == [i \in 1 .. Len(g.edges) + 1 |-> i]

Relaxed(s, e) ==
  IF e.from = s.u /\ Closer(s.dist, e.to, s.d + e.weight)
    THEN [s EXCEPT !.dist = With(@, e.to, s.d + e.weight),
                   !.pq = @ \cup {<<s.d + e.weight, e.to>>}]
    ELSE s
DijkstraTurn(g, s) ==
  LET top == Top(s.pq)
      popped == [s EXCEPT !.pq = @ \ {top}, !.d = top[1], !.u = top[2]]
  IN  IF s.pq = {} THEN s
      ELSE IF top[1] > s.dist[top[2]] THEN popped
      ELSE FoldLeft(Relaxed, popped, g.edges)
DijkstraStart(source) ==
  [dist |-> OnlySource(source), pq |-> {<<0, source>>}, d |-> 0, u |-> source]
dijkstraSearch(g, source) ==
  FoldLeft(LAMBDA s, i : DijkstraTurn(g, s), DijkstraStart(source), Turns(g))
dijkstra(g, source) == dijkstraSearch(g, source).dist

(* The search of astar and of the scripts: a node is closed when it is     *)
(* popped and never opened again; h estimates what remains, and priorities *)
(* are in parts of 1 / k.                                                  *)
Finished(goal, s) == s.pq = {} \/ goal \in s.closed
Offered(s, e, k, h) ==
  LET nd == s.dist[s.u] + e.weight
  IN  IF e.from = s.u /\ Closer(s.dist, e.to, nd)
        THEN [s EXCEPT !.dist = With(@, e.to, nd), !.parent = With(@, e.to, s.u),
                       !.pq = @ \cup {<<k * nd + h[e.to], e.to>>}]
        ELSE s
EdgesOffered(g, k, h, s) == FoldLeft(LAMBDA r, e : Offered(r, e, k, h), s, g.edges)
GuidedTurn(g, goal, k, h, s) ==
  LET u == Top(s.pq)[2]
      popped == [s EXCEPT !.pq = @ \ {Top(s.pq)}, !.u = u]
      closed == [popped EXCEPT !.closed = @ \cup {u}]
  IN  IF Finished(goal, s) THEN s
      ELSE IF u \in s.closed THEN popped
      ELSE IF u = goal THEN closed
      ELSE EdgesOffered(g, k, h, closed)
GuidedStart(start, h) ==
  [dist |-> OnlySource(start), parent |-> <<>>, closed |-> {}, pq |-> {<<h[start], start>>},
   u |-> start]
guidedSearch(g, start, goal, k, h) ==
  FoldLeft(LAMBDA s, i : GuidedTurn(g, goal, k, h, s), GuidedStart(start, h), Turns(g))

(* The path that is walked back from v.                                    *)
WalkedBack(parent, path) ==
  IF Head(path) \in DOMAIN parent THEN <<parent[Head(path)]>> \o path ELSE path
PathTo(parent, v) ==
  FoldLeft(LAMBDA path, i : WalkedBack(parent, path), <<v>>,
           [i \in 1 .. Cardinality(DOMAIN parent) |-> i])

(* What the guided search returns: the cost (-1 if there is no way), the   *)
(* path, and the nodes explored, of which the programs report the number.  *)
guided(g, start, goal, k, h) ==
  LET s == guidedSearch(g, start, goal, k, h)
      found == goal \in DOMAIN s.dist
  IN  [cost |-> IF found THEN s.dist[goal] ELSE -1,
       path |-> IF found THEN PathTo(s.parent, goal) ELSE <<>>,
       explored |-> s.closed]

astar(g, start, goal, h) == guided(g, start, goal, 1, h)

-----------------------------------------------------------------------------
(* bfs, and the search for candidates of heuristic_experiment.cpp, which   *)
(* does not go on from a node that is far hops away.  No node is queued    *)
(* twice, so that the queue is empty after as many turns as there are.     *)
Reached(s, e) ==
  IF e.from = s.u /\ e.to \notin DOMAIN s.dist
    THEN [s EXCEPT !.dist = With(@, e.to, s.dist[s.u] + 1), !.parent = With(@, e.to, s.u),
                   !.q = Append(@, e.to)]
    ELSE s
BfsTurn(g, far, s) ==
  LET popped == [s EXCEPT !.q = Tail(@), !.u = Head(s.q)]
  IN  IF s.q = <<>> THEN s
      ELSE IF s.dist[Head(s.q)] >= far THEN popped
      ELSE FoldLeft(Reached, popped, g.edges)
BfsStart(source) ==
  [dist |-> OnlySource(source), parent |-> <<>>, q |-> <<source>>, u |-> source]
bfsSearch(g, far, source) ==
  FoldLeft(LAMBDA s, i : BfsTurn(g, far, s), BfsStart(source), [i \in 1 .. g.n |-> i])

bfs(g, source) == bfsSearch(g, g.n, source).dist
bfsPath(g, source, v) == PathTo(bfsSearch(g, g.n, source).parent, v)

-----------------------------------------------------------------------------
(* What they are compared with: the least weight, and the least number of  *)
(* edges, of a simple path, where there is one.                            *)
WeightOf(g, u, v) == Min({e.weight : e \in {f \in EdgesOf(g) : f.from = u /\ f.to = v}})
IsPath(g, p) == \A i \in 1 .. Len(p) - 1 :
                  \E e \in EdgesOf(g) : e.from = p[i] /\ e.to = p[i + 1]
Length(g, p) == FoldLeft(LAMBDA s, i : s + WeightOf(g, p[i], p[i + 1]), 0,
                         [i \in 1 .. Len(p) - 1 |-> i])
SimplePaths(g, s) ==
  {p \in UNION {[1 .. k -> NodesOf(g)] : k \in 1 .. g.n} :
     p[1] = s /\ IsInjective(p) /\ IsPath(g, p)}
Shortest(g, s) ==
  LET P == SimplePaths(g, s)
  IN  [v \in {Last(p) : p \in P} |-> Min({Length(g, p) : p \in {q \in P : Last(q) = v}})]
FewestHops(g, s) ==
  LET P == SimplePaths(g, s)
  IN  [v \in {Last(p) : p \in P} |-> Min({Len(p) - 1 : p \in {q \in P : Last(q) = v}})]
HasNegativeCycle(g, s) ==
  \E p \in SimplePaths(g, s) : \E i \in 1 .. Len(p) :
     /\ \E e \in EdgesOf(g) : e.from = Last(p) /\ e.to = p[i]
     /\ Length(g, SubSeq(p, i, Len(p)) \o <<p[i]>>) < 0
=============================================================================
