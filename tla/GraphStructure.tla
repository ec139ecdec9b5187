--------------------------- MODULE GraphStructure ---------------------------
(***************************************************************************)
(* The other graph algorithms of graph/: union-find and the spanning       *)
(* trees, topological order, strong components, articulation points and    *)
(* bridges, matching and flow.  Graphs are as in ShortestPaths; an         *)
(* undirected one has each edge in both directions.  A recursive dfs of    *)
(* the code passes its object's fields, s, along.                          *)
(***************************************************************************)
EXTENDS ShortestPaths

LOCAL INSTANCE TLC
LOCAL INSTANCE SequencesExt
LOCAL INSTANCE FiniteSetsExt

targets(g, u) == LET A == adj(g, u) IN [i \in DOMAIN A |-> A[i].to]

-----------------------------------------------------------------------------
(* A mistake the checks are tested with: the root of the tree treated like *)
(* its other nodes.                                                        *)
CutsBelowRoot(s, u, v, children) == s.low[v] >= s.disc[u]

-----------------------------------------------------------------------------
(* UnionFind of union_find.cpp: find compresses the path it walks.         *)
NewForest(n) == [parent |-> [v \in 0 .. n - 1 |-> v], rank |-> [v \in 0 .. n - 1 |-> 0]]

RECURSIVE Chain(_, _)
Chain(parent, x) == IF parent[x] = x THEN {x} ELSE {x} \cup Chain(parent, parent[x])
Root(parent, x) == CHOOSE r \in Chain(parent, x) : parent[r] = r
find(f, x) ==
  [f EXCEPT !.parent = [v \in Chain(f.parent, x) |-> Root(f.parent, x)] @@ @]

unite(f, a, b) ==
  LET c == find(find(f, a), b)
      ra == Root(c.parent, a)  rb == Root(c.parent, b)
      above == IF c.rank[ra] < c.rank[rb] THEN rb ELSE ra
      below == IF above = ra THEN rb ELSE ra
  IN  IF ra = rb THEN [merged |-> FALSE, forest |-> c]
      ELSE [merged |-> TRUE,
            forest |-> [parent |-> [c.parent EXCEPT ![below] = above],
                        rank |-> [c.rank EXCEPT ![above] =
                                    IF c.rank[above] = c.rank[below] THEN @ + 1 ELSE @]]]
uniteAll(g) ==
  FoldLeft(LAMBDA s, e : LET u == unite(s.forest, e.from, e.to)
                         IN  [forest |-> u.forest, unions |-> s.unions + IF u.merged THEN 1 ELSE 0],
           [forest |-> NewForest(g.n), unions |-> 0], g.edges)

(* kruskal_mst.cpp, over the edges by increasing weight; its own          *)
(* UnionFind has no ranks.                                                 *)
ByWeight(g) == SortSeq(g.edges, LAMBDA e, f : e.weight < f.weight)
Joined(f, a, b) ==
  LET c == find(find(f, a), b)
  IN  [c EXCEPT !.parent[Root(c.parent, a)] = Root(c.parent, b)]
kruskal(g) ==
  FoldLeft(LAMBDA s, e :
             [forest |-> Joined(s.forest, e.from, e.to),
              total |-> s.total + IF Root(s.forest.parent, e.from) = Root(s.forest.parent, e.to)
                                    THEN 0 ELSE e.weight],
           [forest |-> NewForest(g.n), total |-> 0], ByWeight(g)).total

(* primsMST, from node 0                                                   *)
RECURSIVE PrimLoop(_, _, _, _, _)
PrimLoop(g, key, inMST, total, pq) ==
  IF pq = {} THEN total
  ELSE LET u == Top(pq)[2]  w == Top(pq)[1]  rest == pq \ {Top(pq)}
           offer(s, e) ==
             IF e.to \notin inMST \cup {u} /\ Closer(s.key, e.to, e.weight)
               THEN [key |-> With(s.key, e.to, e.weight), pq |-> s.pq \cup {<<e.weight, e.to>>}]
               ELSE s
           s == FoldLeft(offer, [key |-> key, pq |-> rest], adj(g, u))
       IN  IF u \in inMST THEN PrimLoop(g, key, inMST, total, rest)
           ELSE PrimLoop(g, s.key, inMST \cup {u}, total + w, s.pq)
primsMST(g) == PrimLoop(g, 0 :> 0, {}, 0, {<<0, 0>>})

-----------------------------------------------------------------------------
(* topological_sort.cpp                                                    *)
RECURSIVE KahnLoop(_, _, _, _)
KahnLoop(g, indegree, order, q) ==
  IF q = <<>> THEN order
  ELSE LET drop(s, v) ==
             [indegree |-> [s.indegree EXCEPT ![v] = @ - 1],
              q |-> IF s.indegree[v] = 1 THEN Append(s.q, v) ELSE s.q]
           s == FoldLeft(drop, [indegree |-> indegree, q |-> Tail(q)], targets(g, Head(q)))
       IN  KahnLoop(g, s.indegree, Append(order, Head(q)), s.q)
topologicalOrder(g) ==
  LET indegree == [v \in NodesOf(g) |-> Len(SelectSeq(g.edges, LAMBDA e : e.to = v))]
  IN  KahnLoop(g, indegree, <<>>,
               SelectSeq([i \in 1 .. g.n |-> i - 1], LAMBDA v : indegree[v] = 0))

(* Tarjan of tarjan_scc.cpp                                                *)
Least2(a, b) == IF a < b THEN a ELSE b
RECURSIVE SccDfs(_, _, _)
SccDfs(g, s, u) ==
  LET begun == [s EXCEPT !.disc[u] = s.idx, !.low[u] = s.idx, !.idx = @ + 1,
                         !.st = Append(@, u)]
      look(c, v) ==
        IF c.disc[v] = -1
          THEN LET d == SccDfs(g, c, v) IN [d EXCEPT !.low[u] = Least2(@, d.low[v])]
        ELSE IF Contains(c.st, v) THEN [c EXCEPT !.low[u] = Least2(@, c.disc[v])]
        ELSE c
      s2 == FoldLeft(look, begun, targets(g, u))
      at == CHOOSE i \in DOMAIN s2.st : s2.st[i] = u
  IN  IF s2.low[u] # s2.disc[u] THEN s2
      ELSE [s2 EXCEPT !.sccs = @ \cup {ToSet(SubSeq(s2.st, at, Len(s2.st)))},
                      !.st = SubSeq(@, 1, at - 1)]
Undiscovered(g) == [v \in NodesOf(g) |-> -1]
sccs(g) ==
  FoldLeft(LAMBDA s, i : IF s.disc[i] = -1 THEN SccDfs(g, s, i) ELSE s,
           [disc |-> Undiscovered(g), low |-> Undiscovered(g), idx |-> 0, st |-> <<>>,
            sccs |-> {}],
           [i \in 1 .. g.n |-> i - 1]).sccs

(* Graph::analyze of articulation_points.cpp: v is a child of u in the     *)
(* tree, the last of children so far.                                      *)
CutsAt(s, u, v, children) == IF s.parent[u] = -1 THEN children > 1
                             ELSE s.low[v] >= s.disc[u]
RECURSIVE CutDfs(_, _, _)
CutDfs(g, s, u) ==
  LET begun == [s EXCEPT !.disc[u] = s.timer, !.low[u] = s.timer, !.timer = @ + 1]
      look(c, v) ==
        IF c.s.disc[v] = -1
          THEN LET d == CutDfs(g, [c.s EXCEPT !.parent[v] = u], v)
                   l == [d EXCEPT !.low[u] = Least2(@, d.low[v])]
               IN  [children |-> c.children + 1,
                    s |-> [l EXCEPT
                       !.isAP = IF CutsAt(l, u, v, c.children + 1) THEN @ \cup {u} ELSE @,
                       !.bridges = IF l.low[v] > l.disc[u] THEN @ \cup {{u, v}} ELSE @]]
        ELSE IF v # c.s.parent[u] THEN [c EXCEPT !.s.low[u] = Least2(@, c.s.disc[v])]
        ELSE c
  IN  FoldLeft(look, [children |-> 0, s |-> begun], targets(g, u)).s
analyze(g) ==
  FoldLeft(LAMBDA s, i : IF s.disc[i] = -1 THEN CutDfs(g, s, i) ELSE s,
           [disc |-> Undiscovered(g), low |-> Undiscovered(g), timer |-> 0,
            parent |-> Undiscovered(g), isAP |-> {}, bridges |-> {}],
           [i \in 1 .. g.n |-> i - 1])

-----------------------------------------------------------------------------
(* HopcroftKarp of bipartite_matching.cpp.  edges: [u, v] pairs, u on the  *)
(* left.  s: matchL, matchR (partial functions) and dist, whose domain is  *)
(* the nodes with a finite distance.                                       *)
RECURSIVE LayerLoop(_, _, _, _, _)
LayerLoop(edges, s, dist, q, found) ==
  IF q = <<>> THEN [dist |-> dist, found |-> found]
  ELSE LET u == Head(q)
           V == {v \in {e[2] : e \in edges} : <<u, v>> \in edges}
           W == {s.matchR[v] : v \in V \cap DOMAIN s.matchR} \ DOMAIN dist
       IN  LayerLoop(edges, s, [w \in W |-> dist[u] + 1] @@ dist,
                     Tail(q) \o SetToSeq(W), found \/ ~(V \subseteq DOMAIN s.matchR))
bfsLayers(edges, s) ==
  LET free == {e[1] : e \in edges} \ DOMAIN s.matchL
  IN  LayerLoop(edges, s, [u \in free |-> 0], SetToSeq(free), FALSE)

RECURSIVE Augment(_, _, _)
Augment(edges, s, u) ==
  LET try(c, v) ==
        IF c.ok THEN c
        ELSE LET w == IF v \in DOMAIN c.s.matchR THEN c.s.matchR[v] ELSE -1
                 d == IF w \in DOMAIN c.s.dist /\ u \in DOMAIN c.s.dist
                         /\ c.s.dist[w] = c.s.dist[u] + 1
                        THEN Augment(edges, c.s, w) ELSE [ok |-> w = -1, s |-> c.s]
             IN  IF d.ok THEN [ok |-> TRUE, s |-> [d.s EXCEPT !.matchL = (u :> v) @@ @,
                                                             !.matchR = (v :> u) @@ @]]
                 ELSE d
      r == FoldLeft(try, [ok |-> FALSE, s |-> s],
                    SetToSeq({e[2] : e \in {f \in edges : f[1] = u}}))
  IN  IF r.ok THEN r
      ELSE [r EXCEPT !.s.dist = [w \in DOMAIN @ \ {u} |-> @[w]]]

RECURSIVE MatchLoop(_, _)
MatchLoop(edges, s) ==
  LET b == bfsLayers(edges, s)
      grow(c, u) == IF u \in DOMAIN c.matchL THEN c ELSE Augment(edges, c, u).s
  IN  IF ~b.found THEN s
      ELSE MatchLoop(edges, FoldLeft(grow, [s EXCEPT !.dist = b.dist],
                                     SetToSeq({e[1] : e \in edges})))
maxMatching(edges) == MatchLoop(edges, [matchL |-> <<>>, matchR |-> <<>>, dist |-> <<>>])

(* maxFlow of ford_fulkerson_maxflow.cpp over nodes N; cap: capacity_.     *)
RECURSIVE FlowSearch(_, _, _, _, _)
FlowSearch(N, cap, t, parent, q) ==
  IF q = <<>> \/ t \in DOMAIN parent THEN parent
  ELSE LET u == Head(q)
           V == {v \in N \ DOMAIN parent : cap[<<u, v>>] > 0}
       IN  FlowSearch(N, cap, t, [v \in V |-> u] @@ parent, Tail(q) \o SetToSortSeq(V, <))
RECURSIVE Trail(_, _, _)
Trail(parent, s, v) == IF v = s THEN {} ELSE {<<parent[v], v>>} \cup Trail(parent, s, parent[v])
Pushed(cap, u, v, f) == [cap EXCEPT ![<<u, v>>] = @ - f, ![<<v, u>>] = @ + f]
RECURSIVE FlowLoop(_, _, _, _, _)
FlowLoop(N, cap, s, t, flow) ==
  LET parent == FlowSearch(N, cap, t, s :> s, <<s>>)
      edges == Trail(parent, s, t)
      new == Min({cap[e] : e \in edges})
  IN  IF t \notin DOMAIN parent THEN flow
      ELSE FlowLoop(N, FoldSet(LAMBDA e, c : Pushed(c, e[1], e[2], new), cap, edges),
                    s, t, flow + new)
maxFlow(N, cap, s, t) == FlowLoop(N, cap, s, t, 0)

-----------------------------------------------------------------------------
(* What they are compared with.                                            *)
ReachableBy(E, u) ==
  FoldLeft(LAMBDA R, i : R \cup {e[2] : e \in {f \in E : f[1] \in R}}, {u},
           [i \in 1 .. Cardinality(E) |-> i])
Pairs(g) == {<<e.from, e.to>> : e \in EdgesOf(g)}
Components(N, E) == {ReachableBy(E, v) : v \in N}
StrongComponents(g) ==
  {{v \in ReachableBy(Pairs(g), u) : u \in ReachableBy(Pairs(g), v)} : u \in NodesOf(g)}

(* The lightest set of edges that connects what the graph connects.        *)
Links(g) == {<<{e.from, e.to}, e.weight>> : e \in EdgesOf(g)}
BothWays(L) == UNION {{<<u, v>> : u, v \in l[1]} : l \in L}
LightestSpan(g) ==
  Min({MapThenSumSet(LAMBDA l : l[2], T) :
         T \in {S \in SUBSET Links(g) : Components(NodesOf(g), BothWays(S))
                                        = Components(NodesOf(g), Pairs(g))}})

CutNodes(g) ==
  {u \in NodesOf(g) :
     LET E == {e \in Pairs(g) : u \notin {e[1], e[2]}}
     IN  Cardinality(Components(NodesOf(g) \ {u}, E))
           > Cardinality(Components(NodesOf(g), Pairs(g)))
             - (IF ReachableBy(Pairs(g), u) = {u} THEN 1 ELSE 0)}
CutLinks(g) ==
  {l \in {{e[1], e[2]} : e \in Pairs(g)} :
     Components(NodesOf(g), {e \in Pairs(g) : {e[1], e[2]} # l})
       # Components(NodesOf(g), Pairs(g))}

LargestMatching(edges) ==
  Max({Cardinality(M) : M \in {S \in SUBSET edges :
         \A d, e \in S : d # e => d[1] # e[1] /\ d[2] # e[2]}})

LeastCut(N, cap, s, t) ==
  Min({MapThenSumSet(LAMBDA e : cap[e], S \X (N \ S)) :
         S \in {T \in SUBSET N : s \in T /\ t \notin T}})
=============================================================================
