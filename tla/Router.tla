------------------------------- MODULE Router -------------------------------
(***************************************************************************)
(* The graph of server/graph.hpp and the function route of                 *)
(* server/router.hpp: A* whose heuristic is alpha times the straight-line  *)
(* distance to the goal.  One action is one turn of the while loop.        *)
(*                                                                         *)
(* Lengths are integers and alpha is in hundredths, so a priority is       *)
(* 100 * dist + alpha * haversine.  haversine itself is a table: of its    *)
(* trigonometry the search needs only that no road is shorter than the     *)
(* straight line between its ends, and that straight lines obey the        *)
(* triangle inequality.                                                    *)
(***************************************************************************)
EXTENDS Integers, LinkedLists

CONSTANTS n,           \* g.nodes.size()
          Roads,       \* the lines of the file, [a, b, d]
          haversine    \* [u, v] |-> the straight-line distance

Nodes == 0 .. n - 1

ASSUME RouterAssumption ==
  /\ n \in Nat \ {0}
  /\ Roads \subseteq [a : Nodes, b : Nodes, d : Nat]
  /\ haversine \in [Nodes \X Nodes -> Nat]

(* Edge weights are straight-line distances themselves (FINDINGS.md:13) or *)
(* longer; what follows from it for the heuristic is that it never drops   *)
(* along an edge by more than the edge's weight.                           *)
Consistent ==
  \A r \in Roads, g \in Nodes :
     /\ haversine[r.a, g] <= r.d + haversine[r.b, g]
     /\ haversine[r.b, g] <= r.d + haversine[r.a, g]

(* loadGraph: every road is an edge in both directions.                    *)
Edges == {[from |-> r.a, to |-> r.b, weight |-> r.d] : r \in Roads} \cup
         {[from |-> r.b, to |-> r.a, weight |-> r.d] : r \in Roads}

VARIABLES start, goal, alpha,   \* the arguments
          dist,      \* the nodes reached, and the best cost found for each
          parent,    \* -1 for none
          visited,
          pq         \* a set of pairs <<priority, node>>

searchVars == <<start, goal, alpha, dist, parent, visited, pq>>

-----------------------------------------------------------------------------
(* Mistakes the checks are tested with: nodes closed when they are first   *)
(* reached, a loop that stops when the goal is reached and not when it is  *)
(* popped, a cost that improves without its parent, a stale entry that is  *)
(* passed over and not popped.                                             *)
ImprovedOnce(u, offer) == {v \in DOMAIN offer : v \notin DOMAIN dist}

UntilReached == pq # {} /\ goal \notin DOMAIN dist

RelaxKeepingParent(u, rest) ==
  LET offer == [v \in {e.to : e \in {f \in Edges : f.from = u}} |->
                  dist[u] + (CHOOSE e \in Edges : e.from = u /\ e.to = v).weight]
      better == {v \in DOMAIN offer : v \in DOMAIN dist => offer[v] < dist[v]}
  IN  /\ dist' = [v \in DOMAIN dist \cup better |->
                    IF v \in better THEN offer[v] ELSE dist[v]]
      /\ parent' = [v \in Nodes |-> IF v \in better /\ parent[v] = -1
                                     THEN u ELSE parent[v]]
      /\ pq' = rest \cup {<<100 * dist'[v] + alpha * haversine[v, goal], v>> : v \in better}

PoppedUnlessStale(x) == IF x[2] \in visited THEN pq ELSE pq \ {x}

-----------------------------------------------------------------------------
Priority(v, d) == 100 * d + alpha * haversine[v, goal]

(* route(s, g, graph, a), up to the loop.                                  *)
Begin(s, g, a) ==
  /\ start' = s /\ goal' = g /\ alpha' = a
  /\ dist' = [v \in {s} |-> 0]
  /\ parent' = [v \in Nodes |-> -1]
  /\ visited' = {}
  /\ pq' = {<<a * haversine[s, g], s>>}

Least(S) == CHOOSE x \in S : \A y \in S : x <= y

(* What the edges of u offer its neighbours, and those who gain by it.     *)
Offers(u) ==
  [v \in {e.to : e \in {f \in Edges : f.from = u}} |->
     Least({dist[u] + e.weight : e \in {f \in Edges : f.from = u /\ f.to = v}})]
Improved(u, offer) == {v \in DOMAIN offer : v \in DOMAIN dist => offer[v] < dist[v]}

Relax(u, rest) ==
  LET offer == Offers(u)
      better == Improved(u, offer)
  IN  /\ dist' = [v \in DOMAIN dist \cup better |->
                    IF v \in better THEN offer[v] ELSE dist[v]]
      /\ parent' = [v \in Nodes |-> IF v \in better THEN u ELSE parent[v]]
      /\ pq' = rest \cup {<<Priority(v, offer[v]), v>> : v \in better}

IsTop(x) == x \in pq /\ \A y \in pq : x[1] < y[1] \/ (x[1] = y[1] /\ x[2] <= y[2])

Popped(x) == pq \ {x}

Searching == pq # {} /\ goal \notin visited

(* One turn: skip a stale entry, stop at the goal, or expand the node.     *)
SearchStep ==
  /\ Searching
  /\ \E x \in pq :
       /\ IsTop(x)
       /\ visited' = visited \cup {x[2]}
       /\ IF x[2] \in visited \cup {goal}
            THEN pq' = Popped(x) /\ UNCHANGED <<dist, parent>>
            ELSE Relax(x[2], Popped(x))
  /\ UNCHANGED <<start, goal, alpha>>

(* What the function returns once the loop has ended.                      *)
Cost == IF goal \in DOMAIN dist THEN dist[goal] ELSE -1

(* The nodes from v back along parent, and the length of the path.         *)
Back(v) == Chain(Nodes, -1, parent, v)

PathLen == IF goal \notin DOMAIN dist THEN 0 ELSE Len(Back(goal))

-----------------------------------------------------------------------------
(* The cost of the cheapest walk from s to each node that has one: by the  *)
(* number k of its edges, and no cheapest walk needs n of them.            *)
Extended(D) ==
  LET in(v) == {e \in Edges : e.to = v /\ e.from \in DOMAIN D}
      has == {v \in Nodes : v \in DOMAIN D \/ in(v) # {}}
  IN  [v \in has |-> Least({D[x] : x \in {v} \cap DOMAIN D} \cup
                           {D[e.from] + e.weight : e \in in(v)})]

CheapestBy(s) == LET C[k \in Nat] == IF k = 0 THEN [v \in {s} |-> 0] ELSE Extended(C[k - 1])
                 IN  C
CheapestFrom == [s \in Nodes |-> CheapestBy(s)[n - 1]]

(* A cost c found with alpha a: none if there is no route, never below the *)
(* cheapest, never above it by more than the factor by which the heuristic *)
(* may overestimate.                                                       *)
GoodCost(s, g, a, c) ==
  LET best == CheapestFrom[s]
  IN  IF g \notin DOMAIN best THEN c = -1
      ELSE best[g] <= c /\ 100 * c <= (IF a > 100 THEN a ELSE 100) * best[g]

(* The walk back along parent at router.hpp:57 ends, from wherever it      *)
(* starts.                                                                 *)
WalksBackEnd == \A v \in Nodes : Len(Back(v)) <= n

(* Every node reached has an edge from its parent, which was reached too,  *)
(* and parent and edge cost at most what is on record for the node.  They  *)
(* may cost less: router.hpp:45 does not look at visited, so a closed node *)
(* can get cheaper and its successors keep their cost.  So the path that   *)
(* is returned is never longer than the cost that is returned with it.     *)
ParentsDescend ==
  \A v \in DOMAIN dist :
     \/ v = start /\ dist[v] = 0 /\ parent[v] = -1
     \/ \E e \in Edges : /\ e.from = parent[v] /\ e.to = v
                         /\ e.from \in DOMAIN dist
                         /\ dist[e.from] + e.weight <= dist[v]
=============================================================================
