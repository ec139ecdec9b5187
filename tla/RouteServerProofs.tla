------------------------- MODULE RouteServerProofs -------------------------
(***************************************************************************)
(* What holds of the route server for every map, every table of straight-  *)
(* line distances (consistent or not), every hash function and every       *)
(* sequence of queries: the searches' parents descend, the filter covers   *)
(* the cache, answers repeat, the counts agree, and no mean of a cell      *)
(* falls below 1.  Where no road is shorter than the straight line, the    *)
(* routes are within alpha of the cheapest: the one theorem that assumes   *)
(* Consistent of the table.                                                *)
(***************************************************************************)
EXTENDS RouteServer, DataFacts

SearchTypes ==
  /\ start \in Nodes /\ goal \in Nodes
  /\ DOMAIN dist \subseteq Nodes
  /\ dist \in [DOMAIN dist -> Nat]
  /\ parent \in [Nodes -> Nodes \cup {-1}]
  /\ visited \subseteq Nodes
  /\ \A x \in pq : x[2] \in DOMAIN dist

Stats == [totalQueries : Nat, cacheHits : Nat, bloomFP : Nat,
          totalNodes : Nat, verifyCount : Nat, suboptCount : Nat]

ServerTypes ==
  /\ pc \in {"reading", "routing", "verifying", "stopped"}
  /\ stats \in Stats
  /\ hits_ \in Nat /\ misses_ \in Nat
  /\ IsFiniteSet(DOMAIN store_)

TypeOK == SearchTypes /\ ServerTypes

(* A search begins at the start, and no offer is below the 0 it begins     *)
(* with.                                                                   *)
StartIsRoot ==
  DOMAIN dist # {} => start \in DOMAIN dist /\ dist[start] = 0 /\ parent[start] = -1

SearchInv == SearchTypes /\ StartIsRoot /\ ParentsDescend

Working == pc \in {"routing", "verifying"}

(* What is searched for is not in the cache, or it would have been found.  *)
KeyIsNew == Working => Key(start, goal) \notin DOMAIN store_

CacheInv == BloomNeverForgets /\ KeyIsNew

(* A stored route, and one that is searched for, took a query that was not *)
(* answered from the cache; the nodes of a search are counted at its end;  *)
(* only a route that exists is verified, and it is stored afterwards.      *)
CountInv ==
  /\ Accounting
  /\ stats.cacheHits <= stats.totalQueries
  /\ Working \/ DOMAIN store_ # {} => stats.totalQueries > 0
  /\ pc = "routing" =>
       stats.totalNodes <= n * (stats.totalQueries - stats.cacheHits - 1)
  /\ pc = "verifying" => result.cost \in Nat \ {0}

IInv == SearchInv /\ CacheInv /\ ServerTypes /\ CountInv

-----------------------------------------------------------------------------
(* The least of a set of naturals exists.                                  *)
LEMMA LeastIsLeast ==
  ASSUME NEW S, S \subseteq Nat, S # {}
  PROVE  Least(S) \in S /\ \A y \in S : Least(S) <= y
BY HasLeast DEF Least

LEMMA NodesFacts == 0 \in Nodes /\ -1 \notin Nodes /\ IsFiniteSet(Nodes) /\ Cardinality(Nodes) = n
<1>1. n \in Nat /\ n > 0
  BY RouterAssumption
<1>2. IsFiniteSet(0 .. n - 1) /\ Cardinality(0 .. n - 1) = n
  BY <1>1, FS_Interval
<1> QED  BY <1>1, <1>2 DEF Nodes

LEMMA EdgeTypes == \A e \in Edges : e.from \in Nodes /\ e.to \in Nodes /\ e.weight \in Nat
<1>1. \A r \in Roads : r.a \in Nodes /\ r.b \in Nodes /\ r.d \in Nat
  BY RouterAssumption
<1> QED  BY <1>1 DEF Edges

(* An offer is made along an edge.                                         *)
LEMMA OfferIsAnEdge ==
  ASSUME NEW u \in DOMAIN dist, dist \in [DOMAIN dist -> Nat]
  PROVE  \A v \in DOMAIN Offers(u) :
            \E e \in Edges : e.from = u /\ e.to = v /\ Offers(u)[v] = dist[u] + e.weight
<1> SUFFICES ASSUME NEW v \in DOMAIN Offers(u)
             PROVE  \E e \in Edges : e.from = u /\ e.to = v /\ Offers(u)[v] = dist[u] + e.weight
  OBVIOUS
<1> DEFINE S == {dist[u] + e.weight : e \in {f \in Edges : f.from = u /\ f.to = v}}
<1>1. v \in {e.to : e \in {f \in Edges : f.from = u}} /\ Offers(u)[v] = Least(S)
  BY DEF Offers
<1>2. S # {}
  BY <1>1
<1>3. S \subseteq Nat
  BY EdgeTypes
<1>4. Least(S) \in S
  BY <1>2, <1>3, LeastIsLeast
<1> QED  BY <1>1, <1>4

-----------------------------------------------------------------------------
LEMMA BeginSearch ==
  ASSUME NEW s \in Nodes, NEW g \in Nodes, NEW a, Begin(s, g, a)
  PROVE  SearchInv'
<1>1. SearchTypes'
  <2>1. /\ start' = s /\ goal' = g /\ visited' = {}
        /\ dist' = [v \in {s} |-> 0] /\ parent' = [v \in Nodes |-> -1]
        /\ pq' = {<<a * haversine[s, g], s>>}
    BY DEF Begin
  <2>2. DOMAIN dist' = {s} /\ dist' \in [DOMAIN dist' -> Nat]
    BY <2>1
  <2>3. \A x \in pq' : x[2] = s
    <3> DEFINE p == a * haversine[s, g]
    <3>1. pq' = {<<p, s>>}
      BY <2>1
    <3> HIDE DEF p
    <3> QED  BY <3>1
  <2> QED  BY <2>1, <2>2, <2>3 DEF SearchTypes
<1>2. StartIsRoot' /\ ParentsDescend'
  BY DEF Begin, StartIsRoot, ParentsDescend
<1> QED  BY <1>1, <1>2 DEF SearchInv

(* Relaxing the edges of u: who gains has u as its parent and costs what u *)
(* and the edge do; everybody else's parent can only have become cheaper.  *)
(* Neither u nor the start gains.                                          *)
LEMMA RelaxNode ==
  ASSUME SearchInv, NEW u \in DOMAIN dist, NEW rest,
         \A x \in rest : x[2] \in DOMAIN dist,
         Relax(u, rest), visited' \subseteq Nodes, UNCHANGED <<start, goal, alpha>>
  PROVE  SearchInv'
<1> DEFINE offer == Offers(u)
           better == Improved(u, offer)
<1>1. SearchTypes /\ StartIsRoot /\ ParentsDescend
  BY DEF SearchInv
<1>2. /\ dist' = [v \in DOMAIN dist \cup better |->
                    IF v \in better THEN offer[v] ELSE dist[v]]
      /\ parent' = [v \in Nodes |-> IF v \in better THEN u ELSE parent[v]]
      /\ pq' = rest \cup {<<Priority(v, offer[v]), v>> : v \in better}
  BY DEF Relax
<1>3. \A v \in DOMAIN offer :
         \E e \in Edges : e.from = u /\ e.to = v /\ offer[v] = dist[u] + e.weight
  BY <1>1, OfferIsAnEdge DEF SearchTypes
<1>4. \A v \in better : /\ v \in DOMAIN offer /\ v \in Nodes /\ offer[v] \in Nat
                        /\ v \in DOMAIN dist => offer[v] < dist[v]
  BY <1>1, <1>3, EdgeTypes DEF SearchTypes, Improved
<1>5. u \notin better
  BY <1>1, <1>3, <1>4, EdgeTypes DEF SearchTypes
<1>6. start \in DOMAIN dist /\ start \notin better
  BY <1>1, <1>4 DEF StartIsRoot
<1>7. /\ DOMAIN dist' = DOMAIN dist \cup better
      /\ \A v \in better : dist'[v] = offer[v] /\ parent'[v] = u
      /\ \A v \in DOMAIN dist \ better : dist'[v] = dist[v] /\ parent'[v] = parent[v]
      /\ \A v \in DOMAIN dist : dist'[v] <= dist[v] /\ dist'[v] \in Nat /\ dist[v] \in Nat
  <2>1. /\ DOMAIN dist' = DOMAIN dist \cup better
        /\ \A v \in better : dist'[v] = offer[v] /\ parent'[v] = u
        /\ \A v \in DOMAIN dist \ better : dist'[v] = dist[v] /\ parent'[v] = parent[v]
    BY <1>1, <1>2, <1>4 DEF SearchTypes
  <2>2. \A v \in DOMAIN dist : dist[v] \in Nat
    BY <1>1 DEF SearchTypes
  <2> QED  BY <2>1, <2>2, <1>4
<1>8. SearchTypes'
  <2>1. DOMAIN dist' \subseteq Nodes /\ dist' \in [DOMAIN dist' -> Nat]
    BY <1>1, <1>2, <1>4 DEF SearchTypes
  <2>2. parent' \in [Nodes -> Nodes \cup {-1}]
    BY <1>1, <1>2 DEF SearchTypes
  <2>3. \A x \in pq' : x[2] \in DOMAIN dist'
    BY <1>2, <1>7
  <2> QED  BY <1>1, <2>1, <2>2, <2>3 DEF SearchTypes
<1>9. StartIsRoot'
  BY <1>1, <1>6, <1>7 DEF StartIsRoot
<1>10. ParentsDescend'
  <2> SUFFICES ASSUME NEW v \in DOMAIN dist', v # start
               PROVE  \E e \in Edges : /\ e.from = parent'[v] /\ e.to = v
                                       /\ e.from \in DOMAIN dist'
                                       /\ dist'[e.from] + e.weight <= dist'[v]
    BY <1>9 DEF ParentsDescend, StartIsRoot
  <2>1. CASE v \in better
    <3>1. PICK e \in Edges : e.from = u /\ e.to = v /\ offer[v] = dist[u] + e.weight
      BY <2>1, <1>3, <1>4
    <3>2. dist'[u] = dist[u] /\ dist'[v] = dist[u] + e.weight /\ parent'[v] = u
      BY <2>1, <3>1, <1>5, <1>7
    <3>3. dist[u] + e.weight \in Nat
      BY <2>1, <3>1, <1>4
    <3> QED  BY <3>1, <3>2, <3>3, <1>7
  <2>2. CASE v \notin better
    <3>1. v \in DOMAIN dist /\ dist'[v] = dist[v] /\ parent'[v] = parent[v]
      BY <2>2, <1>7
    <3>2. PICK e \in Edges : /\ e.from = parent[v] /\ e.to = v
                            /\ e.from \in DOMAIN dist
                            /\ dist[e.from] + e.weight <= dist[v]
      BY <1>1, <3>1 DEF ParentsDescend
    <3>3. /\ dist'[e.from] <= dist[e.from] /\ dist'[e.from] \in Nat
          /\ dist[e.from] \in Nat /\ e.weight \in Nat /\ dist[v] \in Nat
      BY <3>1, <3>2, <1>7, EdgeTypes
    <3>4. dist'[e.from] + e.weight <= dist'[v]
      BY <3>1, <3>2, <3>3
    <3> QED  BY <3>1, <3>2, <3>4, <1>7
  <2> QED  BY <2>1, <2>2
<1> QED  BY <1>8, <1>9, <1>10 DEF SearchInv

LEMMA SearchTurn ==
  ASSUME SearchInv, SearchStep
  PROVE  SearchInv'
<1>1. PICK x \in pq : /\ visited' = visited \cup {x[2]}
                     /\ IF x[2] \in visited \cup {goal}
                          THEN pq' = Popped(x) /\ UNCHANGED <<dist, parent>>
                          ELSE Relax(x[2], Popped(x))
  BY DEF SearchStep
<1>2. UNCHANGED <<start, goal, alpha>>
  BY DEF SearchStep
<1>3. x[2] \in DOMAIN dist /\ x[2] \in Nodes
  BY DEF SearchInv, SearchTypes
<1>4. visited' \subseteq Nodes
  BY <1>1, <1>3 DEF SearchInv, SearchTypes
<1>5. \A y \in Popped(x) : y[2] \in DOMAIN dist
  BY DEF Popped, SearchInv, SearchTypes
<1>6. CASE x[2] \in visited \cup {goal}
  <2>1. pq' = Popped(x) /\ UNCHANGED <<dist, parent>>
    BY <1>1, <1>6
  <2> QED  BY <2>1, <1>2, <1>4, <1>5
           DEF SearchInv, SearchTypes, StartIsRoot, ParentsDescend
<1>7. CASE x[2] \notin visited \cup {goal}
  <2>1. Relax(x[2], Popped(x))
    BY <1>1, <1>7
  <2> QED  BY <2>1, <1>2, <1>3, <1>4, <1>5, RelaxNode
<1> QED  BY <1>6, <1>7

(* The searches change nothing else that the invariant of the searches is  *)
(* about, and nothing else changes them.                                   *)
LEMMA SearchKept ==
  ASSUME SearchInv, UNCHANGED searchVars
  PROVE  SearchInv'
BY DEF SearchInv, SearchTypes, StartIsRoot, ParentsDescend, searchVars

LEMMA StepSearch ==
  ASSUME SearchInv, [ServerNext]_serverVars
  PROVE  SearchInv'
<1>1. ASSUME NEW s \in Nodes, NEW g \in Nodes, Hit(s, g)
      PROVE  SearchInv'
  BY <1>1, SearchKept DEF Hit
<1>2. ASSUME NEW s \in Nodes, NEW g \in Nodes, Miss(s, g)
      PROVE  SearchInv'
  BY <1>2, BeginSearch DEF Miss
<1>3. CASE Turn
  BY <1>3, SearchTurn DEF Turn
<1>4. CASE RespondUnverified
  BY <1>4, SearchKept DEF RespondUnverified
<1>5. CASE Verify
  <2>1. start \in Nodes /\ goal \in Nodes /\ Begin(start, goal, 0)
    BY <1>5 DEF Verify, SearchInv, SearchTypes
  <2> QED  BY <2>1, BeginSearch
<1>6. CASE RespondVerified
  BY <1>6, SearchKept DEF RespondVerified
<1>7. CASE Quit
  BY <1>7, SearchKept DEF Quit
<1>8. CASE UNCHANGED serverVars
  BY <1>8, SearchKept DEF serverVars, searchVars
<1> QED  BY <1>1, <1>2, <1>3, <1>4, <1>5, <1>6, <1>7, <1>8 DEF ServerNext

LEMMA InitSearch == ServerInit => SearchInv
BY NodesFacts DEF ServerInit, SearchInv, SearchTypes, StartIsRoot, ParentsDescend

(* Every node that a search has reached can be walked back from: there is  *)
(* an edge from its parent, and parent and edge cost no more than what is  *)
(* on record (router.hpp:45, 57), for any alpha and any straight lines.    *)
THEOREM ThmParentsDescend == ServerSpec => []ParentsDescend
<1>1. ServerInit => SearchInv
  BY InitSearch
<1>2. SearchInv /\ [ServerNext]_serverVars => SearchInv'
  BY StepSearch
<1>3. SearchInv => ParentsDescend
  BY DEF SearchInv
<1> QED  BY <1>1, <1>2, <1>3, PTL DEF ServerSpec

-----------------------------------------------------------------------------
(* What has been accepted and was not found in the cache is not there:     *)
(* the filter would have let it by.                                        *)
LEMMA MissedIsNew ==
  ASSUME BloomNeverForgets, NEW s, NEW g, ~(mightContain(s, g) /\ Found(s, g))
  PROVE  Key(s, g) \notin DOMAIN store_
BY DEF BloomNeverForgets, mightContain, Found

(* A response leaves every entry of the cache as it is; if there is a      *)
(* route, one is added, and the filter knows of it.                        *)
LEMMA RespondStores ==
  ASSUME BloomNeverForgets, Key(start, goal) \notin DOMAIN store_, NEW r, Respond(r)
  PROVE  /\ BloomNeverForgets'
         /\ \A k \in DOMAIN store_ : k \in DOMAIN store_' /\ store_'[k] = store_[k]
         /\ r.cost > 0 => DOMAIN store_' = DOMAIN store_ \cup {Key(start, goal)}
         /\ ~(r.cost > 0) => store_' = store_
<1>1. CASE r.cost > 0
  <2> DEFINE new == Key(start, goal)
  <2>1. /\ bits_' = bits_ \cup BitsOf(new)
        /\ store_' = [k \in DOMAIN store_ \cup {new} |->
                        IF k = new THEN r ELSE store_[k]]
    BY <1>1 DEF Respond, BloomAdd, Put
  <2>2. DOMAIN store_' = DOMAIN store_ \cup {new}
    BY <2>1
  <2>3. \A k \in DOMAIN store_' : BitsOf(k) \subseteq bits_'
    BY <2>1, <2>2 DEF BloomNeverForgets
  <2>4. BloomNeverForgets'
    BY <2>3 DEF BloomNeverForgets, BitsOf
  <2> QED  BY <1>1, <2>1, <2>2, <2>4
<1>2. CASE ~(r.cost > 0)
  <2>1. UNCHANGED <<bits_, store_>>
    BY <1>2 DEF Respond
  <2> QED  BY <1>2, <2>1 DEF BloomNeverForgets, BitsOf
<1> QED  BY <1>1, <1>2

StoreGrows == \A k \in DOMAIN store_ : k \in DOMAIN store_' /\ store_'[k] = store_[k]

LEMMA StepCache ==
  ASSUME CacheInv, [ServerNext]_serverVars
  PROVE  CacheInv' /\ StoreGrows
<1>1. BloomNeverForgets /\ KeyIsNew
  BY DEF CacheInv
<1>2. ASSUME UNCHANGED <<bits_, store_>>
      PROVE  BloomNeverForgets' /\ StoreGrows
  BY <1>1, <1>2 DEF BloomNeverForgets, BitsOf, StoreGrows
<1>3. ASSUME UNCHANGED <<store_, start, goal, pc>>
      PROVE  KeyIsNew'
  BY <1>1, <1>3 DEF KeyIsNew, Working, Key
<1>4. ASSUME NEW s \in Nodes, NEW g \in Nodes, Hit(s, g)
      PROVE  CacheInv' /\ StoreGrows
  BY <1>2, <1>3, <1>4 DEF Hit, searchVars, CacheInv
<1>5. ASSUME NEW s \in Nodes, NEW g \in Nodes, Miss(s, g)
      PROVE  CacheInv' /\ StoreGrows
  <2>1. /\ ~(mightContain(s, g) /\ Found(s, g))
        /\ start' = s /\ goal' = g /\ UNCHANGED <<bits_, store_>>
    BY <1>5 DEF Miss, Begin
  <2>2. Key(s, g) \notin DOMAIN store_
    BY <1>1, <2>1, MissedIsNew
  <2>3. KeyIsNew'
    BY <2>1, <2>2 DEF KeyIsNew, Key
  <2> QED  BY <1>2, <2>1, <2>3 DEF CacheInv
<1>6. CASE Turn
  BY <1>2, <1>3, <1>6 DEF Turn, SearchStep, cacheVars, CacheInv
<1>7. CASE RespondUnverified
  <2>1. pc = "routing" /\ Respond(Route(alpha))
    BY <1>7 DEF RespondUnverified
  <2>2. Key(start, goal) \notin DOMAIN store_ /\ ~Working'
    BY <1>1, <2>1 DEF KeyIsNew, Working, Respond
  <2>3. BloomNeverForgets' /\ StoreGrows
    BY <1>1, <2>1, <2>2, RespondStores DEF StoreGrows
  <2> QED  BY <2>2, <2>3 DEF CacheInv, KeyIsNew
<1>8. CASE Verify
  <2>1. /\ pc = "routing" /\ start' = start /\ goal' = goal
        /\ UNCHANGED <<bits_, store_>>
    BY <1>8 DEF Verify, Begin, cacheVars
  <2>2. KeyIsNew'
    BY <1>1, <2>1 DEF KeyIsNew, Working, Key
  <2> QED  BY <1>2, <2>1, <2>2 DEF CacheInv
<1>9. CASE RespondVerified
  <2>1. pc = "verifying" /\ Respond(result)
    BY <1>9 DEF RespondVerified
  <2>2. Key(start, goal) \notin DOMAIN store_ /\ ~Working'
    BY <1>1, <2>1 DEF KeyIsNew, Working, Respond
  <2>3. BloomNeverForgets' /\ StoreGrows
    BY <1>1, <2>1, <2>2, RespondStores DEF StoreGrows
  <2> QED  BY <2>2, <2>3 DEF CacheInv, KeyIsNew
<1>10. CASE Quit
  BY <1>2, <1>10 DEF Quit, cacheVars, CacheInv, KeyIsNew, Working
<1>11. CASE UNCHANGED serverVars
  BY <1>2, <1>3, <1>11 DEF serverVars, searchVars, cacheVars, CacheInv
<1> QED  BY <1>4, <1>5, <1>6, <1>7, <1>8, <1>9, <1>10, <1>11 DEF ServerNext

LEMMA InitCache == ServerInit => CacheInv
BY DEF ServerInit, CacheInit, CacheInv, BloomNeverForgets, KeyIsNew, Working

(* The filter contains whatever the cache does (cache.hpp:13), whatever    *)
(* the hash functions.                                                     *)
THEOREM ThmBloomNeverForgets == ServerSpec => []BloomNeverForgets
<1>1. CacheInv => BloomNeverForgets
  BY DEF CacheInv
<1> QED  BY <1>1, InitCache, StepCache, PTL DEF ServerSpec

(* No entry of the cache is ever replaced or lost, so that a query that    *)
(* was answered with a route is answered with it again (main.cpp:138).     *)
THEOREM ThmAnswersRepeat == ServerSpec => AnswersRepeat
<1>1. CacheInv /\ [ServerNext]_serverVars => [StoreGrows]_serverVars
  BY StepCache
<1> QED  BY <1>1, InitCache, StepCache, PTL DEF ServerSpec, AnswersRepeat, StoreGrows

-----------------------------------------------------------------------------
(* One more query that is searched for allows n more nodes.                *)
LEMMA OneMoreSearch ==
  ASSUME NEW k \in Int
  PROVE  n * k \in Int /\ n * (k + 1) = n * k + n /\ n * (k - 1) + n = n * k
BY RouterAssumption

LEMMA VisitedBound ==
  ASSUME SearchTypes
  PROVE  Cardinality(visited) \in Nat /\ Cardinality(visited) <= n
<1>1. visited \subseteq Nodes
  BY DEF SearchTypes
<1> QED  BY <1>1, NodesFacts, FS_Subset, FS_CardinalityType

LEMMA CostType == ASSUME SearchTypes PROVE Cost \in Int
BY DEF SearchTypes, Cost

(* What a response does to the number of routes.                           *)
LEMMA RespondCount ==
  ASSUME CacheInv, Working, IsFiniteSet(DOMAIN store_), NEW r, r.cost \in Int, Respond(r)
  PROVE  /\ IsFiniteSet(DOMAIN store_')
         /\ Cardinality(DOMAIN store_) \in Nat
         /\ Cardinality(DOMAIN store_') =
              Cardinality(DOMAIN store_) + (IF r.cost > 0 THEN 1 ELSE 0)
<1>1. Key(start, goal) \notin DOMAIN store_ /\ BloomNeverForgets
  BY DEF CacheInv, KeyIsNew
<1>2. /\ r.cost > 0 => DOMAIN store_' = DOMAIN store_ \cup {Key(start, goal)}
      /\ ~(r.cost > 0) => store_' = store_
  BY <1>1, RespondStores
<1>3. Cardinality(DOMAIN store_) \in Nat
  BY FS_CardinalityType
<1>4. CASE r.cost > 0
  BY <1>1, <1>2, <1>3, <1>4, FS_AddElement
<1>5. CASE ~(r.cost > 0)
  BY <1>2, <1>3, <1>5
<1> QED  BY <1>4, <1>5

LEMMA StepHit ==
  ASSUME IInv, NEW s \in Nodes, NEW g \in Nodes, Hit(s, g)
  PROVE  ServerTypes' /\ CountInv'
<1>1. /\ pc = "reading" /\ Found(s, g)
      /\ hits_' = hits_ + 1 /\ misses_' = misses_
      /\ stats' = [stats EXCEPT !.totalQueries = @ + 1, !.cacheHits = @ + 1]
      /\ UNCHANGED <<store_, pc, result>>
  BY DEF Hit, Accept, GetCounts
<1>2. DOMAIN store_ # {}
  BY <1>1 DEF Found
<1>3. stats.cacheHits < stats.totalQueries
  BY <1>2 DEF IInv, CountInv, Accounting
<1>4. ServerTypes'
  <2>1. stats' \in Stats
    <3> DEFINE q == stats.totalQueries + 1
               h == stats.cacheHits + 1
    <3>1. stats \in Stats /\ q \in Nat /\ h \in Nat
      BY DEF IInv, ServerTypes, Stats
    <3>2. stats' = [stats EXCEPT !.totalQueries = q, !.cacheHits = h]
      BY <1>1
    <3> HIDE DEF q, h
    <3> QED  BY <3>1, <3>2 DEF Stats
  <2> QED  BY <1>1, <2>1 DEF IInv, ServerTypes
<1>5. /\ stats'.totalQueries = stats.totalQueries + 1
      /\ stats'.cacheHits = stats.cacheHits + 1
      /\ stats'.bloomFP = stats.bloomFP /\ stats'.totalNodes = stats.totalNodes
      /\ stats'.verifyCount = stats.verifyCount /\ stats'.suboptCount = stats.suboptCount
      /\ stats'.totalQueries - stats'.cacheHits = stats.totalQueries - stats.cacheHits
  BY <1>1 DEF IInv, ServerTypes, Stats
<1>6. Accounting'
  BY <1>1, <1>3, <1>4, <1>5 DEF IInv, ServerTypes, Stats, CountInv, Accounting
<1>7. UNCHANGED pc /\ pc = "reading"
  BY <1>1
<1>8. stats'.cacheHits <= stats'.totalQueries /\ stats'.totalQueries > 0
  BY <1>3, <1>5 DEF IInv, ServerTypes, Stats
<1> QED  BY <1>4, <1>6, <1>7, <1>8 DEF CountInv

LEMMA StepMiss ==
  ASSUME IInv, NEW s \in Nodes, NEW g \in Nodes, Miss(s, g)
  PROVE  ServerTypes' /\ CountInv'
<1>1. /\ pc = "reading" /\ pc' = "routing"
      /\ ~(mightContain(s, g) /\ Found(s, g))
      /\ IF mightContain(s, g) THEN GetCounts(s, g) ELSE UNCHANGED <<hits_, misses_>>
      /\ stats' = [stats EXCEPT !.totalQueries = @ + 1,
                                !.bloomFP = @ + FalsePositives(s, g)]
      /\ UNCHANGED <<store_, result>>
  BY DEF Miss, Accept
<1>2. FalsePositives(s, g) \in {0, 1} /\ hits_' = hits_ /\ misses_' = misses_ + FalsePositives(s, g)
  BY <1>1 DEF GetCounts, FalsePositives, IInv, ServerTypes
<1>3. ServerTypes'
  <2>1. stats' \in Stats
    <3> DEFINE q == stats.totalQueries + 1
               f == stats.bloomFP + FalsePositives(s, g)
    <3>1. stats \in Stats /\ q \in Nat /\ f \in Nat
      BY <1>2 DEF IInv, ServerTypes, Stats
    <3>2. stats' = [stats EXCEPT !.totalQueries = q, !.bloomFP = f]
      BY <1>1
    <3> HIDE DEF q, f
    <3> QED  BY <3>1, <3>2 DEF Stats
  <2> QED  BY <1>1, <1>2, <2>1 DEF IInv, ServerTypes
<1>4. /\ stats'.totalQueries = stats.totalQueries + 1
      /\ stats'.cacheHits = stats.cacheHits
      /\ stats'.bloomFP = stats.bloomFP + FalsePositives(s, g)
      /\ stats'.totalNodes = stats.totalNodes
      /\ stats'.verifyCount = stats.verifyCount /\ stats'.suboptCount = stats.suboptCount
  BY <1>1, <1>2 DEF IInv, ServerTypes, Stats
<1>5. /\ stats.totalNodes <= n * (stats'.totalQueries - stats'.cacheHits - 1)
      /\ stats.totalNodes <= n * (stats'.totalQueries - stats'.cacheHits)
  <2> DEFINE k == stats.totalQueries - stats.cacheHits
  <2>1. k \in Int /\ stats.totalNodes \in Nat /\ stats.totalNodes <= n * k
    BY DEF IInv, ServerTypes, Stats, CountInv, Accounting
  <2>2. stats'.totalQueries - stats'.cacheHits = k + 1 /\ (k + 1) - 1 = k
    BY <1>4 DEF IInv, ServerTypes, Stats
  <2>3. n * (k + 1) = n * k + n /\ n * k \in Int /\ n \in Nat
    BY <2>1, OneMoreSearch, RouterAssumption
  <2>4. stats.totalNodes <= n * (k + 1)
    <3> HIDE DEF k
    <3> QED  BY <2>1, <2>3
  <2> QED  BY <2>1, <2>2, <2>4
<1>6. Accounting'
  BY <1>1, <1>2, <1>3, <1>4, <1>5 DEF IInv, ServerTypes, Stats, CountInv, Accounting
<1> QED  BY <1>1, <1>3, <1>4, <1>5, <1>6 DEF IInv, ServerTypes, Stats, CountInv, Working

(* The nodes of the first search are counted when it has ended.            *)
LEMMA NodesCounted ==
  ASSUME IInv, pc = "routing", stats' = CountNodes
  PROVE  /\ stats' \in Stats
         /\ stats'.totalQueries = stats.totalQueries
         /\ stats'.cacheHits = stats.cacheHits /\ stats'.bloomFP = stats.bloomFP
         /\ stats'.verifyCount = stats.verifyCount /\ stats'.suboptCount = stats.suboptCount
         /\ stats'.totalNodes <= n * (stats'.totalQueries - stats'.cacheHits)
<1> DEFINE visits == Cardinality(visited)
           k == stats.totalQueries - stats.cacheHits
<1>1. visits \in Nat /\ visits <= n
  BY VisitedBound DEF IInv, SearchInv
<1>2. stats \in Stats
  BY DEF IInv, ServerTypes
<1>3. k \in Int /\ stats.totalNodes \in Nat
  BY <1>2 DEF Stats
<1>4. stats.totalNodes <= n * (k - 1)
  BY DEF IInv, CountInv
<1>5. n * (k - 1) \in Int /\ n * (k - 1) + n = n * k
  BY <1>3, OneMoreSearch
<1>6. n \in Nat
  BY RouterAssumption
<1>7. stats.totalNodes + visits <= n * k
  <2> HIDE DEF k, visits
  <2> QED  BY <1>1, <1>3, <1>4, <1>5, <1>6
<1>8. stats' = [stats EXCEPT !.totalNodes = stats.totalNodes + visits]
  BY DEF CountNodes
<1>9. /\ stats'.totalQueries = stats.totalQueries
      /\ stats'.cacheHits = stats.cacheHits /\ stats'.bloomFP = stats.bloomFP
      /\ stats'.verifyCount = stats.verifyCount /\ stats'.suboptCount = stats.suboptCount
      /\ stats'.totalNodes = stats.totalNodes + visits
  BY <1>2, <1>8 DEF Stats
<1>10. stats' \in Stats
  BY <1>1, <1>2, <1>3, <1>8 DEF Stats
<1> QED  BY <1>7, <1>9, <1>10

LEMMA StepRespondUnverified ==
  ASSUME IInv, RespondUnverified
  PROVE  ServerTypes' /\ CountInv'
<1>1. /\ pc = "routing" /\ stats' = CountNodes /\ Respond(Route(alpha))
      /\ pc' = "reading" /\ UNCHANGED <<hits_, misses_>>
  BY DEF RespondUnverified, Respond
<1>2. Route(alpha).cost \in Int
  BY CostType DEF Route, IInv, SearchInv
<1>3. /\ IsFiniteSet(DOMAIN store_')
      /\ Cardinality(DOMAIN store_) \in Nat /\ Cardinality(DOMAIN store_') \in Nat
      /\ Cardinality(DOMAIN store_') >= Cardinality(DOMAIN store_)
  <2>1. IsFiniteSet(DOMAIN store_) /\ CacheInv /\ Working
    BY <1>1 DEF IInv, ServerTypes, Working
  <2> QED  BY <1>1, <1>2, <2>1, RespondCount
<1>4. /\ stats' \in Stats
      /\ stats'.totalQueries = stats.totalQueries
      /\ stats'.cacheHits = stats.cacheHits /\ stats'.bloomFP = stats.bloomFP
      /\ stats'.verifyCount = stats.verifyCount /\ stats'.suboptCount = stats.suboptCount
      /\ stats'.totalNodes <= n * (stats'.totalQueries - stats'.cacheHits)
  BY <1>1, NodesCounted
<1>5. ServerTypes'
  BY <1>1, <1>3, <1>4 DEF IInv, ServerTypes
<1>6. Accounting'
  BY <1>1, <1>3, <1>4 DEF IInv, ServerTypes, Stats, CountInv, Accounting
<1>7. stats'.totalQueries > 0 /\ stats'.cacheHits <= stats'.totalQueries
  BY <1>1, <1>4 DEF IInv, CountInv, Working
<1> QED  BY <1>1, <1>5, <1>6, <1>7 DEF CountInv

LEMMA StepVerify ==
  ASSUME IInv, Verify
  PROVE  ServerTypes' /\ CountInv'
<1>1. /\ pc = "routing" /\ pc' = "verifying" /\ stats' = CountNodes
      /\ Cost > 0 /\ result' = Route(alpha) /\ UNCHANGED cacheVars
  BY DEF Verify
<1>2. result'.cost \in Nat \ {0}
  <2>1. Cost \in Int
    BY CostType DEF IInv, SearchInv
  <2> QED  BY <1>1, <2>1 DEF Route
<1>3. /\ stats' \in Stats
      /\ stats'.totalQueries = stats.totalQueries
      /\ stats'.cacheHits = stats.cacheHits /\ stats'.bloomFP = stats.bloomFP
      /\ stats'.verifyCount = stats.verifyCount /\ stats'.suboptCount = stats.suboptCount
      /\ stats'.totalNodes <= n * (stats'.totalQueries - stats'.cacheHits)
  BY <1>1, NodesCounted
<1>4. UNCHANGED <<hits_, misses_, store_>>
  BY <1>1 DEF cacheVars
<1>5. ServerTypes'
  BY <1>1, <1>3, <1>4 DEF IInv, ServerTypes
<1>6. Accounting'
  BY <1>3, <1>4 DEF IInv, CountInv, Accounting
<1>7. stats'.totalQueries > 0 /\ stats'.cacheHits <= stats'.totalQueries
  BY <1>1, <1>3 DEF IInv, CountInv, Working
<1> QED  BY <1>1, <1>2, <1>5, <1>6, <1>7 DEF CountInv

(* A route that has been verified exists, and is stored: the number of     *)
(* verifications and the number of routes grow together.                   *)
LEMMA StepRespondVerified ==
  ASSUME IInv, RespondVerified
  PROVE  ServerTypes' /\ CountInv'
<1> DEFINE worse == IF CostRatio > One + 1 THEN 1 ELSE 0
<1>1. /\ pc = "verifying" /\ pc' = "reading" /\ Respond(result)
      /\ stats' = [stats EXCEPT !.verifyCount = @ + 1, !.suboptCount = @ + worse]
      /\ UNCHANGED <<hits_, misses_>>
  BY DEF RespondVerified, Respond
<1>2. worse \in {0, 1} /\ stats \in Stats
  BY DEF IInv, ServerTypes
<1>3. result.cost \in Int /\ result.cost > 0
  BY <1>1 DEF IInv, CountInv
<1>4. /\ IsFiniteSet(DOMAIN store_') /\ Cardinality(DOMAIN store_) \in Nat
      /\ Cardinality(DOMAIN store_') = Cardinality(DOMAIN store_) + 1
  <2>1. IsFiniteSet(DOMAIN store_) /\ CacheInv /\ Working
    BY <1>1 DEF IInv, ServerTypes, Working
  <2> QED  BY <1>1, <1>3, <2>1, RespondCount
<1>5. /\ stats' \in Stats
      /\ stats'.totalQueries = stats.totalQueries
      /\ stats'.cacheHits = stats.cacheHits /\ stats'.bloomFP = stats.bloomFP
      /\ stats'.totalNodes = stats.totalNodes
      /\ stats'.verifyCount = stats.verifyCount + 1
      /\ stats'.suboptCount = stats.suboptCount + worse
  <2> DEFINE c == stats.verifyCount + 1
             o == stats.suboptCount + worse
  <2>1. c \in Nat /\ o \in Nat /\ stats' = [stats EXCEPT !.verifyCount = c, !.suboptCount = o]
    BY <1>1, <1>2 DEF Stats
  <2> HIDE DEF c, o
  <2>2. /\ stats' \in Stats
        /\ stats'.totalQueries = stats.totalQueries
        /\ stats'.cacheHits = stats.cacheHits /\ stats'.bloomFP = stats.bloomFP
        /\ stats'.totalNodes = stats.totalNodes
        /\ stats'.verifyCount = c /\ stats'.suboptCount = o
    BY <1>2, <2>1 DEF Stats
  <2> QED  BY <2>2 DEF c, o
<1> HIDE DEF worse
<1>6. ServerTypes'
  BY <1>1, <1>4, <1>5 DEF IInv, ServerTypes
<1>7. Accounting'
  BY <1>1, <1>2, <1>4, <1>5 DEF IInv, ServerTypes, Stats, CountInv, Accounting
<1>8. stats'.totalQueries > 0 /\ stats'.cacheHits <= stats'.totalQueries
  BY <1>1, <1>5 DEF IInv, CountInv, Working
<1> QED  BY <1>1, <1>6, <1>7, <1>8 DEF CountInv

-----------------------------------------------------------------------------
LEMMA InitInv == ServerInit => IInv
<1> SUFFICES ASSUME ServerInit PROVE IInv
  OBVIOUS
<1>1. SearchInv /\ CacheInv
  BY InitSearch, InitCache
<1>2. /\ pc = "reading" /\ hits_ = 0 /\ misses_ = 0 /\ DOMAIN store_ = {}
      /\ stats = [totalQueries |-> 0, cacheHits |-> 0, bloomFP |-> 0,
                  totalNodes |-> 0, verifyCount |-> 0, suboptCount |-> 0]
  BY DEF ServerInit, CacheInit
<1>3. IsFiniteSet(DOMAIN store_) /\ Cardinality(DOMAIN store_) = 0
  BY <1>2, FS_EmptySet
<1>4. n * 0 = 0
  BY RouterAssumption
<1> QED  BY <1>1, <1>2, <1>3, <1>4
         DEF IInv, ServerTypes, Stats, CountInv, Accounting, Working

(* Turns of a search, the end and a stutter count nothing.                 *)
LEMMA CountsKept ==
  ASSUME IInv, UNCHANGED <<hits_, misses_, store_, stats, result>>,
         pc' = pc \/ pc' = "stopped"
  PROVE  ServerTypes' /\ CountInv'
<1>1. ServerTypes'
  BY DEF IInv, ServerTypes
<1>2. Accounting'
  BY DEF IInv, CountInv, Accounting
<1> QED  BY <1>1, <1>2 DEF IInv, CountInv, Working

LEMMA StepInv ==
  ASSUME IInv, [ServerNext]_serverVars
  PROVE  IInv'
<1>1. SearchInv' /\ CacheInv'
  BY StepSearch, StepCache DEF IInv
<1>2. ServerTypes' /\ CountInv'
  <2>1. ASSUME NEW s \in Nodes, NEW g \in Nodes, Hit(s, g)
        PROVE  ServerTypes' /\ CountInv'
    BY <2>1, StepHit
  <2>2. ASSUME NEW s \in Nodes, NEW g \in Nodes, Miss(s, g)
        PROVE  ServerTypes' /\ CountInv'
    BY <2>2, StepMiss
  <2>3. CASE Turn
    BY <2>3, CountsKept DEF Turn, cacheVars
  <2>4. CASE RespondUnverified
    BY <2>4, StepRespondUnverified
  <2>5. CASE Verify
    BY <2>5, StepVerify
  <2>6. CASE RespondVerified
    BY <2>6, StepRespondVerified
  <2>7. CASE Quit
    BY <2>7, CountsKept DEF Quit, cacheVars
  <2>8. CASE UNCHANGED serverVars
    BY <2>8, CountsKept DEF serverVars, cacheVars
  <2> QED  BY <2>1, <2>2, <2>3, <2>4, <2>5, <2>6, <2>7, <2>8 DEF ServerNext
<1> QED  BY <1>1, <1>2 DEF IInv

(* Every variable has its type: no node that is reached lies outside the   *)
(* graph, no counter is negative.                                          *)
THEOREM ThmTypeOK == ServerSpec => []TypeOK
<1>1. IInv => TypeOK
  BY DEF IInv, SearchInv, TypeOK
<1> QED  BY <1>1, InitInv, StepInv, PTL DEF ServerSpec

(* The counts that printStats divides and compares agree with the cache    *)
(* and with one another, for any number of queries (main.cpp:49-53).       *)
THEOREM ThmAccounting == ServerSpec => []Accounting
<1>1. IInv => Accounting
  BY DEF IInv, CountInv
<1> QED  BY <1>1, InitInv, StepInv, PTL DEF ServerSpec
-----------------------------------------------------------------------------
(* The costs of walks with k edges at most, and what they tend to.         *)
CostTables == UNION {[D -> Nat] : D \in SUBSET Nodes}

LEMMA TableTypes ==
  ASSUME NEW D
  PROVE  D \in CostTables <=> D \in [DOMAIN D -> Nat] /\ DOMAIN D \subseteq Nodes
BY DEF CostTables

LEMMA ExtendedFacts ==
  ASSUME NEW D \in CostTables
  PROVE  LET E == Extended(D)
         IN  /\ E \in CostTables
             /\ \A v \in DOMAIN D : v \in DOMAIN E /\ E[v] <= D[v]
             /\ \A e \in Edges : e.from \in DOMAIN D =>
                  e.to \in DOMAIN E /\ E[e.to] <= D[e.from] + e.weight
             /\ \A v \in DOMAIN E :
                  \/ v \in DOMAIN D /\ E[v] = D[v]
                  \/ \E e \in Edges : e.to = v /\ e.from \in DOMAIN D /\ E[v] = D[e.from] + e.weight
<1> DEFINE in(v) == {e \in Edges : e.to = v /\ e.from \in DOMAIN D}
           has == {v \in Nodes : v \in DOMAIN D \/ in(v) # {}}
           old(v) == {D[x] : x \in {v} \cap DOMAIN D}
           new(v) == {D[e.from] + e.weight : e \in in(v)}
           E == Extended(D)
<1>1. D \in [DOMAIN D -> Nat] /\ DOMAIN D \subseteq Nodes
  BY TableTypes
<1>2. E = [v \in has |-> Least(old(v) \cup new(v))]
  BY DEF Extended
<1>3. ASSUME NEW v \in has
      PROVE  /\ E[v] \in old(v) \cup new(v) /\ E[v] \in Nat
             /\ \A y \in old(v) \cup new(v) : E[v] <= y
  <2>1. old(v) \subseteq Nat
    BY <1>1
  <2>2. new(v) \subseteq Nat
    <3>1. \A e \in in(v) : D[e.from] \in Nat /\ e.weight \in Nat
      BY <1>1, EdgeTypes
    <3> QED  BY <3>1
  <2>3. old(v) \cup new(v) # {}
    OBVIOUS
  <2>4. E[v] = Least(old(v) \cup new(v))
    BY <1>2
  <2> HIDE DEF old, new, E
  <2> QED  BY <2>1, <2>2, <2>3, <2>4, LeastIsLeast
<1>4. DOMAIN E = has
  BY <1>2
<1>5. E \in CostTables
  <2>1. E = [v \in has |-> E[v]]
    BY <1>2
  <2>2. E \in [has -> Nat] /\ has \subseteq Nodes
    <3> HIDE DEF E, has
    <3>1. \A v \in has : E[v] \in Nat
      BY <1>3
    <3>2. E \in [has -> Nat]
      BY <2>1, <3>1
    <3> QED  BY <3>2 DEF has
  <2> QED  BY <2>2 DEF CostTables
<1>6. ASSUME NEW v \in DOMAIN D PROVE v \in DOMAIN E /\ E[v] <= D[v]
  <2>1. v \in has /\ D[v] \in old(v)
    BY <1>1
  <2> HIDE DEF E, has, old, new
  <2> QED  BY <2>1, <1>3, <1>4
<1>7. ASSUME NEW e \in Edges, e.from \in DOMAIN D
      PROVE  e.to \in DOMAIN E /\ E[e.to] <= D[e.from] + e.weight
  <2>1. e.to \in Nodes
    BY EdgeTypes
  <2>2. e \in in(e.to)
    BY <1>7
  <2>3. e.to \in has /\ D[e.from] + e.weight \in new(e.to)
    BY <2>1, <2>2
  <2> HIDE DEF E, has, old, new
  <2> QED  BY <2>3, <1>3, <1>4
<1>8. ASSUME NEW v \in DOMAIN E
      PROVE  \/ v \in DOMAIN D /\ E[v] = D[v]
             \/ \E e \in Edges : e.to = v /\ e.from \in DOMAIN D /\ E[v] = D[e.from] + e.weight
  <2>1. E[v] \in old(v) \cup new(v)
    <3> HIDE DEF E, has, old, new
    <3> QED  BY <1>3, <1>4
  <2>2. CASE E[v] \in old(v)
    <3> HIDE DEF E
    <3> QED  BY <2>2
  <2>3. CASE E[v] \in new(v)
    <3> HIDE DEF E
    <3> QED  BY <2>3
  <2> QED  BY <2>1, <2>2, <2>3
<1> HIDE DEF E
<1>9. /\ E \in CostTables
      /\ \A v \in DOMAIN D : v \in DOMAIN E /\ E[v] <= D[v]
      /\ \A e \in Edges : e.from \in DOMAIN D =>
           e.to \in DOMAIN E /\ E[e.to] <= D[e.from] + e.weight
      /\ \A v \in DOMAIN E :
           \/ v \in DOMAIN D /\ E[v] = D[v]
           \/ \E e \in Edges : e.to = v /\ e.from \in DOMAIN D /\ E[v] = D[e.from] + e.weight
  BY <1>5, <1>6, <1>7, <1>8
<1> QED  BY <1>9 DEF E

LEMMA CheapestByIs ==
  ASSUME NEW s \in Nodes
  PROVE  /\ CheapestBy(s)[0] = [v \in {s} |-> 0]
         /\ \A k \in Nat : /\ CheapestBy(s)[k] \in CostTables
                           /\ CheapestBy(s)[k + 1] = Extended(CheapestBy(s)[k])
<1> DEFINE zero == [v \in {s} |-> 0]
           more == [D \in CostTables |-> Extended(D)]
           By(f) == f = [k \in Nat |-> IF k = 0 THEN zero ELSE Extended(f[k - 1])]
<1>1. zero \in CostTables
  <2>1. DOMAIN zero = {s} /\ zero \in [{s} -> Nat]
    OBVIOUS
  <2> HIDE DEF zero
  <2> QED  BY <2>1, TableTypes
<1>2. more \in [CostTables -> CostTables]
  BY ExtendedFacts
<1> HIDE DEF zero
<1>3. PICK f : Iterates(f, CostTables, zero, more, Nat)
  <2> HIDE DEF more
  <2> QED  BY <1>1, <1>2, IteratesOnNat
<1>4. /\ f \in [Nat -> CostTables] /\ f[0] = zero
      /\ \A k \in Nat : f[k + 1] = Extended(f[k])
  <2>1. f \in [Nat -> CostTables] /\ f[0] = zero /\ \A k \in Nat : k + 1 \in Nat => f[k + 1] = more[f[k]]
    <3> HIDE DEF more
    <3> QED  BY <1>3 DEF Iterates
  <2>2. ASSUME NEW k \in Nat PROVE f[k + 1] = Extended(f[k])
    <3>1. k + 1 \in Nat /\ f[k] \in CostTables
      BY <2>1
    <3>2. f[k + 1] = more[f[k]]
      BY <2>1, <3>1
    <3> QED  BY <3>1, <3>2
  <2> QED  BY <2>1, <2>2
<1>5. By(f)
  <2>1. ASSUME NEW k \in Nat PROVE f[k] = IF k = 0 THEN zero ELSE Extended(f[k - 1])
    <3>1. CASE k = 0
      BY <1>4, <3>1
    <3>2. CASE k # 0
      <4>1. k - 1 \in Nat /\ (k - 1) + 1 = k
        BY <3>2
      <4> QED  BY <1>4, <3>2, <4>1
    <3> QED  BY <3>1, <3>2
  <2>2. f = [k \in Nat |-> f[k]]
    BY <1>4
  <2> QED  BY <2>1, <2>2
<1>6. CheapestBy(s) = CHOOSE g : By(g)
  BY DEF CheapestBy, zero
<1>7. By(CheapestBy(s))
  <2> HIDE DEF By
  <2> QED  BY <1>5, <1>6
<1> DEFINE g == CheapestBy(s)
<1> HIDE DEF g
<1>8. \A k \in Nat : g[k] = IF k = 0 THEN zero ELSE Extended(g[k - 1])
  <2>1. g = [k \in Nat |-> IF k = 0 THEN zero ELSE Extended(g[k - 1])]
    BY <1>7 DEF g
  <2> QED  BY <2>1, Zenon
<1>9. \A k \in Nat : g[k + 1] = Extended(g[k])
  <2> TAKE k \in Nat
  <2>1. k + 1 \in Nat /\ k + 1 # 0 /\ (k + 1) - 1 = k
    OBVIOUS
  <2>2. g[k + 1] = Extended(g[(k + 1) - 1])
    BY <1>8, <2>1
  <2> QED  BY <2>1, <2>2
<1>10. \A k \in Nat : g[k] \in CostTables
  <2> DEFINE T == {k \in Nat : g[k] \in CostTables}
  <2>1. 0 \in T
    BY <1>1, <1>8
  <2>2. ASSUME NEW k \in Nat, k \in T PROVE k + 1 \in T
    <3>1. Extended(g[k]) \in CostTables
      BY <2>2, ExtendedFacts
    <3> QED  BY <1>9, <3>1
  <2>3. \A k \in Nat : k \in T
    <3> HIDE DEF T
    <3> QED  BY <2>1, <2>2, SetInduction
  <2> QED  BY <2>3
<1> QED  BY <1>8, <1>9, <1>10 DEF g, zero

(* What makes best the table of the least costs from s: no edge improves   *)
(* it, and every cost in it can be traced back to s along edges that cost  *)
(* what they gain, so that what holds of s and passes along such edges     *)
(* holds everywhere.                                                       *)
Tight(best, e) == /\ e.from \in DOMAIN best /\ e.to \in DOMAIN best
                  /\ best[e.to] = best[e.from] + e.weight

IsBest(s, best) ==
  /\ best \in CostTables
  /\ s \in DOMAIN best /\ best[s] = 0
  /\ \A e \in Edges : e.from \in DOMAIN best =>
       e.to \in DOMAIN best /\ best[e.to] <= best[e.from] + e.weight
  /\ \A S \in SUBSET Nodes :
       s \in S /\ (\A e \in Edges : Tight(best, e) /\ e.from \in S => e.to \in S)
         => DOMAIN best \subseteq S

LEMMA CheapestIsBest ==
  ASSUME NEW s \in Nodes
  PROVE  IsBest(s, CheapestFrom[s])
<1> DEFINE C == CheapestBy(s)
<1>1. /\ C[0] = [v \in {s} |-> 0]
      /\ \A k \in Nat : C[k] \in CostTables /\ C[k + 1] = Extended(C[k])
  BY CheapestByIs
<1> HIDE DEF C
<1>2. ASSUME NEW k \in Nat
      PROVE  /\ C[k] \in [DOMAIN C[k] -> Nat] /\ DOMAIN C[k] \subseteq Nodes
             /\ \A v \in DOMAIN C[k] : v \in DOMAIN C[k + 1] /\ C[k + 1][v] <= C[k][v]
             /\ \A e \in Edges : e.from \in DOMAIN C[k] =>
                  e.to \in DOMAIN C[k + 1] /\ C[k + 1][e.to] <= C[k][e.from] + e.weight
             /\ \A v \in DOMAIN C[k + 1] :
                  \/ v \in DOMAIN C[k] /\ C[k + 1][v] = C[k][v]
                  \/ \E e \in Edges : /\ e.to = v /\ e.from \in DOMAIN C[k]
                                      /\ C[k + 1][v] = C[k][e.from] + e.weight
  <2>1. C[k] \in CostTables /\ C[k + 1] = Extended(C[k])
    BY <1>1
  <2>2. C[k] \in [DOMAIN C[k] -> Nat] /\ DOMAIN C[k] \subseteq Nodes
    BY <2>1, TableTypes
  <2> QED  BY <2>1, <2>2, ExtendedFacts
<1> DEFINE Costs(v) == {c \in Nat : \E k \in Nat : v \in DOMAIN C[k] /\ c = C[k][v]}
           Reached == {v \in Nodes : Costs(v) # {}}
           Opt(v) == Least(Costs(v))
<1>3. ASSUME NEW k \in Nat, NEW v \in DOMAIN C[k]
      PROVE  v \in Reached /\ C[k][v] \in Nat /\ Opt(v) <= C[k][v]
  <2>1. C[k][v] \in Nat /\ v \in Nodes
    BY <1>2
  <2>2. C[k][v] \in Costs(v)
    BY <2>1
  <2>3. Costs(v) \subseteq Nat
    OBVIOUS
  <2>4. Opt(v) <= C[k][v]
    <3> HIDE DEF Costs
    <3> QED  BY <2>2, <2>3, LeastIsLeast
  <2> QED  BY <2>1, <2>2, <2>4
<1>4. ASSUME NEW v \in Reached
      PROVE  Opt(v) \in Nat /\ \E k \in Nat : v \in DOMAIN C[k] /\ C[k][v] = Opt(v)
  <2>1. Costs(v) \subseteq Nat /\ Costs(v) # {}
    OBVIOUS
  <2>2. Opt(v) \in Costs(v)
    <3> HIDE DEF Costs
    <3> QED  BY <2>1, LeastIsLeast
  <2> QED  BY <2>2
<1>5. Reached \subseteq Nodes
  OBVIOUS
<1> HIDE DEF Costs, Reached, Opt
<1>6. s \in Reached /\ Opt(s) = 0
  <2>1. s \in DOMAIN C[0] /\ C[0][s] = 0 /\ 0 \in Nat
    BY <1>1
  <2>2. s \in Reached /\ Opt(s) <= 0
    BY <2>1, <1>3
  <2> QED  BY <2>2, <1>4
<1>7. ASSUME NEW e \in Edges, e.from \in Reached
      PROVE  e.to \in Reached /\ Opt(e.to) <= Opt(e.from) + e.weight
  <2>1. PICK k \in Nat : e.from \in DOMAIN C[k] /\ C[k][e.from] = Opt(e.from)
    BY <1>4, <1>7
  <2>2. e.to \in DOMAIN C[k + 1] /\ C[k + 1][e.to] <= C[k][e.from] + e.weight
    BY <2>1, <1>2
  <2>3. k + 1 \in Nat
    OBVIOUS
  <2>4. e.to \in Reached /\ C[k + 1][e.to] \in Nat /\ Opt(e.to) <= C[k + 1][e.to]
    BY <2>2, <2>3, <1>3
  <2>5. Opt(e.to) \in Nat /\ Opt(e.from) \in Nat /\ e.weight \in Nat
    BY <2>4, <1>4, <1>7, EdgeTypes
  <2> QED  BY <2>1, <2>2, <2>4, <2>5
(* A cost with k + 1 edges that is the least of all was so with k, or is   *)
(* that of an edge from a node whose cost was the least of all.            *)
<1>8. ASSUME NEW k \in Nat, NEW v \in DOMAIN C[k + 1], C[k + 1][v] = Opt(v)
      PROVE  \/ v \in DOMAIN C[k] /\ C[k][v] = Opt(v)
             \/ \E e \in Edges : /\ e.to = v /\ e.from \in DOMAIN C[k]
                                 /\ C[k][e.from] = Opt(e.from) /\ e.from \in Reached
                                 /\ Opt(v) = Opt(e.from) + e.weight
  <2>1. CASE v \in DOMAIN C[k] /\ C[k + 1][v] = C[k][v]
    BY <2>1, <1>8
  <2>2. ASSUME NEW e \in Edges, e.to = v, e.from \in DOMAIN C[k], C[k + 1][v] = C[k][e.from] + e.weight
        PROVE  C[k][e.from] = Opt(e.from) /\ e.from \in Reached /\ Opt(v) = Opt(e.from) + e.weight
    <3>1. e.from \in Reached /\ C[k][e.from] \in Nat /\ Opt(e.from) <= C[k][e.from]
      BY <2>2, <1>3
    <3>2. Opt(v) <= Opt(e.from) + e.weight
      BY <3>1, <1>7, <2>2
    <3>3. Opt(e.from) \in Nat /\ e.weight \in Nat
      BY <3>1, <1>4, EdgeTypes
    <3> QED  BY <3>1, <3>2, <3>3, <2>2, <1>8
  <2>3. \/ v \in DOMAIN C[k] /\ C[k + 1][v] = C[k][v]
        \/ \E e \in Edges : e.to = v /\ e.from \in DOMAIN C[k] /\ C[k + 1][v] = C[k][e.from] + e.weight
    BY <1>2
  <2> QED  BY <2>1, <2>2, <2>3
(* What holds of s and passes along edges of least cost holds everywhere.  *)
<1>9. ASSUME NEW S \in SUBSET Nodes, s \in S,
             \A e \in Edges :
               e.from \in Reached /\ e.from \in S /\ Opt(e.to) = Opt(e.from) + e.weight
                 => e.to \in S
      PROVE  Reached \subseteq S
  <2> DEFINE T == {k \in Nat : \A v \in DOMAIN C[k] : C[k][v] = Opt(v) => v \in S}
  <2>1. 0 \in T
    BY <1>1, <1>9
  <2>2. ASSUME NEW k \in Nat, k \in T
        PROVE  k + 1 \in T
    <3>1. SUFFICES ASSUME NEW v \in DOMAIN C[k + 1], C[k + 1][v] = Opt(v)
                   PROVE  v \in S
      OBVIOUS
    <3>2. CASE v \in DOMAIN C[k] /\ C[k][v] = Opt(v)
      BY <2>2, <3>2
    <3>3. ASSUME NEW e \in Edges, e.to = v, e.from \in DOMAIN C[k], C[k][e.from] = Opt(e.from),
                 e.from \in Reached, Opt(v) = Opt(e.from) + e.weight
          PROVE  v \in S
      <4>1. e.from \in S
        BY <2>2, <3>3
      <4> QED  BY <3>3, <4>1, <1>9
    <3> QED  BY <3>1, <3>2, <3>3, <1>8
  <2>3. \A k \in Nat : k \in T
    <3> HIDE DEF T
    <3> QED  BY <2>1, <2>2, SetInduction
  <2> QED  BY <2>3, <1>4
(* One more edge settles one more node.                                    *)
<1> DEFINE Settled(k) == {v \in DOMAIN C[k] : C[k][v] = Opt(v)}
<1>10. ASSUME NEW k \in Nat
       PROVE  Settled(k) \subseteq Reached /\ Settled(k) \subseteq Settled(k + 1)
  <2>1. ASSUME NEW v \in Settled(k) PROVE v \in Reached /\ v \in Settled(k + 1)
    <3>1. v \in DOMAIN C[k] /\ C[k][v] = Opt(v)
      OBVIOUS
    <3>2. v \in Reached
      BY <3>1, <1>3
    <3>3. v \in DOMAIN C[k + 1] /\ C[k + 1][v] <= C[k][v]
      BY <3>1, <1>2
    <3>4. k + 1 \in Nat
      OBVIOUS
    <3>5. C[k + 1][v] \in Nat /\ Opt(v) <= C[k + 1][v] /\ Opt(v) \in Nat
      BY <3>2, <3>3, <3>4, <1>3, <1>4
    <3>6. C[k + 1][v] = Opt(v)
      BY <3>1, <3>3, <3>5
    <3> QED  BY <3>2, <3>3, <3>6
  <2> QED  BY <2>1
<1>11. ASSUME NEW k \in Nat, Settled(k) # Reached
       PROVE  \E v \in Settled(k + 1) : v \notin Settled(k)
  <2>1. s \in Settled(k)
    <3> DEFINE T == {j \in Nat : s \in Settled(j)}
    <3>1. 0 \in T
      BY <1>1, <1>6
    <3>2. ASSUME NEW j \in Nat, j \in T PROVE j + 1 \in T
      <4> HIDE DEF Settled
      <4> QED  BY <3>2, <1>10
    <3>3. \A j \in Nat : j \in T
      <4> HIDE DEF T
      <4> QED  BY <3>1, <3>2, SetInduction
    <3> QED  BY <3>3
  <2>2. Settled(k) \in SUBSET Nodes
    <3> HIDE DEF Settled
    <3> QED  BY <1>5, <1>10
  <2>3. ~(Reached \subseteq Settled(k))
    <3> HIDE DEF Settled
    <3> QED  BY <1>10, <1>11
  <2>4. PICK e \in Edges : /\ e.from \in Reached /\ e.from \in Settled(k)
                          /\ Opt(e.to) = Opt(e.from) + e.weight /\ e.to \notin Settled(k)
    <3> DEFINE Z == Settled(k)
    <3>1. Z \in SUBSET Nodes /\ s \in Z /\ ~(Reached \subseteq Z)
      BY <2>1, <2>2, <2>3
    <3> HIDE DEF Z, Settled
    <3>2. ~ \A e \in Edges :
               e.from \in Reached /\ e.from \in Z /\ Opt(e.to) = Opt(e.from) + e.weight
                 => e.to \in Z
      BY <3>1, <1>9
    <3>3. \E e \in Edges : /\ e.from \in Reached /\ e.from \in Z
                           /\ Opt(e.to) = Opt(e.from) + e.weight /\ e.to \notin Z
      BY <3>2
    <3> QED  BY <3>3 DEF Z
  <2>5. e.from \in DOMAIN C[k] /\ C[k][e.from] = Opt(e.from)
    BY <2>4
  <2>6. e.to \in DOMAIN C[k + 1] /\ C[k + 1][e.to] <= Opt(e.to)
    BY <2>4, <2>5, <1>2
  <2>7. k + 1 \in Nat
    OBVIOUS
  <2>8. C[k + 1][e.to] \in Nat /\ Opt(e.to) <= C[k + 1][e.to] /\ Opt(e.to) \in Nat
    BY <2>6, <2>7, <1>3, <1>4
  <2>9. e.to \in Settled(k + 1)
    BY <2>6, <2>8
  <2> QED  BY <2>4, <2>9
<1> HIDE DEF Settled
<1>12. Settled(n - 1) = Reached
  <2> DEFINE T == {k \in Nat : Settled(k) = Reached \/ Cardinality(Settled(k)) > k}
  <2>1. ASSUME NEW k \in Nat
        PROVE  IsFiniteSet(Settled(k)) /\ Cardinality(Settled(k)) \in Nat /\ Cardinality(Settled(k)) <= n
    <3>1. Settled(k) \subseteq Nodes
      BY <1>5, <1>10
    <3> QED  BY <3>1, NodesFacts, FS_Subset, FS_CardinalityType
  <2>2. ASSUME NEW k \in Nat, NEW v \in Settled(k + 1), v \notin Settled(k)
        PROVE  Cardinality(Settled(k + 1)) > Cardinality(Settled(k))
    <3>1. k + 1 \in Nat
      OBVIOUS
    <3>2. IsFiniteSet(Settled(k + 1)) /\ Settled(k) \subseteq Settled(k + 1) /\ Settled(k) # Settled(k + 1)
      BY <2>1, <2>2, <3>1, <1>10
    <3>3. Cardinality(Settled(k)) <= Cardinality(Settled(k + 1)) 
      BY <3>2, FS_Subset
    <3>4. Cardinality(Settled(k)) # Cardinality(Settled(k + 1))
      BY <3>2, FS_Subset
    <3> QED  BY <3>1, <3>3, <3>4, <2>1
  <2>3. 0 \in T
    <3>1. s \in Settled(0)
      BY <1>1, <1>6 DEF Settled
    <3>2. Cardinality(Settled(0)) # 0
      BY <3>1, <2>1, FS_EmptySet
    <3> QED  BY <3>2, <2>1
  <2>4. ASSUME NEW k \in Nat, k \in T
        PROVE  k + 1 \in T
    <3>1. k + 1 \in Nat /\ Settled(k + 1) \subseteq Reached
      BY <1>10
    <3>2. CASE Settled(k) = Reached
      BY <3>1, <3>2, <1>10
    <3>3. CASE Settled(k) # Reached
      <4>1. PICK v \in Settled(k + 1) : v \notin Settled(k)
        BY <3>3, <1>11
      <4>2. Cardinality(Settled(k + 1)) > Cardinality(Settled(k)) /\ Cardinality(Settled(k)) > k
        BY <4>1, <2>2, <2>4, <3>3
      <4>3. Cardinality(Settled(k + 1)) \in Nat /\ Cardinality(Settled(k)) \in Nat
        BY <3>1, <2>1
      <4>4. Cardinality(Settled(k + 1)) > k + 1
        BY <4>2, <4>3
      <4> QED  BY <3>1, <4>4
    <3> QED  BY <3>2, <3>3
  <2>5. \A k \in Nat : k \in T
    <3> HIDE DEF T
    <3> QED  BY <2>3, <2>4, SetInduction
  <2>6. n - 1 \in Nat /\ n \in Nat
    BY RouterAssumption
  <2>7. CASE Cardinality(Settled(n - 1)) > n - 1
    <3>1. Cardinality(Settled(n - 1)) = Cardinality(Nodes)
      BY <2>1, <2>6, <2>7, NodesFacts
    <3>2. Settled(n - 1) \subseteq Nodes
      BY <1>5, <1>10, <2>6
    <3>3. Settled(n - 1) = Nodes
      BY <3>1, <3>2, NodesFacts, FS_Subset
    <3> QED  BY <3>3, <1>5, <1>10, <2>6
  <2> QED  BY <2>5, <2>6, <2>7
<1> DEFINE best == C[n - 1]
<1>13. /\ best \in CostTables /\ DOMAIN best = Reached
       /\ \A v \in Reached : best[v] = Opt(v)
  <2>1. n - 1 \in Nat
    BY RouterAssumption
  <2>2. best \in CostTables
    BY <2>1, <1>1
  <2>3. DOMAIN best \subseteq Reached
    BY <2>1, <1>3
  <2>4. \A v \in Reached : v \in DOMAIN best /\ best[v] = Opt(v)
    BY <1>12 DEF Settled
  <2> QED  BY <2>2, <2>3, <2>4
<1>14. CheapestFrom[s] = best
  BY DEF CheapestFrom, C
<1> HIDE DEF best
<1>15. ASSUME NEW S \in SUBSET Nodes, s \in S,
              \A e \in Edges : Tight(best, e) /\ e.from \in S => e.to \in S
       PROVE  DOMAIN best \subseteq S
  <2>1. ASSUME NEW e \in Edges, e.from \in Reached, e.from \in S, Opt(e.to) = Opt(e.from) + e.weight
        PROVE  e.to \in S
    <3>1. e.to \in Reached
      BY <2>1, <1>7
    <3>2. Tight(best, e)
      BY <2>1, <3>1, <1>13 DEF Tight
    <3> QED  BY <2>1, <3>2, <1>15
  <2>2. \A e \in Edges :
               e.from \in Reached /\ e.from \in S /\ Opt(e.to) = Opt(e.from) + e.weight
                 => e.to \in S
    BY <2>1
  <2>3. Reached \subseteq S
    BY <2>2, <1>9, <1>15
  <2> QED  BY <2>3, <1>13
<1>16. s \in DOMAIN best /\ best[s] = 0
  BY <1>6, <1>13
<1>17. \A e \in Edges : e.from \in DOMAIN best =>
         e.to \in DOMAIN best /\ best[e.to] <= best[e.from] + e.weight
  BY <1>7, <1>13
<1>18. IsBest(s, best)
  BY <1>13, <1>15, <1>16, <1>17 DEF IsBest
<1> QED  BY <1>14, <1>18
-----------------------------------------------------------------------------
(* The costs of a search are never below the least, a node that is not     *)
(* closed lies in the queue with what is on record for it, and an entry    *)
(* that is stale is no better.                                             *)
Best == CheapestFrom[start]

QueueInv ==
  /\ alpha \in Nat
  /\ visited \subseteq DOMAIN dist
  /\ \A v \in DOMAIN dist : v \in DOMAIN Best /\ Best[v] <= dist[v]
  /\ \A v \in DOMAIN dist \ visited : <<Priority(v, dist[v]), v>> \in pq
  /\ \A x \in pq : x[1] \in Int /\ Priority(x[2], dist[x[2]]) <= x[1]

(* How much above the least a closed node may be, and what its neighbours  *)
(* were offered when it was closed.                                        *)
Factor == IF alpha > 100 THEN alpha ELSE 100

ClosedInv ==
  /\ \A v \in visited : 100 * dist[v] <= Factor * Best[v]
  /\ \A v \in visited \ {goal} : \A e \in Edges : e.from = v =>
       e.to \in DOMAIN dist /\ 100 * dist[e.to] <= Factor * Best[v] + 100 * e.weight

(* What the heuristic is used for: with alpha 0 it does not matter.        *)
Guided == Consistent \/ alpha = 0

LEMMA Times ==
  ASSUME NEW a \in Nat, NEW x \in Int, NEW y \in Int
  PROVE  /\ a * x \in Int /\ a * (x + y) = a * x + a * y /\ a * (x - y) = a * x - a * y
         /\ x <= y => a * x <= a * y
<1>1. a * x \in Int /\ a * (x + y) = a * x + a * y /\ a * (x - y) = a * x - a * y
  OBVIOUS
<1>2. ASSUME x <= y PROVE a * x <= a * y
  <2>1. y - x \in Nat /\ a * (y - x) = a * y - a * x
    BY <1>2
  <2>2. a * (y - x) \in Nat
    BY <2>1
  <2>3. a * x \in Int /\ a * y \in Int
    OBVIOUS
  <2> QED  BY <2>1, <2>2, <2>3
<1> QED  BY <1>1, <1>2

LEMMA StraightTypes ==
  ASSUME NEW v \in Nodes, NEW g \in Nodes
  PROVE  haversine[v, g] \in Nat
<1>1. <<v, g>> \in Nodes \X Nodes
  OBVIOUS
<1> QED  BY <1>1, RouterAssumption

LEMMA StraightDrops ==
  ASSUME Consistent, NEW e \in Edges, NEW g \in Nodes
  PROVE  haversine[e.from, g] <= e.weight + haversine[e.to, g]
<1>1. PICK r \in Roads : \/ e = [from |-> r.a, to |-> r.b, weight |-> r.d]
                         \/ e = [from |-> r.b, to |-> r.a, weight |-> r.d]
  BY DEF Edges
<1>2. /\ haversine[r.a, g] <= r.d + haversine[r.b, g]
      /\ haversine[r.b, g] <= r.d + haversine[r.a, g]
  BY Zenon DEF Consistent
<1>3. \/ e.from = r.a /\ e.to = r.b /\ e.weight = r.d
      \/ e.from = r.b /\ e.to = r.a /\ e.weight = r.d
  BY <1>1
<1> QED  BY <1>2, <1>3, Zenon

(* alpha times the straight line to the goal.                              *)
Pull(v) == alpha * haversine[v, goal]

LEMMA PullDrops ==
  ASSUME SearchTypes, alpha \in Nat
  PROVE  /\ \A v \in Nodes : Pull(v) \in Nat
         /\ Guided => \A e \in Edges : Pull(e.from) <= alpha * e.weight + Pull(e.to)
         /\ \A v, d : Priority(v, d) = 100 * d + Pull(v)
<1>1. goal \in Nodes
  BY DEF SearchTypes
<1>2. \A v \in Nodes : Pull(v) \in Nat
  <2> TAKE v \in Nodes
  <2> DEFINE p == haversine[v, goal]
  <2>1. p \in Nat
    BY <1>1, StraightTypes
  <2>2. Pull(v) = alpha * p
    BY DEF Pull
  <2> HIDE DEF p
  <2> QED  BY <2>1, <2>2
<1>3. ASSUME Guided, NEW e \in Edges
      PROVE  Pull(e.from) <= alpha * e.weight + Pull(e.to)
  <2>1. e.from \in Nodes /\ e.to \in Nodes /\ e.weight \in Nat
    BY EdgeTypes
  <2>2. haversine[e.from, goal] \in Nat /\ haversine[e.to, goal] \in Nat
    BY <1>1, <2>1, StraightTypes
  <2>3. CASE Consistent
    <3> DEFINE p == haversine[e.from, goal]
               q == haversine[e.to, goal]
    <3>1. p <= e.weight + q
      BY <1>1, <2>3, StraightDrops
    <3>2. Pull(e.from) = alpha * p /\ Pull(e.to) = alpha * q
      BY DEF Pull
    <3>3. p \in Nat /\ q \in Nat
      BY <2>2
    <3> HIDE DEF p, q
    <3>4. alpha * p <= alpha * (e.weight + q)
      BY <2>1, <3>1, <3>3, Times
    <3>5. alpha * (e.weight + q) = alpha * e.weight + alpha * q
      BY <2>1, <3>3, Times
    <3> QED  BY <3>2, <3>4, <3>5
  <2>4. CASE alpha = 0
    <3> DEFINE p == haversine[e.from, goal]
               q == haversine[e.to, goal]
    <3>1. Pull(e.from) = alpha * p /\ Pull(e.to) = alpha * q /\ p \in Nat /\ q \in Nat
      BY <2>2 DEF Pull
    <3> HIDE DEF p, q
    <3> QED  BY <2>1, <2>4, <3>1
  <2> QED  BY <1>3, <2>3, <2>4 DEF Guided
<1>4. \A v, d : Priority(v, d) = 100 * d + Pull(v)
  BY DEF Priority, Pull
<1> QED  BY <1>2, <1>3, <1>4

LEMMA BestFacts ==
  ASSUME SearchTypes
  PROVE  /\ IsBest(start, Best)
         /\ Best \in [DOMAIN Best -> Nat] /\ DOMAIN Best \subseteq Nodes
<1>1. IsBest(start, Best)
  BY CheapestIsBest DEF SearchTypes, Best
<1> QED  BY <1>1, TableTypes DEF IsBest

(* A node that is taken from the queue costs no more than Factor allows:   *)
(* on a cheapest walk to it let y be the first node that is not closed.    *)
(* What y was offered is good, it lies in the queue, and the heuristic     *)
(* does not lose more from y to here than the walk costs.                  *)
Ahead(y, v) ==
  /\ 100 * dist[y] <= Factor * Best[y] /\ Best[y] <= Best[v]
  /\ Pull(y) <= alpha * (Best[v] - Best[y]) + Pull(v)

LEMMA TopIsGood ==
  ASSUME SearchInv, QueueInv, ClosedInv, Guided, start \in DOMAIN dist, goal \notin visited,
         NEW x \in pq, IsTop(x), x[2] \notin visited
  PROVE  100 * dist[x[2]] <= Factor * Best[x[2]]
<1> DEFINE u == x[2]
           S == {v \in DOMAIN Best : v \in visited \/ \E y \in DOMAIN dist \ visited : Ahead(y, v)}
<1>1. SearchTypes /\ IsBest(start, Best) /\ Best \in [DOMAIN Best -> Nat] /\ DOMAIN Best \subseteq Nodes
  BY BestFacts DEF SearchInv
<1>2. alpha \in Nat /\ Factor \in Nat /\ alpha <= Factor /\ 100 <= Factor
  BY DEF QueueInv, Factor
<1>3. \A v \in Nodes : Pull(v) \in Nat
  BY <1>1, <1>2, PullDrops
<1>4. \A v \in DOMAIN dist : v \in DOMAIN Best /\ Best[v] <= dist[v] /\ dist[v] \in Nat
  BY <1>1 DEF QueueInv, SearchTypes
<1>5. start \in S
  <2>1. start \in DOMAIN Best /\ Best[start] = 0 /\ dist[start] = 0 /\ start \in Nodes
    BY <1>1 DEF IsBest, SearchInv, StartIsRoot, SearchTypes
  <2>2. alpha * (Best[start] - Best[start]) = 0 /\ Factor * Best[start] = 0
    BY <1>2, <2>1
  <2>3. Ahead(start, start)
    BY <1>3, <2>1, <2>2 DEF Ahead
  <2> QED  BY <2>1, <2>3
<1>6. ASSUME NEW e \in Edges, Tight(Best, e), e.from \in S
      PROVE  e.to \in S
  <2>1. /\ e.from \in DOMAIN Best /\ e.to \in DOMAIN Best /\ Best[e.to] = Best[e.from] + e.weight
        /\ Best[e.from] \in Nat /\ Best[e.to] \in Nat /\ e.weight \in Nat
        /\ e.from \in Nodes /\ e.to \in Nodes
    BY <1>1, <1>6, EdgeTypes DEF Tight
  <2>2. CASE e.to \in visited
    BY <2>1, <2>2
  <2>3. CASE e.to \notin visited /\ e.from \in visited
    <3>1. e.to \in DOMAIN dist /\ 100 * dist[e.to] <= Factor * Best[e.from] + 100 * e.weight
      BY <2>3 DEF ClosedInv
    <3>2. 100 * e.weight <= Factor * e.weight
      BY <1>2, <2>1
    <3>3. Factor * Best[e.to] = Factor * Best[e.from] + Factor * e.weight
      BY <1>2, <2>1, Times
    <3>4. Factor * Best[e.from] \in Int /\ Factor * e.weight \in Int /\ dist[e.to] \in Nat
      BY <1>2, <1>4, <2>1, <3>1
    <3>5. 100 * dist[e.to] <= Factor * Best[e.to]
      BY <2>1, <3>1, <3>2, <3>3, <3>4
    <3>6. alpha * (Best[e.to] - Best[e.to]) = 0
      BY <1>2, <2>1
    <3>7. Ahead(e.to, e.to)
      BY <1>3, <2>1, <3>5, <3>6 DEF Ahead
    <3> QED  BY <2>1, <2>3, <3>1, <3>7
  <2>4. CASE e.from \notin visited
    <3>1. PICK y \in DOMAIN dist \ visited : Ahead(y, e.from)
      BY <1>6, <2>4
    <3>2. y \in DOMAIN Best /\ Best[y] \in Nat /\ y \in Nodes
      BY <1>1, <1>4
    <3> DEFINE d == Best[e.from] - Best[y]
    <3>3. Pull(y) <= alpha * d + Pull(e.from) /\ 100 * dist[y] <= Factor * Best[y] /\ Best[y] <= Best[e.from]
      BY <3>1 DEF Ahead
    <3>4. Pull(e.from) <= alpha * e.weight + Pull(e.to)
      BY <1>1, <1>2, PullDrops
    <3>5. Best[e.to] - Best[y] = d + e.weight /\ d \in Int
      BY <2>1, <3>2
    <3> HIDE DEF d
    <3>6. alpha * (d + e.weight) = alpha * d + alpha * e.weight /\ alpha * d \in Int /\ alpha * e.weight \in Int
      BY <1>2, <2>1, <3>5, Times
    <3>7. Pull(y) <= alpha * (d + e.weight) + Pull(e.to)
      BY <1>3, <2>1, <3>2, <3>3, <3>4, <3>6
    <3>8. Best[y] <= Best[e.to]
      BY <2>1, <3>2, <3>3
    <3>9. Ahead(y, e.to)
      BY <3>3, <3>5, <3>7, <3>8 DEF Ahead
    <3> QED  BY <2>1, <3>9
  <2> QED  BY <2>2, <2>3, <2>4
<1>7. u \in S
  <2>1. S \in SUBSET Nodes
    BY <1>1
  <2>2. DOMAIN Best \subseteq S
    <3> HIDE DEF S
    <3> QED  BY <1>1, <1>5, <1>6, <2>1 DEF IsBest
  <2> QED  BY <2>2, <1>4 DEF SearchInv, SearchTypes
<1>8. PICK y \in DOMAIN dist \ visited : Ahead(y, u)
  BY <1>7
<1>9. /\ u \in DOMAIN dist /\ u \in DOMAIN Best /\ Best[u] \in Nat /\ dist[u] \in Nat /\ u \in Nodes
      /\ y \in DOMAIN Best /\ Best[y] \in Nat /\ dist[y] \in Nat /\ y \in Nodes
  BY <1>1, <1>4 DEF SearchTypes
<1>10. Priority(u, dist[u]) <= Priority(y, dist[y])
  <2>1. Priority(u, dist[u]) <= x[1] /\ x[1] \in Int
    BY DEF QueueInv
  <2>2. <<Priority(y, dist[y]), y>> \in pq
    BY DEF QueueInv
  <2>3. x[1] <= Priority(y, dist[y])
    <3> DEFINE z == <<Priority(y, dist[y]), y>>
    <3>1. z \in pq /\ z[1] = Priority(y, dist[y])
      BY <2>2
    <3>2. z[1] \in Int
      BY <3>1 DEF QueueInv
    <3> HIDE DEF z
    <3>3. x[1] <= z[1]
      BY <2>1, <3>1, <3>2 DEF IsTop
    <3> QED  BY <3>1, <3>3
  <2>4. Priority(u, dist[u]) \in Int /\ Priority(y, dist[y]) \in Int
    <3>1. Priority(u, dist[u]) = 100 * dist[u] + Pull(u) /\ Priority(y, dist[y]) = 100 * dist[y] + Pull(y)
      BY <1>1, <1>2, PullDrops
    <3> QED  BY <1>3, <1>9, <3>1
  <2> QED  BY <2>1, <2>3, <2>4
<1>11. 100 * dist[u] + Pull(u) <= 100 * dist[y] + Pull(y)
  <2>1. Priority(u, dist[u]) = 100 * dist[u] + Pull(u) /\ Priority(y, dist[y]) = 100 * dist[y] + Pull(y)
    BY <1>1, <1>2, PullDrops
  <2> QED  BY <1>10, <2>1
<1> DEFINE d == Best[u] - Best[y]
<1>12. /\ 100 * dist[y] <= Factor * Best[y] /\ Pull(y) <= alpha * d + Pull(u) /\ d \in Nat
       /\ Best[u] = Best[y] + d
  BY <1>8, <1>9 DEF Ahead
<1> HIDE DEF d, u
<1>13. alpha * d <= Factor * d /\ Factor * d \in Int /\ alpha * d \in Int
  <2>1. d * alpha <= d * Factor
    BY <1>2, <1>12, Times
  <2>2. d * alpha = alpha * d /\ d * Factor = Factor * d
    BY <1>2, <1>12
  <2> QED  BY <2>1, <2>2, <1>2, <1>12, Times
<1>14. Factor * (Best[y] + d) = Factor * Best[y] + Factor * d /\ Factor * Best[y] \in Int
  BY <1>2, <1>9, <1>12, Times
<1>15. Pull(u) \in Nat /\ Pull(y) \in Nat
  BY <1>3, <1>9
<1>16. 100 * dist[u] <= Factor * Best[y] + Factor * d
  BY <1>9, <1>11, <1>12, <1>13, <1>14, <1>15
<1> QED  BY <1>12, <1>14, <1>16 DEF u

(* No set of nodes is closed under going back to the parent.               *)
NoParentCycle == \A S \in SUBSET Nodes : S # {} => \E v \in S : parent[v] \notin S

CostInv == QueueInv /\ (Guided => ClosedInv) /\ NoParentCycle

LEMMA NoParents ==
  ASSUME NEW p, p = [v \in Nodes |-> -1]
  PROVE  \A S \in SUBSET Nodes : S # {} => \E v \in S : p[v] \notin S
<1>1. \A v \in Nodes : p[v] = -1 /\ -1 \notin Nodes
  BY NodesFacts
<1> QED  BY <1>1

LEMMA BeginCosts ==
  ASSUME NEW s \in Nodes, NEW g \in Nodes, NEW a \in Nat, Begin(s, g, a)
  PROVE  CostInv' /\ start' \in DOMAIN dist'
<1> DEFINE p == a * haversine[s, g]
<1>1. /\ start' = s /\ goal' = g /\ alpha' = a /\ visited' = {}
      /\ dist' = [v \in {s} |-> 0] /\ parent' = [v \in Nodes |-> -1]
      /\ pq' = {<<p, s>>}
  BY DEF Begin
<1>2. DOMAIN dist' = {s} /\ dist'[s] = 0
  BY <1>1
<1>3. p \in Nat
  <2> DEFINE q == haversine[s, g]
  <2>1. q \in Nat
    BY StraightTypes
  <2>2. p = a * q
    OBVIOUS
  <2> HIDE DEF p, q
  <2> QED  BY <2>1, <2>2
<1>4. Priority(s, 0)' = p
  <2>1. Priority(s, 0)' = 100 * 0 + p
    BY <1>1 DEF Priority
  <2> HIDE DEF p
  <2> QED  BY <2>1, <1>3
<1>5. s \in DOMAIN Best' /\ Best'[s] = 0
  <2>1. Best' = CheapestFrom[s]
    BY <1>1 DEF Best
  <2>2. IsBest(s, CheapestFrom[s])
    BY CheapestIsBest
  <2> HIDE DEF p
  <2> QED  BY <2>1, <2>2 DEF IsBest
<1> HIDE DEF p
<1>6. \A v \in DOMAIN dist' \ visited' : <<Priority(v, dist[v]), v>>' \in pq'
  <2>1. SUFFICES <<Priority(s, dist[s]), s>>' \in pq'
    BY <1>2
  <2>2. Priority(s, dist[s])' = p
    BY <1>2, <1>4 DEF Priority
  <2> QED  BY <2>2, <1>1
<1>7. \A x \in pq' : x[1] \in Int /\ Priority(x[2], dist[x[2]])' <= x[1]
  <2>1. Priority(s, dist[s])' = p
    BY <1>2, <1>4 DEF Priority
  <2>2. p <= p
    BY <1>3
  <2> QED  BY <2>1, <2>2, <1>1, <1>3
<1>8. QueueInv'
  BY <1>1, <1>2, <1>5, <1>6, <1>7 DEF QueueInv
<1>9. ClosedInv'
  BY <1>1 DEF ClosedInv
<1>10. NoParentCycle'
  BY <1>1, NoParents DEF NoParentCycle
<1> QED  BY <1>1, <1>2, <1>8, <1>9, <1>10 DEF CostInv

(* An offer is made along every edge, and none is higher than the edge.    *)
LEMMA OfferOfEdge ==
  ASSUME NEW u \in DOMAIN dist, dist \in [DOMAIN dist -> Nat], NEW e \in Edges, e.from = u
  PROVE  e.to \in DOMAIN Offers(u) /\ Offers(u)[e.to] <= dist[u] + e.weight
<1> DEFINE S == {dist[u] + f.weight : f \in {f \in Edges : f.from = u /\ f.to = e.to}}
<1>1. e.to \in DOMAIN Offers(u) /\ Offers(u)[e.to] = Least(S)
  BY DEF Offers
<1>2. S \subseteq Nat
  BY EdgeTypes
<1>3. dist[u] + e.weight \in S
  OBVIOUS
<1>4. Least(S) <= dist[u] + e.weight
  <2> HIDE DEF S
  <2> QED  BY <1>2, <1>3, LeastIsLeast
<1> QED  BY <1>1, <1>4

(* What relaxing u does to the costs.                                      *)
LEMMA RelaxCosts ==
  ASSUME SearchInv, NEW u \in DOMAIN dist, NEW rest, Relax(u, rest),
         NEW better, better = Improved(u, Offers(u))
  PROVE  /\ DOMAIN dist' = DOMAIN dist \cup better /\ u \notin better /\ better \subseteq Nodes
         /\ dist' \in [DOMAIN dist' -> Nat]
         /\ \A v \in better :
              /\ parent'[v] = u /\ <<Priority(v, dist'[v]), v>> \in pq'
              /\ \E e \in Edges : e.from = u /\ e.to = v /\ dist'[v] = dist[u] + e.weight
              /\ v \in DOMAIN dist => dist'[v] < dist[v]
         /\ \A v \in DOMAIN dist \ better : dist'[v] = dist[v]
         /\ \A v \in Nodes \ better : parent'[v] = parent[v]
         /\ \A v \in DOMAIN dist : dist'[v] <= dist[v]
         /\ \A e \in Edges : e.from = u =>
              e.to \in DOMAIN dist' /\ dist'[e.to] <= dist[u] + e.weight
         /\ rest \subseteq pq'
         /\ \A x \in pq' : x \in rest \/ \E v \in better : x = <<Priority(v, dist'[v]), v>>
<1> DEFINE offer == Offers(u)
<1>1. dist \in [DOMAIN dist -> Nat] /\ DOMAIN dist \subseteq Nodes /\ parent \in [Nodes -> Nodes \cup {-1}]
  BY DEF SearchInv, SearchTypes
<1>2. /\ dist' = [v \in DOMAIN dist \cup better |->
                    IF v \in better THEN offer[v] ELSE dist[v]]
      /\ parent' = [v \in Nodes |-> IF v \in better THEN u ELSE parent[v]]
      /\ pq' = rest \cup {<<Priority(v, offer[v]), v>> : v \in better}
  BY DEF Relax
<1>3. \A v \in DOMAIN offer :
         \E e \in Edges : e.from = u /\ e.to = v /\ offer[v] = dist[u] + e.weight
  BY <1>1, OfferIsAnEdge
<1>4. \A e \in Edges : e.from = u => e.to \in DOMAIN offer /\ offer[e.to] <= dist[u] + e.weight
  BY <1>1, OfferOfEdge
<1>5. \A v \in better : /\ v \in DOMAIN offer /\ v \in Nodes /\ offer[v] \in Nat
                        /\ v \in DOMAIN dist => offer[v] < dist[v]
  BY <1>1, <1>3, EdgeTypes DEF Improved
<1>6. \A v \in DOMAIN offer \ better : v \in DOMAIN dist /\ dist[v] <= offer[v]
  <2>1. \A v \in DOMAIN offer : offer[v] \in Nat
    BY <1>1, <1>3, EdgeTypes
  <2> QED  BY <1>1, <2>1 DEF Improved
<1>7. u \notin better
  BY <1>1, <1>3, <1>5, EdgeTypes
<1> HIDE DEF offer
<1>8. /\ DOMAIN dist' = DOMAIN dist \cup better /\ better \subseteq Nodes
      /\ \A v \in better : dist'[v] = offer[v] /\ parent'[v] = u
      /\ \A v \in DOMAIN dist \ better : dist'[v] = dist[v]
      /\ \A v \in Nodes \ better : parent'[v] = parent[v]
  BY <1>1, <1>2, <1>5
<1>9. dist' \in [DOMAIN dist' -> Nat]
  BY <1>1, <1>2, <1>5
<1>10. \A v \in DOMAIN dist : dist'[v] <= dist[v]
  BY <1>1, <1>5, <1>8
<1>11. ASSUME NEW e \in Edges, e.from = u
       PROVE  e.to \in DOMAIN dist' /\ dist'[e.to] <= dist[u] + e.weight
  <2>1. e.to \in DOMAIN offer /\ offer[e.to] <= dist[u] + e.weight
    BY <1>4, <1>11
  <2>2. CASE e.to \in better
    BY <2>1, <2>2, <1>8
  <2>3. CASE e.to \notin better
    <3>1. e.to \in DOMAIN dist /\ dist[e.to] <= offer[e.to] /\ dist'[e.to] = dist[e.to]
      BY <2>1, <2>3, <1>6, <1>8
    <3>2. dist[e.to] \in Nat /\ offer[e.to] \in Nat /\ dist[u] + e.weight \in Nat
      BY <1>1, <1>3, <2>1, <3>1, EdgeTypes
    <3> QED  BY <2>1, <3>1, <3>2, <1>8
  <2> QED  BY <2>2, <2>3
<1>12. ASSUME NEW v \in better
       PROVE  /\ parent'[v] = u /\ <<Priority(v, dist'[v]), v>> \in pq'
              /\ \E e \in Edges : e.from = u /\ e.to = v /\ dist'[v] = dist[u] + e.weight
              /\ v \in DOMAIN dist => dist'[v] < dist[v]
  <2>1. parent'[v] = u /\ dist'[v] = offer[v] /\ v \in DOMAIN offer
    BY <1>5, <1>8
  <2> QED  BY <2>1, <1>2, <1>3, <1>5
<1>13. rest \subseteq pq' /\ \A x \in pq' : x \in rest \/ \E v \in better : x = <<Priority(v, dist'[v]), v>>
  BY <1>2, <1>8
<1> QED  BY <1>7, <1>8, <1>9, <1>10, <1>11, <1>12, <1>13

LEMMA ExpandCosts ==
  ASSUME SearchInv, CostInv, goal \notin visited, start \in DOMAIN dist,
         NEW x \in pq, IsTop(x), x[2] \notin visited, x[2] # goal,
         Relax(x[2], Popped(x)), visited' = visited \cup {x[2]}, UNCHANGED <<start, goal, alpha>>
  PROVE  CostInv'
<1> DEFINE u == x[2]
           better == Improved(u, Offers(u))
<1>1. /\ QueueInv /\ (Guided => ClosedInv) /\ NoParentCycle
      /\ SearchTypes /\ ParentsDescend /\ IsBest(start, Best) /\ Best \in [DOMAIN Best -> Nat]
  BY BestFacts DEF CostInv, SearchInv
<1>2. u \in DOMAIN dist /\ Relax(u, Popped(x))
  BY <1>1 DEF SearchTypes
<1>3. /\ DOMAIN dist' = DOMAIN dist \cup better /\ u \notin better /\ better \subseteq Nodes
      /\ dist' \in [DOMAIN dist' -> Nat]
      /\ \A v \in better :
           /\ parent'[v] = u /\ <<Priority(v, dist'[v]), v>> \in pq'
           /\ \E e \in Edges : e.from = u /\ e.to = v /\ dist'[v] = dist[u] + e.weight
           /\ v \in DOMAIN dist => dist'[v] < dist[v]
      /\ \A v \in DOMAIN dist \ better : dist'[v] = dist[v]
      /\ \A v \in Nodes \ better : parent'[v] = parent[v]
      /\ \A v \in DOMAIN dist : dist'[v] <= dist[v]
      /\ \A e \in Edges : e.from = u =>
           e.to \in DOMAIN dist' /\ dist'[e.to] <= dist[u] + e.weight
      /\ Popped(x) \subseteq pq'
      /\ \A y \in pq' : y \in Popped(x) \/ \E v \in better : y = <<Priority(v, dist'[v]), v>>
  BY <1>2, RelaxCosts
<1> HIDE DEF better
<1>4. /\ alpha \in Nat /\ visited \subseteq DOMAIN dist
      /\ \A v \in DOMAIN dist : v \in DOMAIN Best /\ Best[v] <= dist[v] /\ dist[v] \in Nat /\ Best[v] \in Nat
      /\ \A v \in DOMAIN dist' : dist'[v] \in Nat
  BY <1>1, <1>3 DEF QueueInv, SearchTypes
<1>5. Best' = Best /\ Factor' = Factor /\ Guided' = Guided /\ \A v, d : Priority(v, d)' = Priority(v, d)
  BY DEF Best, Factor, Guided, Priority
<1>6. \A v \in DOMAIN dist' : v \in DOMAIN Best /\ Best[v] <= dist'[v]
  <2> SUFFICES ASSUME NEW v \in DOMAIN dist' PROVE v \in DOMAIN Best /\ Best[v] <= dist'[v]
    OBVIOUS
  <2>1. CASE v \in better
    <3>1. PICK e \in Edges : e.from = u /\ e.to = v /\ dist'[v] = dist[u] + e.weight
      BY <1>3, <2>1
    <3>2. u \in DOMAIN Best /\ Best[u] <= dist[u] /\ Best[u] \in Nat /\ dist[u] \in Nat
      BY <1>2, <1>4
    <3>3. v \in DOMAIN Best /\ Best[v] <= Best[u] + e.weight
      BY <1>1, <3>1, <3>2 DEF IsBest
    <3>4. Best[v] \in Nat /\ e.weight \in Nat
      BY <1>1, <3>3, EdgeTypes
    <3> QED  BY <3>1, <3>2, <3>3, <3>4
  <2>2. CASE v \notin better
    BY <1>3, <1>4, <2>2
  <2> QED  BY <2>1, <2>2
<1>7. \A v \in DOMAIN dist' \ visited' : <<Priority(v, dist'[v]), v>> \in pq'
  <2> SUFFICES ASSUME NEW v \in DOMAIN dist' \ visited' PROVE <<Priority(v, dist'[v]), v>> \in pq'
    OBVIOUS
  <2>1. CASE v \in better
    BY <1>3, <2>1
  <2>2. CASE v \notin better
    <3>1. v \in DOMAIN dist \ visited /\ dist'[v] = dist[v] /\ v # u
      BY <1>3, <2>2
    <3>2. <<Priority(v, dist[v]), v>> \in pq
      BY <1>1, <3>1 DEF QueueInv
    <3>3. <<Priority(v, dist[v]), v>> # x
      BY <3>1
    <3> QED  BY <1>3, <3>1, <3>2, <3>3 DEF Popped
  <2> QED  BY <2>1, <2>2
<1>8. \A y \in pq' : y[1] \in Int /\ Priority(y[2], dist'[y[2]]) <= y[1]
  <2> SUFFICES ASSUME NEW y \in pq' PROVE y[1] \in Int /\ Priority(y[2], dist'[y[2]]) <= y[1]
    OBVIOUS
  <2>1. \A v, d : Priority(v, d) = 100 * d + Pull(v)
    BY <1>1, <1>4, PullDrops
  <2>2. \A v \in Nodes : Pull(v) \in Nat
    BY <1>1, <1>4, PullDrops
  <2>3. ASSUME NEW v \in better, y = <<Priority(v, dist'[v]), v>>
        PROVE  y[1] \in Int /\ Priority(y[2], dist'[y[2]]) <= y[1]
    <3>1. y[1] = Priority(v, dist'[v]) /\ y[2] = v
      BY <2>3
    <3>2. Priority(v, dist'[v]) = 100 * dist'[v] + Pull(v) /\ dist'[v] \in Nat /\ Pull(v) \in Nat
      BY <1>3, <1>4, <2>1, <2>2
    <3>3. Priority(v, dist'[v]) \in Int
      BY <3>2
    <3> QED  BY <3>1, <3>3
  <2>4. CASE y \in Popped(x)
    <3>1. y \in pq
      BY <2>4 DEF Popped
    <3>2. y[1] \in Int /\ Priority(y[2], dist[y[2]]) <= y[1] /\ y[2] \in DOMAIN dist
      BY <1>1, <3>1 DEF QueueInv, SearchTypes
    <3> DEFINE v == y[2]
    <3>3. v \in DOMAIN dist /\ v \in Nodes /\ dist'[v] <= dist[v] /\ dist'[v] \in Nat /\ dist[v] \in Nat
      BY <1>1, <1>3, <1>4, <3>2 DEF SearchTypes
    <3>4. Priority(v, dist'[v]) = 100 * dist'[v] + Pull(v) /\ Priority(v, dist[v]) = 100 * dist[v] + Pull(v)
      BY <2>1
    <3>5. Pull(v) \in Nat /\ Priority(v, dist[v]) <= y[1]
      BY <2>2, <3>2, <3>3
    <3> HIDE DEF v
    <3>6. Priority(v, dist'[v]) <= y[1]
      BY <3>2, <3>3, <3>4, <3>5
    <3> QED  BY <3>2, <3>6 DEF v
  <2> QED  BY <1>3, <2>3, <2>4
<1>9. visited' \subseteq DOMAIN dist'
  BY <1>2, <1>3, <1>4
<1>10. QueueInv'
  <2>1. \A v \in DOMAIN dist' \ visited' : <<Priority(v, dist[v])', v>> \in pq'
    BY <1>7 DEF Priority
  <2>2. \A y \in pq' : y[1] \in Int /\ Priority(y[2], dist[y[2]])' <= y[1]
    BY <1>8 DEF Priority
  <2> QED  BY <1>4, <1>5, <1>6, <1>9, <2>1, <2>2 DEF QueueInv
<1>11. ASSUME Guided PROVE ClosedInv'
  <2>1. ClosedInv /\ 100 * dist[u] <= Factor * Best[u]
    BY <1>1, <1>11, TopIsGood
  <2>2. ASSUME NEW v \in visited'
        PROVE  100 * dist'[v] <= Factor * Best[v]
    <3>1. v \in DOMAIN dist /\ 100 * dist[v] <= Factor * Best[v]
      BY <1>2, <1>4, <2>1 DEF ClosedInv
    <3>2. dist'[v] <= dist[v] /\ dist'[v] \in Nat /\ dist[v] \in Nat /\ Factor * Best[v] \in Int
      BY <1>3, <1>4, <3>1 DEF Factor
    <3> QED  BY <3>1, <3>2
  <2>3. ASSUME NEW v \in visited' \ {goal}, NEW e \in Edges, e.from = v
        PROVE  e.to \in DOMAIN dist' /\ 100 * dist'[e.to] <= Factor * Best[v] + 100 * e.weight
    <3>1. Factor * Best[v] \in Int /\ e.weight \in Nat
      <4>1. Best[v] \in Nat /\ Factor \in Nat
        BY <1>2, <1>4 DEF Factor
      <4> QED  BY <4>1, EdgeTypes
    <3>2. CASE v = u
      <4>1. e.to \in DOMAIN dist' /\ dist'[e.to] <= dist[u] + e.weight
        BY <1>3, <2>3, <3>2
      <4>2. dist'[e.to] \in Nat /\ dist[u] \in Nat
        BY <1>2, <1>4, <4>1
      <4> QED  BY <2>1, <3>1, <3>2, <4>1, <4>2
    <3>3. CASE v # u
      <4>1. e.to \in DOMAIN dist /\ 100 * dist[e.to] <= Factor * Best[v] + 100 * e.weight
        BY <2>1, <2>3, <3>3 DEF ClosedInv
      <4>2. e.to \in DOMAIN dist' /\ dist'[e.to] <= dist[e.to] /\ dist'[e.to] \in Nat /\ dist[e.to] \in Nat
        BY <1>3, <1>4, <4>1
      <4> QED  BY <3>1, <4>1, <4>2
    <3> QED  BY <3>2, <3>3
  <2> QED  BY <1>5, <2>2, <2>3 DEF ClosedInv
<1>12. NoParentCycle'
  <2> SUFFICES ASSUME NEW S \in SUBSET Nodes, S # {}, \A v \in S : parent'[v] \in S
               PROVE  FALSE
    BY DEF NoParentCycle
  <2>1. CASE u \notin S
    <3>1. \A v \in S : v \notin better
      BY <1>3, <2>1
    <3>2. \A v \in S : parent[v] \in S
      BY <1>3, <3>1
    <3> QED  BY <1>1, <3>2 DEF NoParentCycle
  <2>2. CASE u \in S
    <3> DEFINE T == {v \in S : v \in DOMAIN dist /\ dist[v] <= dist[u]}
    <3>1. T \in SUBSET Nodes /\ u \in T
      BY <1>2, <1>4, <2>2
    <3>2. ASSUME NEW v \in T PROVE parent[v] \in T
      <4>1. v \in DOMAIN dist /\ dist[v] <= dist[u] /\ dist[v] \in Nat /\ dist[u] \in Nat /\ v \in S
        BY <1>2, <1>4
      <4>2. v \notin better
        <5>1. SUFFICES ASSUME v \in better PROVE FALSE
          OBVIOUS
        <5>2. PICK e \in Edges : dist'[v] = dist[u] + e.weight
          BY <1>3, <5>1
        <5>3. dist'[v] < dist[v] /\ e.weight \in Nat
          BY <1>3, <4>1, <5>1, EdgeTypes
        <5> QED  BY <4>1, <5>2, <5>3
      <4>3. parent[v] \in S
        BY <1>3, <4>1, <4>2
      <4>4. parent[v] # -1
        BY <4>3, NodesFacts
      <4>5. PICK e \in Edges : e.from = parent[v] /\ e.from \in DOMAIN dist /\ dist[e.from] + e.weight <= dist[v]
        BY <1>1, <4>1, <4>4 DEF ParentsDescend
      <4>6. dist[e.from] \in Nat /\ e.weight \in Nat
        BY <1>4, <4>5, EdgeTypes
      <4> QED  BY <4>1, <4>3, <4>5, <4>6
    <3> HIDE DEF T
    <3> QED  BY <1>1, <3>1, <3>2 DEF NoParentCycle
  <2> QED  BY <2>1, <2>2
<1> QED  BY <1>5, <1>10, <1>11, <1>12 DEF CostInv

LEMMA TurnCosts ==
  ASSUME SearchInv, CostInv, start \in DOMAIN dist, SearchStep
  PROVE  CostInv' /\ start' \in DOMAIN dist'
<1>1. PICK x \in pq : /\ IsTop(x)
                     /\ visited' = visited \cup {x[2]}
                     /\ IF x[2] \in visited \cup {goal}
                          THEN pq' = Popped(x) /\ UNCHANGED <<dist, parent>>
                          ELSE Relax(x[2], Popped(x))
  BY DEF SearchStep
<1>2. UNCHANGED <<start, goal, alpha>> /\ goal \notin visited
  BY DEF SearchStep, Searching
<1>3. /\ QueueInv /\ (Guided => ClosedInv) /\ NoParentCycle
      /\ x[2] \in DOMAIN dist
  BY DEF CostInv, SearchInv, SearchTypes
<1>4. /\ Best' = Best /\ Factor' = Factor /\ Guided' = Guided
      /\ \A v, d : Priority(v, d)' = Priority(v, d)
  BY <1>2 DEF Best, Factor, Guided, Priority
<1>5. CASE x[2] \in visited \cup {goal}
  <2>1. pq' = pq \ {x} /\ dist' = dist /\ parent' = parent
    BY <1>1, <1>5 DEF Popped
  <2>2. QueueInv'
    <3>1. visited' \subseteq DOMAIN dist'
      BY <1>1, <1>3, <2>1 DEF QueueInv
    <3>2. \A v \in DOMAIN dist' \ visited' : <<Priority(v, dist[v])', v>> \in pq'
      <4> SUFFICES ASSUME NEW v \in DOMAIN dist \ visited, v # x[2]
                   PROVE  <<Priority(v, dist[v])', v>> \in pq'
        BY <1>1, <2>1
      <4>1. <<Priority(v, dist[v]), v>> \in pq
        BY <1>3 DEF QueueInv
      <4>2. Priority(v, dist[v])' = Priority(v, dist[v])
        BY <1>2, <2>1 DEF Priority
      <4> QED  BY <4>1, <4>2, <2>1
    <3>3. \A y \in pq' : y[1] \in Int /\ Priority(y[2], dist[y[2]])' <= y[1]
      <4>1. \A v : Priority(v, dist[v])' = Priority(v, dist[v])
        BY <1>2, <2>1 DEF Priority
      <4> QED  BY <4>1, <1>3, <2>1 DEF QueueInv
    <3> QED  BY <1>2, <1>3, <1>4, <2>1, <3>1, <3>2, <3>3 DEF QueueInv
  <2>3. ASSUME Guided PROVE ClosedInv'
    <3>1. ClosedInv
      BY <1>3, <2>3
    <3>2. CASE x[2] \in visited
      <4>1. visited' = visited
        BY <1>1, <3>2
      <4> QED  BY <1>2, <1>4, <2>1, <3>1, <4>1 DEF ClosedInv
    <3>3. CASE x[2] \notin visited
      <4>1. x[2] = goal /\ visited' = visited \cup {goal}
        BY <1>1, <1>5, <3>3
      <4>2. 100 * dist[goal] <= Factor * Best[goal]
        BY <1>1, <1>2, <1>3, <2>3, <3>1, <3>3, <4>1, TopIsGood
      <4> QED  BY <1>2, <1>4, <2>1, <3>1, <4>1, <4>2 DEF ClosedInv
    <3> QED  BY <3>2, <3>3
  <2>4. NoParentCycle'
    BY <1>3, <2>1 DEF NoParentCycle
  <2>5. start' \in DOMAIN dist'
    BY <1>2, <2>1
  <2> QED  BY <1>4, <2>2, <2>3, <2>4, <2>5 DEF CostInv
<1>6. CASE x[2] \notin visited \cup {goal}
  <2>1. Relax(x[2], Popped(x))
    BY <1>1, <1>6
  <2>2. CostInv'
    BY <1>1, <1>2, <1>6, <2>1, ExpandCosts
  <2>3. start' \in DOMAIN dist'
    BY <1>2, <2>1 DEF Relax
  <2> QED  BY <2>2, <2>3
<1> QED  BY <1>5, <1>6

LEMMA CostsKept ==
  ASSUME CostInv, UNCHANGED searchVars
  PROVE  CostInv'
<1>1. UNCHANGED <<start, goal, alpha, dist, parent, visited, pq>>
  BY DEF searchVars
<1>2. /\ Best' = Best /\ Factor' = Factor /\ Guided' = Guided
      /\ \A v : Priority(v, dist[v])' = Priority(v, dist[v])
  BY <1>1 DEF Best, Factor, Guided, Priority
<1>3. QueueInv'
  BY <1>1, <1>2 DEF CostInv, QueueInv
<1>4. Guided => ClosedInv'
  BY <1>1, <1>2 DEF CostInv, ClosedInv
<1> QED  BY <1>1, <1>2, <1>3, <1>4 DEF CostInv, NoParentCycle

(* When the search has ended, what it returns is within Factor of the      *)
(* least; if nothing is left in the queue and the goal is not closed, then *)
(* no node is left that is not, and there is no way to the goal.           *)
LEMMA SearchEnds ==
  ASSUME SearchInv, CostInv, start \in DOMAIN dist, ~Searching
  PROVE  /\ Guided => GoodCost(start, goal, alpha, Cost)
         /\ Cost > 0 => goal \in DOMAIN Best /\ Best[goal] \in Nat /\ Best[goal] <= Cost
<1>1. /\ QueueInv /\ (Guided => ClosedInv) /\ SearchTypes
      /\ IsBest(start, Best) /\ Best \in [DOMAIN Best -> Nat] /\ DOMAIN Best \subseteq Nodes
  BY BestFacts DEF CostInv, SearchInv
<1>2. ASSUME goal \in DOMAIN dist
      PROVE  Cost = dist[goal] /\ dist[goal] \in Nat /\ goal \in DOMAIN Best /\ Best[goal] \in Nat /\ Best[goal] <= Cost
  BY <1>1, <1>2 DEF Cost, QueueInv, SearchTypes
<1>3. ASSUME goal \notin DOMAIN dist PROVE Cost = -1
  BY <1>3 DEF Cost
<1>4. ASSUME Guided PROVE GoodCost(start, goal, alpha, Cost)
  <2>1. ClosedInv
    BY <1>1, <1>4
  <2>2. CASE goal \in visited
    <3>1. goal \in DOMAIN dist /\ 100 * dist[goal] <= Factor * Best[goal]
      BY <1>1, <2>1, <2>2 DEF QueueInv, ClosedInv
    <3> QED  BY <1>2, <3>1 DEF GoodCost, Best, Factor
  <2>3. CASE goal \notin visited
    <3>1. pq = {}
      BY <2>3 DEF Searching
    <3>2. DOMAIN dist = visited
      BY <1>1, <3>1 DEF QueueInv
    <3>3. \A e \in Edges : e.from \in visited => e.to \in visited
      BY <2>1, <2>3, <3>2 DEF ClosedInv
    <3>4. visited \in SUBSET Nodes /\ start \in visited
      BY <1>1, <3>2 DEF SearchTypes
    <3>5. DOMAIN Best \subseteq visited
      BY <1>1, <3>3, <3>4 DEF IsBest
    <3> QED  BY <1>3, <2>3, <3>2, <3>5 DEF GoodCost, Best
  <2> QED  BY <2>2, <2>3
<1> QED  BY <1>2, <1>3, <1>4

(* A node from which the way back would not end would have a parent of its *)
(* kind.                                                                   *)
LEMMA ChainFrom ==
  ASSUME NEW Addr, NEW null, NEW next, NEW a, NEW s, IsChain(Addr, null, next, a, s),
         NEW i \in 1 .. Len(s)
  PROVE  \E t : IsChain(Addr, null, next, s[i], t)
<1> DEFINE m == Len(s) - i + 1
           t == [j \in 1 .. m |-> s[i + j - 1]]
<1>1. s \in Seq(Addr) /\ Len(s) \in Nat
  BY LenProperties DEF IsChain
<1>2. m \in Nat /\ i \in Nat /\ \A j \in 1 .. m : i + j - 1 \in 1 .. Len(s) /\ s[i + j - 1] \in Addr
  BY <1>1, ElementOfSeq
<1>3. t \in Seq(Addr) /\ Len(t) = m
  <2>1. \A j \in 1 .. m : s[i + j - 1] \in Addr
    BY <1>2
  <2> HIDE DEF m
  <2>2. t \in [1 .. m -> Addr]
    BY <2>1
  <2>3. m \in Nat
    BY <1>2
  <2> HIDE DEF t
  <2>4. t \in Seq(Addr)
    BY <2>2, <2>3, SeqDef
  <2> QED  BY <2>2, <2>3, <2>4, LenProperties
<1>4. \A j \in 1 .. m : t[j] = s[i + j - 1]
  OBVIOUS
<1>5. \A j \in Nat : j \notin 1 .. m => j < 1 \/ i + j - 1 > Len(s)
  BY <1>1
<1> HIDE DEF t
<1>6. ASSUME NEW j \in Nat \ {0} PROVE Nth(t, j, null) = Nth(s, i + j - 1, null)
  <2>1. CASE j \in 1 .. m
    BY <2>1, <1>2, <1>3, <1>4 DEF Nth
  <2>2. CASE j \notin 1 .. m
    <3>1. i + j - 1 \notin 1 .. Len(s)
      BY <2>2, <1>1, <1>5
    <3> QED  BY <2>2, <3>1, <1>3 DEF Nth
  <2> QED  BY <2>1, <2>2
<1>7. \A j, k \in 1 .. m : t[j] = t[k] => j = k
  <2> TAKE j, k \in 1 .. m
  <2> HAVE t[j] = t[k]
  <2>1. s[i + j - 1] = s[i + k - 1] /\ i + j - 1 \in 1 .. Len(s) /\ i + k - 1 \in 1 .. Len(s)
    BY <1>2, <1>4
  <2>2. i + j - 1 = i + k - 1
    BY <2>1 DEF IsChain
  <2> QED  BY <2>2, <1>2
<1>8. s[i] = Nth(t, 1, null)
  <2>1. Nth(t, 1, null) = Nth(s, i + 1 - 1, null) /\ i + 1 - 1 = i
    BY <1>2, <1>6
  <2> QED  BY <2>1 DEF Nth
<1>9. ASSUME NEW j \in 1 .. m PROVE next[t[j]] = Nth(t, j + 1, null)
  <2>1. next[s[i + j - 1]] = Nth(s, (i + j - 1) + 1, null)
    BY <1>2 DEF IsChain
  <2>2. (i + j - 1) + 1 = i + (j + 1) - 1 /\ j + 1 \in Nat \ {0}
    BY <1>2
  <2> QED  BY <2>1, <2>2, <1>4, <1>6
<1>10. IsChain(Addr, null, next, s[i], t)
  BY <1>3, <1>7, <1>8, <1>9 DEF IsChain
<1> QED  BY <1>10

LEMMA WaysBackEnd ==
  ASSUME SearchTypes, NoParentCycle
  PROVE  WalksBackEnd
<1> DEFINE Ends(v) == \E s : IsChain(Nodes, -1, parent, v, s)
           S == {v \in Nodes : ~Ends(v)}
<1>1. parent \in [Nodes -> Nodes \cup {-1}] /\ -1 \notin Nodes /\ IsFiniteSet(Nodes) /\ Cardinality(Nodes) = n
  BY NodesFacts DEF SearchTypes
<1>2. Ends(-1)
  <2>1. IsChain(Nodes, -1, parent, -1, <<>>)
    <3>1. <<>> \in Seq(Nodes) /\ Len(<<>>) = 0
      BY EmptySeq
    <3>2. -1 = Nth(<<>>, 1, -1)
      BY <3>1 DEF Nth
    <3> QED  BY <3>1, <3>2 DEF IsChain
  <2> QED  BY <2>1
<1>3. ASSUME NEW v \in Nodes, Ends(parent[v]) PROVE Ends(v)
  <2>1. PICK s : IsChain(Nodes, -1, parent, parent[v], s)
    BY <1>3
  <2>2. CASE \E i \in 1 .. Len(s) : s[i] = v
    BY <2>1, <2>2, ChainFrom
  <2>3. CASE ~ \E i \in 1 .. Len(s) : s[i] = v
    <3>1. IsChain(Nodes, -1, parent, v, <<v>> \o s)
      BY <2>1, <2>3, ChainPushed
    <3> QED  BY <3>1
  <2> QED  BY <2>2, <2>3
<1> HIDE DEF Ends
<1>4. S = {}
  <2> SUFFICES ASSUME S # {} PROVE FALSE
    OBVIOUS
  <2>1. PICK v \in S : parent[v] \notin S
    BY DEF NoParentCycle
  <2>2. Ends(parent[v])
    BY <1>1, <1>2, <2>1
  <2> QED  BY <1>3, <2>1, <2>2
<1>5. ASSUME NEW v \in Nodes PROVE Len(Back(v)) <= n
  <2>1. PICK s : IsChain(Nodes, -1, parent, v, s)
    BY <1>4 DEF Ends
  <2>2. Back(v) = s
    BY <1>1, <2>1, ChainIs DEF Back
  <2>3. s \in Seq(Nodes) /\ \A i, j \in 1 .. Len(s) : s[i] = s[j] => i = j
    BY <2>1 DEF IsChain
  <2> QED  BY <1>1, <2>2, <2>3, ChainIsShort
<1> QED  BY <1>5 DEF WalksBackEnd
-----------------------------------------------------------------------------
(* The cells: an alpha is never negative, and no mean is below 1.          *)
CellsInv ==
  /\ cells_ \in [Cells -> [sumRatio : Int, count : Nat, alpha : Nat]]
  /\ ExcessNeverNegative

(* A search knows its start, and one that verifies is about a route that   *)
(* costs at least the least.                                               *)
WorkInv ==
  /\ Working => start \in DOMAIN dist
  /\ pc = "verifying" =>
       /\ alpha = 0 /\ goal \in DOMAIN Best /\ Best[goal] <= result.cost
       /\ Consistent => GoodCost(start, goal, result.alphaUsed, result.cost)

StoreInv ==
  Consistent =>
    \A q \in Queries :
      Found(q[1], q[2]) =>
        LET r == store_[Key(q[1], q[2])]
        IN  GoodCost(q[1], q[2], r.alphaUsed, r.cost)

RouteInv == IInv /\ CostInv /\ CellsInv /\ WorkInv /\ StoreInv

-----------------------------------------------------------------------------
LEMMA CellOfPlace ==
  ASSUME NEW x \in Int, NEW y \in Int
  PROVE  cellIdx(x, y) \in Cells
<1> DEFINE p == ((x - latMin_) * gridH_) \div (latMax_ - latMin_)
           q == ((y - lonMin_) * gridW_) \div (lonMax_ - lonMin_)
           r == AtLeast(AtMost(p, gridH_ - 1), 0)
           c == AtLeast(AtMost(q, gridW_ - 1), 0)
<1>1. gridH_ \in Nat /\ gridW_ \in Nat /\ gridH_ > 0 /\ gridW_ > 0
  BY SelectorAssumption
<1>2. p \in Int
  <2>1. (x - latMin_) * gridH_ \in Int /\ latMax_ - latMin_ \in Nat \ {0}
    BY SelectorAssumption
  <2> QED  BY <2>1
<1>3. q \in Int
  <2>1. (y - lonMin_) * gridW_ \in Int /\ lonMax_ - lonMin_ \in Nat \ {0}
    BY SelectorAssumption
  <2> QED  BY <2>1
<1>4. cellIdx(x, y) = r * gridW_ + c
  BY DEF cellIdx
<1> HIDE DEF p, q
<1>5. r \in 0 .. gridH_ - 1 /\ c \in 0 .. gridW_ - 1
  BY <1>1, <1>2, <1>3 DEF AtLeast, AtMost
<1> HIDE DEF r, c
<1>6. gridW_ * r \in Nat /\ gridW_ * r <= gridW_ * (gridH_ - 1) /\ gridW_ * (gridH_ - 1) = gridW_ * gridH_ - gridW_ * 1
  BY <1>1, <1>5, Times
<1>7. gridW_ * gridH_ \in Int
  BY <1>1
<1>8. r * gridW_ = gridW_ * r
  BY <1>1, <1>5
<1> QED  BY <1>1, <1>4, <1>5, <1>6, <1>7, <1>8 DEF Cells

LEMMA PlaceOfNode ==
  ASSUME NEW s \in Nodes
  PROVE  lat[s] \in Int /\ lon[s] \in Int /\ cellIdx(lat[s], lon[s]) \in Cells
<1>1. lat[s] \in Int /\ lon[s] \in Int
  BY ServerAssumption, SelectorAssumption
<1> QED  BY <1>1, CellOfPlace

LEMMA AlphaIsNat ==
  ASSUME CellsInv, NEW s \in Nodes
  PROVE  selectAlpha(lat[s], lon[s]) \in Nat
<1>1. cellIdx(lat[s], lon[s]) \in Cells
  BY PlaceOfNode
<1> QED  BY <1>1 DEF CellsInv, selectAlpha

LEMMA AdaptedIsNat ==
  ASSUME NEW c, c.alpha \in Nat
  PROVE  Adapted(c) \in Nat
BY DEF Adapted, AtMost, AtLeast

(* An observation of at least 1 keeps the mean at 1 or above.              *)
LEMMA ObserveCells ==
  ASSUME CellsInv, NEW s \in Nodes, NEW ratio \in Int, ratio >= One,
         observe(lat[s], lon[s], ratio)
  PROVE  CellsInv'
<1> DEFINE i == cellIdx(lat[s], lon[s])
           o == cells_[i]
           c == [o EXCEPT !.sumRatio = @ + ratio, !.count = @ + 1]
           d == [c EXCEPT !.alpha = Adapted(c)]
<1>1. i \in Cells
  BY PlaceOfNode
<1>2. cells_' = [cells_ EXCEPT ![i] = d]
  BY DEF observe
<1>3. /\ cells_ \in [Cells -> [sumRatio : Int, count : Nat, alpha : Nat]]
      /\ \A j \in Cells : Excess(cells_[j]) >= 0
  BY DEF CellsInv, ExcessNeverNegative
<1> HIDE DEF i
<1>4. o \in [sumRatio : Int, count : Nat, alpha : Nat] /\ Excess(o) >= 0
  BY <1>1, <1>3
<1> HIDE DEF o
<1>5. /\ c \in [sumRatio : Int, count : Nat, alpha : Nat]
      /\ c.sumRatio = o.sumRatio + ratio /\ c.count = o.count + 1
  <2> DEFINE a == o.sumRatio + ratio
             b == o.count + 1
  <2>1. a \in Int /\ b \in Nat
    BY <1>4
  <2>2. c = [o EXCEPT !.sumRatio = a, !.count = b]
    OBVIOUS
  <2> HIDE DEF a, b
  <2>3. c \in [sumRatio : Int, count : Nat, alpha : Nat] /\ c.sumRatio = a /\ c.count = b
    BY <1>4, <2>1, <2>2
  <2> QED  BY <2>3 DEF a, b
<1> HIDE DEF c
<1>6. Adapted(c) \in Nat
  BY <1>5, AdaptedIsNat
<1>7. /\ d \in [sumRatio : Int, count : Nat, alpha : Nat]
      /\ d.sumRatio = c.sumRatio /\ d.count = c.count
  BY <1>5, <1>6
<1> HIDE DEF d
<1>8. Excess(d) >= 0
  <2>1. o.sumRatio \in Int /\ o.count \in Nat /\ o.sumRatio - 1000 * o.count >= 0
    BY <1>4 DEF Excess, One
  <2>2. d.sumRatio = o.sumRatio + ratio /\ d.count = o.count + 1 /\ ratio >= 1000
    BY <1>5, <1>7 DEF One
  <2>3. d.sumRatio - 1000 * d.count >= 0
    BY <2>1, <2>2
  <2> QED  BY <2>3 DEF Excess, One
<1>9. cells_' \in [Cells -> [sumRatio : Int, count : Nat, alpha : Nat]]
  BY <1>1, <1>2, <1>3, <1>7
<1>10. \A j \in Cells : Excess(cells_'[j]) >= 0
  BY <1>1, <1>2, <1>3, <1>8
<1>11. ExcessNeverNegative'
  BY <1>10 DEF ExcessNeverNegative, Excess
<1> QED  BY <1>9, <1>11 DEF CellsInv

LEMMA Division ==
  ASSUME NEW a \in Nat, NEW c \in Nat, c > 0
  PROVE  a \div c \in Int /\ a = c * (a \div c) + (a % c) /\ a % c \in 0 .. c - 1
OBVIOUS

(* What was verified costs at least what the search with alpha 0 finds.    *)
LEMMA RatioIsOne ==
  ASSUME SearchInv, CostInv, WorkInv, pc = "verifying", ~Searching, result.cost \in Nat
  PROVE  CostRatio \in Int /\ CostRatio >= One
<1>1. start \in DOMAIN dist /\ alpha = 0 /\ goal \in DOMAIN Best /\ Best[goal] <= result.cost
  BY DEF WorkInv, Working
<1>2. GoodCost(start, goal, alpha, Cost) /\ Cost \in Int
  BY <1>1, SearchEnds, CostType DEF Guided, SearchInv
<1>3. CASE Cost <= 0
  BY <1>3 DEF CostRatio, One
<1>4. CASE ~(Cost <= 0)
  <2>1. Best[goal] \in Nat
    BY <1>1, BestFacts DEF SearchInv
  <2>2. 100 * Cost <= 100 * Best[goal]
    BY <1>1, <1>2 DEF GoodCost, Best
  <2> DEFINE c == Cost
             r == result.cost
  <2>3. c \in Nat /\ c > 0 /\ r \in Nat /\ c <= r
    BY <1>1, <1>2, <1>4, <2>1, <2>2
  <2>4. CostRatio = (r * 1000) \div c
    BY <1>4 DEF CostRatio, One
  <2> HIDE DEF c, r
  <2>5. (r * 1000) \div c \in Int /\ (r * 1000) \div c >= 1000
    <3> DEFINE a == r * 1000
               k == a \div c
    <3>1. a \in Nat /\ a >= 1000 * c
      BY <2>3
    <3> HIDE DEF a
    <3>2. k \in Int /\ a = c * k + (a % c) /\ a % c \in 0 .. c - 1
      BY <2>3, <3>1, Division
    <3> HIDE DEF k
    <3>3. SUFFICES ASSUME k <= 999 PROVE FALSE
      BY <3>2 DEF k, a
    <3>4. c * k <= c * 999 /\ c * k \in Int
      BY <2>3, <3>2, <3>3, Times
    <3> QED  BY <2>3, <3>1, <3>2, <3>4
  <2> QED  BY <2>4, <2>5 DEF One
<1> QED  BY <1>3, <1>4

LEMMA KeysDiffer ==
  ASSUME NEW s \in Nodes, NEW g \in Nodes, NEW q \in Queries, Key(q[1], q[2]) = Key(s, g)
  PROVE  q[1] = s /\ q[2] = g
<1> DEFINE a == q[1]
           b == q[2]
<1>1. a \in Nodes /\ b \in Nodes /\ Shift \in Nat /\ n <= Shift /\ n \in Nat
  BY ServerAssumption, CacheAssumption, RouterAssumption
<1>2. a * Shift + b = s * Shift + g
  BY DEF Key
<1>3. /\ a \in Nat /\ s \in Nat /\ b \in 0 .. Shift - 1 /\ g \in 0 .. Shift - 1
  BY <1>1 DEF Nodes
<1> HIDE DEF a, b
<1>4. /\ Shift * (a - s) = Shift * a - Shift * s /\ Shift * (s - a) = Shift * s - Shift * a
      /\ Shift * a \in Int /\ Shift * s \in Int /\ Shift * a = a * Shift /\ Shift * s = s * Shift
  BY <1>1, <1>3, Times
<1>5. CASE a < s
  <2>1. Shift * 1 <= Shift * (s - a)
    BY <1>1, <1>3, <1>5, Times
  <2> QED  BY <2>1, <1>1, <1>2, <1>3, <1>4
<1>6. CASE s < a
  <2>1. Shift * 1 <= Shift * (a - s)
    BY <1>1, <1>3, <1>6, Times
  <2> QED  BY <2>1, <1>1, <1>2, <1>3, <1>4
<1>7. CASE a = s
  BY <1>1, <1>2, <1>3, <1>4, <1>7 DEF a, b
<1> QED  BY <1>3, <1>5, <1>6, <1>7

(* A response keeps the cache right if what it stores is right.            *)
LEMMA RespondGood ==
  ASSUME IInv, StoreInv, NEW r, Respond(r),
         Consistent /\ r.cost > 0 => GoodCost(start, goal, r.alphaUsed, r.cost)
  PROVE  StoreInv'
<1>1. CASE ~(r.cost > 0)
  <2>1. store_' = store_
    BY <1>1 DEF Respond
  <2> QED  BY <2>1 DEF StoreInv, Found
<1>2. CASE r.cost > 0
  <2> SUFFICES ASSUME Consistent, NEW q \in Queries, Key(q[1], q[2]) \in DOMAIN store_'
               PROVE  GoodCost(q[1], q[2], store_'[Key(q[1], q[2])].alphaUsed, store_'[Key(q[1], q[2])].cost)
    BY DEF StoreInv, Found
  <2> DEFINE new == Key(start, goal)
             k == Key(q[1], q[2])
  <2>1. store_' = [j \in DOMAIN store_ \cup {new} |-> IF j = new THEN r ELSE store_[j]]
    BY <1>2 DEF Respond, Put
  <2>2. start \in Nodes /\ goal \in Nodes
    BY DEF IInv, SearchInv, SearchTypes
  <2>3. CASE k = new
    <3>1. q[1] = start /\ q[2] = goal
      BY <2>2, <2>3, KeysDiffer
    <3>2. store_'[k] = r
      BY <2>1, <2>3
    <3> QED  BY <3>1, <3>2, <1>2
  <2>4. CASE k # new
    <3>1. k \in DOMAIN store_ /\ store_'[k] = store_[k]
      BY <2>1, <2>4
    <3> QED  BY <3>1 DEF StoreInv, Found
  <2> QED  BY <2>3, <2>4
<1> QED  BY <1>1, <1>2

LEMMA StoreKept == ASSUME StoreInv, store_' = store_ PROVE StoreInv'
BY DEF StoreInv, Found

LEMMA CellsKept == ASSUME CellsInv, cells_' = cells_ PROVE CellsInv'
BY DEF CellsInv, ExcessNeverNegative

(* Nothing the work in progress depends on has changed, or there is none.  *)
LEMMA WorkKept ==
  ASSUME WorkInv, UNCHANGED <<pc, result, start, goal, alpha>>,
         Working => start' \in DOMAIN dist'
  PROVE  WorkInv'
<1>1. Best' = Best
  BY DEF Best
<1> QED  BY <1>1 DEF WorkInv, Working

LEMMA NoWork == ASSUME pc' \in {"reading", "stopped"} PROVE WorkInv'
BY DEF WorkInv, Working

Extra == CostInv /\ CellsInv /\ WorkInv /\ StoreInv

LEMMA RouteInit == ServerInit => RouteInv
<1> SUFFICES ASSUME ServerInit PROVE RouteInv
  OBVIOUS
<1>1. IInv
  BY InitInv
<1>2. /\ start = 0 /\ goal = 0 /\ alpha = 0 /\ DOMAIN dist = {} /\ visited = {} /\ pq = {}
      /\ parent = [v \in Nodes |-> -1] /\ pc = "reading" /\ DOMAIN store_ = {}
      /\ cells_ = [c \in Cells |-> [sumRatio |-> 0, count |-> 0, alpha |-> 100]]
  BY DEF ServerInit, SelectorInit, CacheInit
<1>3. CostInv
  BY <1>2, NoParents DEF CostInv, QueueInv, ClosedInv, NoParentCycle
<1>4. CellsInv
  BY <1>2 DEF CellsInv, ExcessNeverNegative, Excess, One
<1>5. WorkInv /\ StoreInv
  BY <1>2 DEF WorkInv, Working, StoreInv, Found
<1> QED  BY <1>1, <1>3, <1>4, <1>5 DEF RouteInv

LEMMA RouteStep ==
  ASSUME RouteInv, [ServerNext]_serverVars
  PROVE  RouteInv'
<1>1. IInv /\ IInv' /\ SearchInv /\ CostInv /\ CellsInv /\ WorkInv /\ StoreInv
  BY StepInv DEF RouteInv, IInv
<1>2. ASSUME UNCHANGED searchVars, cells_' = cells_, store_' = store_,
             (pc' = pc /\ result' = result) \/ pc' = "stopped"
      PROVE  Extra'
  <2>1. CostInv' /\ CellsInv' /\ StoreInv'
    BY <1>1, <1>2, CostsKept, CellsKept, StoreKept
  <2>2. UNCHANGED <<start, goal, alpha, dist>>
    BY <1>2 DEF searchVars
  <2>3. WorkInv'
    <3>1. CASE pc' = pc /\ result' = result
      <4>1. Working => start' \in DOMAIN dist'
        BY <1>1, <2>2 DEF WorkInv
      <4> QED  BY <1>1, <2>2, <3>1, <4>1, WorkKept
    <3>2. CASE pc' = "stopped"
      BY <3>2, NoWork
    <3> QED  BY <1>2, <3>1, <3>2
  <2> QED  BY <2>1, <2>3 DEF Extra
<1>3. ASSUME NEW s \in Nodes, NEW g \in Nodes, Hit(s, g)
      PROVE  Extra'
  BY <1>2, <1>3 DEF Hit
<1>4. ASSUME NEW s \in Nodes, NEW g \in Nodes, Miss(s, g)
      PROVE  Extra'
  <2>1. Begin(s, g, selectAlpha(lat[s], lon[s])) /\ pc' = "routing" /\ cells_' = cells_ /\ store_' = store_
    BY <1>4 DEF Miss
  <2>2. selectAlpha(lat[s], lon[s]) \in Nat
    BY <1>1, AlphaIsNat
  <2>3. CostInv' /\ start' \in DOMAIN dist'
    BY <2>1, <2>2, BeginCosts
  <2>4. WorkInv'
    BY <2>1, <2>3 DEF WorkInv
  <2> QED  BY <1>1, <2>1, <2>3, <2>4, CellsKept, StoreKept DEF Extra
<1>5. ASSUME Turn
      PROVE  Extra'
  <2>1. SearchStep /\ pc' = pc /\ result' = result /\ cells_' = cells_ /\ store_' = store_ /\ Working
    BY <1>5 DEF Turn, cacheVars, Working
  <2>2. CostInv' /\ start' \in DOMAIN dist'
    BY <1>1, <2>1, TurnCosts DEF WorkInv
  <2>3. WorkInv'
    <3>1. UNCHANGED <<start, goal, alpha>>
      BY <2>1 DEF SearchStep
    <3> QED  BY <1>1, <2>1, <2>2, <3>1, WorkKept
  <2> QED  BY <1>1, <2>1, <2>2, <2>3, CellsKept, StoreKept DEF Extra
<1>6. ASSUME RespondUnverified
      PROVE  Extra'
  <2>1. /\ pc = "routing" /\ ~Searching /\ Respond(Route(alpha)) /\ pc' = "reading"
        /\ UNCHANGED searchVars /\ cells_' = cells_
    BY <1>6 DEF RespondUnverified, Respond
  <2>2. Consistent => GoodCost(start, goal, Route(alpha).alphaUsed, Route(alpha).cost)
    BY <1>1, <2>1, SearchEnds DEF WorkInv, Working, Guided, Route
  <2>3. StoreInv'
    BY <1>1, <2>1, <2>2, RespondGood
  <2> QED  BY <1>1, <2>1, <2>3, CostsKept, CellsKept, NoWork DEF Extra
<1>7. ASSUME Verify
      PROVE  Extra'
  <2>1. /\ pc = "routing" /\ ~Searching /\ Cost > 0 /\ result' = Route(alpha)
        /\ Begin(start, goal, 0) /\ pc' = "verifying" /\ cells_' = cells_ /\ store_' = store_
    BY <1>7 DEF Verify, cacheVars
  <2>2. start \in Nodes /\ goal \in Nodes
    BY <1>1 DEF SearchInv, SearchTypes
  <2>3. CostInv' /\ start' \in DOMAIN dist'
    BY <2>1, <2>2, BeginCosts
  <2>4. start' = start /\ goal' = goal /\ alpha' = 0 /\ Best' = Best
    BY <2>1 DEF Begin, Best
  <2>5. /\ Consistent => GoodCost(start, goal, alpha, Cost)
        /\ goal \in DOMAIN Best /\ Best[goal] <= Cost
    BY <1>1, <2>1, SearchEnds DEF WorkInv, Working, Guided
  <2>6. result'.alphaUsed = alpha /\ result'.cost = Cost
    BY <2>1 DEF Route
  <2>7. WorkInv'
    BY <2>1, <2>3, <2>4, <2>5, <2>6 DEF WorkInv
  <2> QED  BY <1>1, <2>1, <2>3, <2>7, CellsKept, StoreKept DEF Extra
<1>8. ASSUME RespondVerified
      PROVE  Extra'
  <2>1. /\ pc = "verifying" /\ ~Searching /\ observe(lat[start], lon[start], CostRatio)
        /\ Respond(result) /\ pc' = "reading" /\ UNCHANGED searchVars
    BY <1>8 DEF RespondVerified, Respond
  <2>2. start \in Nodes /\ result.cost \in Nat
    BY <1>1, <2>1 DEF SearchInv, SearchTypes, IInv, CountInv
  <2>3. CellsInv'
    BY <1>1, <2>1, <2>2, RatioIsOne, ObserveCells
  <2>4. StoreInv'
    BY <1>1, <2>1, RespondGood DEF WorkInv
  <2> QED  BY <1>1, <2>1, <2>3, <2>4, CostsKept, NoWork DEF Extra
<1>9. ASSUME Quit
      PROVE  Extra'
  BY <1>2, <1>9 DEF Quit, cacheVars
<1>10. ASSUME UNCHANGED serverVars
      PROVE  Extra'
  BY <1>2, <1>10 DEF serverVars, cacheVars
<1> QED  BY <1>1, <1>3, <1>4, <1>5, <1>6, <1>7, <1>8, <1>9, <1>10 DEF ServerNext, Extra, RouteInv

(* The searches with alpha 0 that verify() takes for the optimum are never *)
(* beaten by what they verify, so that the mean of no cell falls below 1   *)
(* (main.cpp:69-75, alpha_selector.hpp:22-24), whatever the straight lines *)
(* between the nodes: with alpha 0 the search does not look at them.       *)
THEOREM ThmExcessNeverNegative == ServerSpec => []ExcessNeverNegative
<1>1. RouteInv => ExcessNeverNegative
  BY DEF RouteInv, CellsInv
<1> QED  BY <1>1, RouteInit, RouteStep, PTL DEF ServerSpec

(* A search that has ended is within the factor that its alpha allows of   *)
(* the cheapest walk, finds no route only if there is none, and its path   *)
(* can be walked back; so is every entry of the cache within the alpha     *)
(* that it records.  This is for maps on which no road is shorter than the *)
(* straight line (FINDINGS.md:13), and any number of nodes and queries.    *)
THEOREM ThmRoutesWithinAlpha ==
  ASSUME Consistent
  PROVE  ServerSpec => []RoutesWithinAlpha
<1>1. RouteInv => RoutesWithinAlpha
  <2> SUFFICES ASSUME RouteInv PROVE RoutesWithinAlpha
    OBVIOUS
  <2>1. SearchInv /\ SearchTypes /\ CostInv /\ WorkInv /\ StoreInv /\ NoParentCycle
    BY DEF RouteInv, IInv, SearchInv, CostInv
  <2>2. ASSUME Working, ~Searching PROVE GoodCost(start, goal, alpha, Cost) /\ WalksBackEnd
    BY <2>1, <2>2, SearchEnds, WaysBackEnd DEF WorkInv, Guided
  <2> QED  BY <2>1, <2>2 DEF RoutesWithinAlpha, Working, StoreInv
<1> QED  BY <1>1, RouteInit, RouteStep, PTL DEF ServerSpec
=============================================================================
