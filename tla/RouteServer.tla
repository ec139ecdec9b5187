---------------------------- MODULE RouteServer ----------------------------
(***************************************************************************)
(* The loop of server/main.cpp, which reads one query per line and answers *)
(* it from the cache or by a search, and composes the router, the filter,  *)
(* the cache and the selector.  It runs in one thread: a line that is      *)
(* answered from the cache is one action, any other is as many as its      *)
(* searches have turns.  A line that is no query, names a node out of      *)
(* range or asks for the statistics changes nothing.                       *)
(***************************************************************************)
EXTENDS Router, AlphaSelector, RouteCache

CONSTANTS lat, lon,      \* of the nodes
          Queries,       \* pairs <<start, goal>> that are asked
          MaxQueries     \* bound: queries asked

ASSUME ServerAssumption ==
  /\ lat \in [Nodes -> latMin_ .. latMax_] /\ lon \in [Nodes -> lonMin_ .. lonMax_]
  /\ Queries \subseteq Nodes \X Nodes /\ n <= Shift
  /\ {Key(q[1], q[2]) : q \in Queries} \subseteq DOMAIN hash

VARIABLES pc,          \* "reading", "routing", "verifying", "stopped"
          stats,       \* the counters of Stats
          result       \* the route that is being verified

serverVars == <<searchVars, cells_, cacheVars, pc, stats, result>>

NoResult == [cost |-> -1, alphaUsed |-> 0, pathLen |-> 0]

ServerInit ==
  /\ start = 0 /\ goal = 0 /\ alpha = 0
  /\ dist = [v \in {} |-> 0] /\ parent = [v \in Nodes |-> -1]
  /\ visited = {} /\ pq = {}
  /\ SelectorInit /\ CacheInit
  /\ pc = "reading"
  /\ stats = [totalQueries |-> 0, cacheHits |-> 0, bloomFP |-> 0,
              totalNodes |-> 0, verifyCount |-> 0, suboptCount |-> 0]
  /\ result = NoResult

-----------------------------------------------------------------------------
(* A mistake the checks are tested with: every search counted as a false   *)
(* positive of the filter.                                                 *)
CountEveryMiss(s, g) == 1

-----------------------------------------------------------------------------
FalsePositives(s, g) == IF mightContain(s, g) THEN 1 ELSE 0

Accept(s, g) ==
  /\ pc = "reading" /\ stats.totalQueries < MaxQueries
  /\ <<s, g>> \in Queries

(* Answered from the cache.                                                *)
Hit(s, g) ==
  /\ Accept(s, g) /\ mightContain(s, g) /\ Found(s, g)
  /\ GetCounts(s, g)
  /\ stats' = [stats EXCEPT !.totalQueries = @ + 1, !.cacheHits = @ + 1]
  /\ UNCHANGED <<searchVars, cells_, bits_, store_, pc, result>>

Miss(s, g) ==
  /\ Accept(s, g) /\ ~(mightContain(s, g) /\ Found(s, g))
  /\ IF mightContain(s, g) THEN GetCounts(s, g) ELSE UNCHANGED <<hits_, misses_>>
  /\ stats' = [stats EXCEPT !.totalQueries = @ + 1,
                            !.bloomFP = @ + FalsePositives(s, g)]
  /\ Begin(s, g, selectAlpha(lat[s], lon[s]))
  /\ pc' = "routing"
  /\ UNCHANGED <<cells_, bits_, store_, result>>

Turn == /\ pc \in {"routing", "verifying"} /\ SearchStep
        /\ UNCHANGED <<cells_, cacheVars, pc, stats, result>>

(* The cache store, for r.cost > 0, and the response.                      *)
Respond(r) ==
  /\ IF r.cost > 0 THEN BloomAdd(start, goal) /\ Put(start, goal, r)
                   ELSE UNCHANGED <<bits_, store_>>
  /\ pc' = "reading" /\ result' = NoResult
  /\ UNCHANGED <<hits_, misses_>>

Route(a) == [cost |-> Cost, alphaUsed |-> a, pathLen |-> PathLen]
CountNodes == [stats EXCEPT !.totalNodes = @ + Cardinality(visited)]

RespondUnverified ==
  /\ pc = "routing" /\ ~Searching
  /\ stats' = CountNodes
  /\ Respond(Route(alpha))
  /\ UNCHANGED <<searchVars, cells_>>

(* The 5% that are verified: verify() runs the search again with alpha 0.  *)
Verify ==
  /\ pc = "routing" /\ ~Searching /\ Cost > 0
  /\ result' = Route(alpha)
  /\ stats' = CountNodes
  /\ Begin(start, goal, 0)
  /\ pc' = "verifying"
  /\ UNCHANGED <<cells_, cacheVars>>

CostRatio == IF Cost <= 0 THEN One ELSE (result.cost * One) \div Cost

RespondVerified ==
  /\ pc = "verifying" /\ ~Searching
  /\ stats' = [stats EXCEPT !.verifyCount = @ + 1,
                            !.suboptCount = @ + IF CostRatio > One + 1 THEN 1 ELSE 0]
  /\ observe(lat[start], lon[start], CostRatio)
  /\ Respond(result)
  /\ UNCHANGED searchVars

(* "quit" or the end of the input.                                         *)
Quit == /\ pc = "reading" /\ pc' = "stopped"
        /\ UNCHANGED <<searchVars, cells_, cacheVars, stats, result>>

ServerNext == \/ \E s, g \in Nodes : Hit(s, g) \/ Miss(s, g)
              \/ Turn \/ RespondUnverified \/ Verify \/ RespondVerified
              \/ Quit

(* Nobody has to ask, but the thread goes on with what it was asked.       *)
Compute == Turn \/ RespondUnverified \/ RespondVerified
ServerSpec == ServerInit /\ [][ServerNext]_serverVars /\ WF_serverVars(Compute)

-----------------------------------------------------------------------------
(* What the server finds and what it keeps: a search that has ended, with  *)
(* the alpha of the cell or with the 0 of verify, and every entry of the   *)
(* cache under the alpha it records, is right for its own start and goal;  *)
(* the path it comes with can be walked back.                              *)
(* Colliding keys, a closed node that should have been opened again or an  *)
(* alpha stored with the wrong route would break it.                       *)
RoutesWithinAlpha ==
  /\ pc \in {"routing", "verifying"} /\ ~Searching =>
       GoodCost(start, goal, alpha, Cost) /\ WalksBackEnd
  /\ \A q \in Queries :
       Found(q[1], q[2]) =>
         LET r == store_[Key(q[1], q[2])]
         IN  GoodCost(q[1], q[2], r.alphaUsed, r.cost)

(* A query once answered with a route is answered with the same route ever *)
(* after, whatever alpha its cell has come to: the filter lets no repeated *)
(* query by (cache.hpp:13), so no entry is replaced or lost.               *)
AnswersRepeat ==
  [][\A k \in DOMAIN store_ : k \in DOMAIN store_' /\ store_'[k] = store_[k]]_serverVars

(* What printStats divides by is not zero once there has been a query      *)
(* (main.cpp:49-53), its percentages are at most 100, the counts of main   *)
(* and of the cache agree, and no route is verified twice.                 *)
Accounting ==
  /\ stats.totalQueries > 0 => stats.cacheHits < stats.totalQueries
  /\ stats.cacheHits = hits_ /\ stats.bloomFP = misses_
  /\ stats.cacheHits + stats.bloomFP <= stats.totalQueries
  /\ stats.totalNodes <= n * (stats.totalQueries - stats.cacheHits)
  /\ stats.suboptCount <= stats.verifyCount
  /\ stats.verifyCount <= Cardinality(DOMAIN store_)

(* No observation is below 1.0: the search with alpha = 0 that verify()    *)
(* takes for the optimum is never beaten by the one it verifies.  So good  *)
(* observations cannot pay in advance for bad ones.                        *)
ExcessNeverNegative == \A i \in Cells : Excess(cells_[i]) >= 0

(* Every query that was accepted is answered: both searches end.           *)
QueryAnswered == pc \in {"routing", "verifying"} ~> pc = "reading"
=============================================================================
