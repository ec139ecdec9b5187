------------------------- MODULE SimulatedAnnealing -------------------------
(***************************************************************************)
(* optimization/simulated_annealing_tsp.cpp: two towns of the tour are     *)
(* swapped; a tour that is no longer is kept, a longer one may be kept or  *)
(* swapped back.  The temperature only says how likely a longer tour is    *)
(* kept, and when the program ends.                                        *)
(***************************************************************************)
EXTENDS Integers, FiniteSets, FiniteSetsExt

CONSTANTS numCities,
          dist,      \* [Cities -> [Cities -> Nat]]
          MaxTurns   \* the turns until the temperature is 1: 1379 in the code

Cities == 0 .. numCities - 1

ASSUME AnnealingAssumption ==
  numCities \in Nat \ {0} /\ MaxTurns \in Nat /\ dist \in [Cities -> [Cities -> Nat]]

VARIABLES route, currentCost, bestRoute, bestCost, turns,
          proposed   \* the costs of all routes looked at so far

annealingVars == <<route, currentCost, bestRoute, bestCost, turns, proposed>>

routeCost(r) == MapThenSumSet(LAMBDA i : dist[r[i]][r[(i + 1) % numCities]], Cities)
Swapped(r, i, j) == [r EXCEPT ![i] = r[j], ![j] = r[i]]

AnnealingInit ==
  /\ route = [i \in Cities |-> i]
  /\ currentCost = routeCost(route)
  /\ bestRoute = route /\ bestCost = currentCost
  /\ turns = 0 /\ proposed = {currentCost}

-----------------------------------------------------------------------------
(* A mistake the checks are tested with: the swap is not undone.           *)
RejectInPlace(i, j) ==
  /\ routeCost(Swapped(route, i, j)) > currentCost
  /\ route' = Swapped(route, i, j)
  /\ UNCHANGED <<currentCost, bestRoute, bestCost>>

-----------------------------------------------------------------------------
Accept(i, j) ==
  LET next == Swapped(route, i, j)
  IN  /\ route' = next
      /\ currentCost' = routeCost(next)
      /\ IF routeCost(next) < bestCost
           THEN bestRoute' = next /\ bestCost' = routeCost(next)
           ELSE UNCHANGED <<bestRoute, bestCost>>

(* Only a longer tour: exp(0) is 1, above every random number.             *)
Reject(i, j) ==
  /\ routeCost(Swapped(route, i, j)) > currentCost
  /\ UNCHANGED <<route, currentCost, bestRoute, bestCost>>

Propose ==
  /\ turns < MaxTurns
  /\ turns' = turns + 1
  /\ \E i, j \in Cities :
       /\ Accept(i, j) \/ Reject(i, j)
       /\ proposed' = proposed \cup {routeCost(Swapped(route, i, j))}

AnnealingSpec == AnnealingInit /\ [][Propose]_annealingVars

-----------------------------------------------------------------------------
(* What the program prints is a tour and its cost, and the best of all     *)
(* that were looked at, although later ones may be longer and the route is *)
(* swapped back and forth under the search.                                *)
IsTour(r) == {r[i] : i \in Cities} = Cities
BestIsBestSeen ==
  /\ IsTour(route) /\ currentCost = routeCost(route)
  /\ IsTour(bestRoute) /\ bestCost = routeCost(bestRoute)
  /\ bestCost = Min(proposed)
=============================================================================
