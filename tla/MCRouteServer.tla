--------------------------- MODULE MCRouteServer ---------------------------
(***************************************************************************)
(* Seven places on a line.  From 0 to 3 the best way (100) leads by 1; the *)
(* way by 2 (112) looks better from alpha = 1.13 on.  A search for 6 that  *)
(* has gone by 2 learns, once 3 is closed, that 3 is cheaper by 1.  4      *)
(* hangs off 0, and nothing leads to 5.  The filter's bits depend on the   *)
(* goal alone, as they do in the code where std::hash is the identity: the *)
(* size of the filter is 2^20 and the start is shifted by 20.              *)
(***************************************************************************)
EXTENDS RouteServer

X == [v \in 0 .. 6 |-> <<0, 5, 60, 100, 10, 200, 110>>[v + 1]]
Apart(x, y) == IF x < y THEN y - x ELSE x - y

MCHaversine == [p \in (0 .. 6) \X (0 .. 6) |-> Apart(X[p[1]], X[p[2]])]
MCRoads == {[a |-> 0, b |-> 1, d |-> 5], [a |-> 1, b |-> 3, d |-> 95],
            [a |-> 0, b |-> 2, d |-> 60], [a |-> 3, b |-> 2, d |-> 52],
            [a |-> 0, b |-> 4, d |-> 12], [a |-> 4, b |-> 0, d |-> 10],
            [a |-> 3, b |-> 6, d |-> 30]}
MCLon == [v \in 0 .. 6 |-> 0]
MCQueries == {<<0, 1>>, <<0, 4>>, <<4, 1>>, <<0, 3>>, <<3, 0>>, <<0, 6>>, <<0, 5>>, <<2, 2>>}
MCHash == [k \in {8 * q[1] + q[2] : q \in MCQueries} |->
             [i \in 0 .. 1 |-> ((k % 8) + 3 * i) % 8]]

ASSUME RoadsAreNotShortcuts == Consistent
=============================================================================
