---------------------------- MODULE CausalClocks ----------------------------
(***************************************************************************)
(* The class VectorClock of distributed_systems/vector_clocks.cpp, one     *)
(* clock per node.  A merge takes the clock that the other node had at any *)
(* event of its past: main merges at once, a program with real messages    *)
(* would merge late, twice or out of order.                                *)
(***************************************************************************)
EXTENDS Integers, Sequences

CONSTANTS numNodes,
          MaxEvents   \* bound: ticks and merges

ASSUME ClockAssumption == numNodes \in Nat \ {0} /\ MaxEvents \in Nat

NodeIds == 0 .. numNodes - 1

VARIABLES clock,    \* per node
          events,   \* what has happened: [clock, past], with the clock after
                    \* the event and the earlier events that led to it
          known     \* per node: its own events and all that led to them

clockVars == <<clock, events, known>>

ClockInit == /\ clock = [p \in NodeIds |-> [q \in NodeIds |-> 0]]
             /\ events = <<>>
             /\ known = [p \in NodeIds |-> {}]

-----------------------------------------------------------------------------
(* A mistake the checks are tested with: a merge that is no event.         *)
ReceivedUnticked(p, e) ==
  [q \in NodeIds |-> LET own == clock[p][q]  other == events[e].clock[q]
                     IN  IF own > other THEN own ELSE other]

-----------------------------------------------------------------------------
Happen(p, c, past) ==
  /\ Len(events) < MaxEvents
  /\ clock' = [clock EXCEPT ![p] = c]
  /\ events' = Append(events, [clock |-> c, past |-> past])
  /\ known' = [known EXCEPT ![p] = past \cup {Len(events) + 1}]

Ticked(p, c) == [c EXCEPT ![p] = @ + 1]

tick(p) == Happen(p, Ticked(p, clock[p]), known[p])

(* The greater of the two, entry by entry, and a tick of one's own.        *)
Received(p, e) ==
  Ticked(p, [q \in NodeIds |-> IF clock[p][q] > events[e].clock[q]
                               THEN clock[p][q] ELSE events[e].clock[q]])

merge(p, e) == Happen(p, Received(p, e), known[p] \cup events[e].past \cup {e})

ClockNext == \E p \in NodeIds : tick(p) \/ \E e \in DOMAIN events : merge(p, e)

ClockSpec == ClockInit /\ [][ClockNext]_clockVars

LessEq(a, b) == \A q \in NodeIds : a[q] <= b[q]

compare(a, b) == IF LessEq(a, b) /\ LessEq(b, a) THEN "EQUAL"
                 ELSE IF LessEq(a, b) THEN "BEFORE"
                 ELSE IF LessEq(b, a) THEN "AFTER" ELSE "CONCURRENT"

-----------------------------------------------------------------------------
(* compare() tells "what happened before what" (vector_clocks.cpp:1) from  *)
(* the clocks of two events alone: BEFORE exactly when the one led to the  *)
(* other, CONCURRENT exactly when neither did, whatever was merged late or *)
(* twice.                                                                  *)
CompareIsCausality ==
  \A i, j \in DOMAIN events :
     compare(events[i].clock, events[j].clock) =
       (IF i = j THEN "EQUAL" ELSE IF i \in events[j].past THEN "BEFORE"
        ELSE IF j \in events[i].past THEN "AFTER" ELSE "CONCURRENT")
=============================================================================
