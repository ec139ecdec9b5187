--------------------------- MODULE BoundedChannel ---------------------------
(***************************************************************************)
(* What a bounded buffer promises: a first-in first-out queue that never   *)
(* holds more than capacity_ items.  BoundedBuffer implements it.          *)
(***************************************************************************)
EXTENDS Naturals, Sequences

CONSTANTS Items, capacity_

VARIABLE queue

Init == queue = <<>>

Put(x) == Len(queue) < capacity_ /\ queue' = Append(queue, x)

Take == queue # <<>> /\ queue' = Tail(queue)

Next == Take \/ \E x \in Items : Put(x)

Spec == Init /\ [][Next]_queue
=============================================================================
