-------------------------- MODULE SharedExclusive --------------------------
(***************************************************************************)
(* What a reader-writer lock promises, with no word on how: any number of  *)
(* readers are in their sections together, or one writer is alone.         *)
(* RWLock implements it.                                                   *)
(***************************************************************************)
CONSTANTS Readers, Writers

VARIABLE inside      \* the threads that are in a section

Init == inside = {}

EnterShared(r) == /\ inside \subseteq Readers
                  /\ inside' = inside \cup {r}

EnterExclusive(w) == /\ inside = {}
                     /\ inside' = {w}

Leave(t) == inside' = inside \ {t}

Next == \/ \E r \in Readers : EnterShared(r)
        \/ \E w \in Writers : EnterExclusive(w)
        \/ \E t \in inside : Leave(t)

Spec == Init /\ [][Next]_inside
=============================================================================
