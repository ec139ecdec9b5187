---------------------------- MODULE AtomicStack ----------------------------
(***************************************************************************)
(* What a concurrent stack promises: each call takes effect at one instant *)
(* between its start and its return, a push on top, a pop of what is then  *)
(* on top, or of nothing when the stack is then empty.                     *)
(***************************************************************************)
EXTENDS Sequences

CONSTANTS Threads, Values, Nothing

VARIABLES stack,   \* the values, top first
          phase,   \* per thread: "idle", "push", "pop" (called, no effect
                   \* yet) or "done" (took effect, not returned)
          datum    \* per thread: a push's argument, a finished pop's result

vars == <<stack, phase, datum>>

Init == /\ stack = <<>>
        /\ phase = [t \in Threads |-> "idle"]
        /\ datum = [t \in Threads |-> Nothing]

Set(t, p, d) == /\ phase' = [phase EXCEPT ![t] = p]
                /\ datum' = [datum EXCEPT ![t] = d]

CallPush(t, v) == phase[t] = "idle" /\ Set(t, "push", v) /\ UNCHANGED stack

CallPop(t) == phase[t] = "idle" /\ Set(t, "pop", Nothing) /\ UNCHANGED stack

DoPush(t) == /\ phase[t] = "push"
             /\ stack' = <<datum[t]>> \o stack
             /\ Set(t, "idle", Nothing)

DoPop(t) == /\ phase[t] = "pop"
            /\ stack # <<>>
            /\ stack' = Tail(stack)
            /\ Set(t, "done", Head(stack))

DoPopEmpty(t) == /\ phase[t] = "pop"
                 /\ stack = <<>>
                 /\ Set(t, "done", Nothing)
                 /\ UNCHANGED stack

Return(t) == phase[t] = "done" /\ Set(t, "idle", Nothing) /\ UNCHANGED stack

Next == \E t \in Threads :
          \/ \E v \in Values : CallPush(t, v)
          \/ CallPop(t) \/ DoPush(t) \/ DoPop(t) \/ DoPopEmpty(t) \/ Return(t)

Spec == Init /\ [][Next]_vars
=============================================================================
