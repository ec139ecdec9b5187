------------------------------- MODULE RWLock -------------------------------
(***************************************************************************)
(* The reader-writer lock of include/rw_lock.hpp (the same class is pasted *)
(* into concurrency/rw_lock.cpp).                                          *)
(*                                                                         *)
(* Every method holds the mutex mu_ from its first statement to its return *)
(* except while it sleeps in cv_.wait, and no field is touched outside     *)
(* mu_.  So the code between two points where mu_ is free is one action    *)
(* here, and mu_ itself needs no variable.  cv_.wait(lk, pred) is          *)
(*      while (!pred()) wait(lk);                                          *)
(* a thread whose predicate fails releases mu_ and sleeps in one step, may *)
(* be woken by a notification or for no reason at all (a spurious wakeup), *)
(* and, once it gets mu_ back, tests the predicate again.                  *)
(*                                                                         *)
(* The clients are threads that call the lock for ever: this module is the *)
(* lock under every legal use, that of main in rw_lock.cpp included.       *)
(***************************************************************************)
EXTENDS Integers, FiniteSets

CONSTANTS Readers,   \* threads that call lockRead / unlockRead
          Writers    \* threads that call lockWrite / unlockWrite

ASSUME ThreadsAssumption == /\ IsFiniteSet(Readers)
                            /\ IsFiniteSet(Writers)
                            /\ Readers \cap Writers = {}

Threads == Readers \cup Writers

VARIABLES readers_,          \* threads inside a read section
          writers_waiting_,  \* threads inside lockWrite
          writer_active_,    \* is a write section open?
          pc                 \* where each thread is: "out" of the lock,
                             \* "asleep" in cv_.wait, "woken" and waiting
                             \* for mu_, or "in" its section

lockVars == <<readers_, writers_waiting_, writer_active_, pc>>

LockInit == /\ readers_ = 0
            /\ writers_waiting_ = 0
            /\ writer_active_ = FALSE
            /\ pc = [t \in Threads |-> "out"]

-----------------------------------------------------------------------------
(* Mistakes one could make in the methods; each stands in for the          *)
(* definition of the same name without its suffix when the checks are      *)
(* themselves tested.                                                      *)
MayReadIgnoringWaiters == ~writer_active_
MayWriteIgnoringWriter == readers_ = 0
NotifyNobody(p) == p

-----------------------------------------------------------------------------
(* The predicates of the two waits.                                        *)
MayRead == ~writer_active_ /\ writers_waiting_ = 0
MayWrite == ~writer_active_ /\ readers_ = 0

(* cv_.notify_all: readers and writers share the one condition variable.   *)
NotifyAll(p) == [t \in Threads |-> IF p[t] = "asleep" THEN "woken" ELSE p[t]]

Sleep(t) == pc' = [pc EXCEPT ![t] = "asleep"]
Enter(t) == pc' = [pc EXCEPT ![t] = "in"]
LeaveQuietly(t) == pc' = [pc EXCEPT ![t] = "out"]
LeaveNotifying(t) == pc' = NotifyAll([pc EXCEPT ![t] = "out"])

(* lockRead, from the call or from a wakeup: both only test the predicate. *)
LockRead(r) ==
  /\ pc[r] \in {"out", "woken"}
  /\ \/ MayRead /\ readers_' = readers_ + 1 /\ Enter(r)
     \/ ~MayRead /\ Sleep(r) /\ UNCHANGED readers_
  /\ UNCHANGED <<writers_waiting_, writer_active_>>

(* unlockRead: only the last reader out notifies.                          *)
UnlockReadAlwaysQuiet(r) ==
  /\ pc[r] = "in"
  /\ readers_' = readers_ - 1
  /\ LeaveQuietly(r)
  /\ UNCHANGED <<writers_waiting_, writer_active_>>

UnlockRead(r) ==
  /\ pc[r] = "in"
  /\ readers_' = readers_ - 1
  /\ IF readers_' = 0 THEN LeaveNotifying(r) ELSE LeaveQuietly(r)
  /\ UNCHANGED <<writers_waiting_, writer_active_>>

(* lockWrite up to its first sleep or its return: a writer that need not   *)
(* wait counts itself in and out of writers_waiting_ without releasing mu_.*)
LockWrite(w) ==
  /\ pc[w] = "out"
  /\ \/ MayWrite /\ writer_active_' = TRUE /\ Enter(w) /\ UNCHANGED writers_waiting_
     \/ /\ ~MayWrite /\ Sleep(w)
        /\ writers_waiting_' = writers_waiting_ + 1
        /\ UNCHANGED writer_active_
  /\ UNCHANGED readers_

(* lockWrite after a wakeup.                                               *)
RetryWriteKeepingWait(w) ==
  /\ pc[w] = "woken"
  /\ \/ MayWrite /\ writer_active_' = TRUE /\ Enter(w)
     \/ ~MayWrite /\ Sleep(w) /\ UNCHANGED writer_active_
  /\ UNCHANGED <<readers_, writers_waiting_>>

RetryWrite(w) ==
  /\ pc[w] = "woken"
  /\ \/ /\ MayWrite /\ Enter(w)
        /\ writers_waiting_' = writers_waiting_ - 1
        /\ writer_active_' = TRUE
     \/ ~MayWrite /\ Sleep(w) /\ UNCHANGED <<writers_waiting_, writer_active_>>
  /\ UNCHANGED readers_

UnlockWrite(w) ==
  /\ pc[w] = "in"
  /\ writer_active_' = FALSE
  /\ LeaveNotifying(w)
  /\ UNCHANGED <<readers_, writers_waiting_>>

(* A condition variable may wake a sleeper for no reason.                  *)
SpuriousWakeup(t) ==
  /\ pc[t] = "asleep"
  /\ pc' = [pc EXCEPT ![t] = "woken"]
  /\ UNCHANGED <<readers_, writers_waiting_, writer_active_>>

-----------------------------------------------------------------------------
Init == LockInit

Next == \/ \E r \in Readers : LockRead(r) \/ UnlockRead(r)
        \/ \E w \in Writers : LockWrite(w) \/ RetryWrite(w) \/ UnlockWrite(w)
        \/ \E t \in Threads : SpuriousWakeup(t)

(* A thread that is inside a call, or holds the lock, keeps being          *)
(* scheduled and keeps getting mu_; nobody has to call the lock again, and *)
(* no spurious wakeup has to happen.                                       *)
Fairness ==
  /\ \A r \in Readers : /\ WF_lockVars(pc[r] = "woken" /\ LockRead(r))
                        /\ WF_lockVars(UnlockRead(r))
  /\ \A w \in Writers : WF_lockVars(RetryWrite(w)) /\ WF_lockVars(UnlockWrite(w))

Spec == Init /\ [][Next]_lockVars
FairSpec == Spec /\ Fairness

-----------------------------------------------------------------------------
(* What the lock promises.                                                 *)

Inside(S) == {t \in S : pc[t] = "in"}
InLockWrite == {w \in Writers : pc[w] \in {"asleep", "woken"}}

(* The fields hold values of their types: counters never go negative.      *)
TypeOK == /\ readers_ \in Nat
          /\ writers_waiting_ \in Nat
          /\ writer_active_ \in BOOLEAN
          /\ pc \in [Threads -> {"out", "asleep", "woken", "in"}]

(* "Concurrent reads, exclusive writes" (rw_lock.hpp:5): while a writer is *)
(* in its section no other thread, of either kind, is in one.              *)
Exclusion == \A w \in Inside(Writers) : Inside(Threads) = {w}

(* The counters say who is where, however calls and wakeups interleave: a  *)
(* missed decrement of writers_waiting_ would lock readers out for ever.   *)
CountersExact == /\ readers_ = Cardinality(Inside(Readers))
                 /\ writers_waiting_ = Cardinality(InLockWrite)
                 /\ writer_active_ <=> Inside(Writers) # {}

(* No lost wakeup: whoever sleeps has a reason to.  unlockRead notifies    *)
(* only when readers_ reaches zero and lockWrite never notifies, so this   *)
(* is the claim that those are the only moments a predicate turns true.    *)
NoLostWakeup == /\ \A r \in Readers : pc[r] = "asleep" => ~MayRead
                /\ \A w \in Writers : pc[w] = "asleep" => ~MayWrite

(* Writer preference (rw_lock.hpp:6-7): no reader enters, whether it has   *)
(* just arrived or was woken, while some writer is inside lockWrite.       *)
WriterPreference ==
  [][\A r \in Readers : pc[r] # "in" /\ pc'[r] = "in" => InLockWrite = {}]_lockVars

(* "Preventing writer starvation": with readers calling for ever, a writer *)
(* that waits is followed by some writer getting in.  (Not by that writer: *)
(* nothing orders the writers among themselves.)                           *)
SomeWriterGetsIn == InLockWrite # {} ~> Inside(Writers) # {}

(* Once the writers stay out of the lock for good, no reader is left       *)
(* asleep or waiting for ever: the last unlockWrite woke them all.         *)
ReadersReturn ==
  \A r \in Readers :
    <>[](InLockWrite = {} /\ Inside(Writers) = {})
      => (pc[r] \in {"asleep", "woken"} ~> pc[r] = "in")

WaitersGetIn == SomeWriterGetsIn /\ ReadersReturn

(* The lock implements the four-line description of shared and exclusive   *)
(* sections: calls, sleeps and wakeups are invisible, and each entry or    *)
(* exit is one step that the description allows.                           *)
Abstract == INSTANCE SharedExclusive WITH inside <- Inside(Threads)
ImplementsSharedExclusive == Abstract!Spec
=============================================================================
