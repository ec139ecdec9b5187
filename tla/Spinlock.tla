------------------------------ MODULE Spinlock ------------------------------
(***************************************************************************)
(* The program of concurrency/spinlock.cpp: kThreads workers add          *)
(* kIncrements each to one plain int, guarded by a lock that is one flag.  *)
(*                                                                         *)
(* One action is one access to memory that the threads share: the atomic   *)
(* test_and_set and clear, and the load and the store that ++counter is    *)
(* made of.  test_and_set acquires and clear releases, so what a thread    *)
(* wrote under the lock is what the next holder reads, and the accesses    *)
(* may be interleaved as whole steps.                                      *)
(***************************************************************************)
EXTENDS Integers, FiniteSets

CONSTANTS Workers,      \* the workers (8 in the code)
          kIncrements   \* rounds of each (10000 in the code)

ASSUME SpinAssumption == IsFiniteSet(Workers) /\ kIncrements \in Nat \ {0}

VARIABLES flag_,     \* the lock
          counter,   \* what it protects
          i,         \* per thread: completed rounds of its loop
          register,  \* per thread: the value ++counter has loaded
          at,        \* per thread: "lock", "load", "store", "unlock", "done"
          joined     \* has main joined every worker?

spinVars == <<flag_, counter, i, register, at, joined>>

SpinInit == /\ flag_ = FALSE
            /\ counter = 0
            /\ i = [t \in Workers |-> 0]
            /\ register = [t \in Workers |-> 0]
            /\ at = [t \in Workers |-> "lock"]
            /\ joined = FALSE

-----------------------------------------------------------------------------
(* Mistakes the checks are tested with: a test that does not set, an       *)
(* unlock that a thread leaving its loop never reaches.                    *)
TestWithoutSet(t) ==
  /\ at[t] = "lock" /\ ~flag_
  /\ at' = [at EXCEPT ![t] = "load"]
  /\ UNCHANGED <<flag_, counter, i, register, joined>>

UnlockExceptLast(t) ==
  /\ at[t] = "unlock"
  /\ i' = [i EXCEPT ![t] = @ + 1]
  /\ flag_' = (i'[t] = kIncrements)
  /\ at' = [at EXCEPT ![t] = IF i'[t] = kIncrements THEN "done" ELSE "lock"]
  /\ UNCHANGED <<counter, register, joined>>

-----------------------------------------------------------------------------
(* One turn of the busy-wait: the flag is set in any case, and the thread  *)
(* goes on only if it was the one to set it.                               *)
TestAndSet(t) ==
  /\ at[t] = "lock"
  /\ flag_' = TRUE
  /\ at' = IF flag_ THEN at ELSE [at EXCEPT ![t] = "load"]
  /\ UNCHANGED <<counter, i, register, joined>>

Load(t) ==
  /\ at[t] = "load"
  /\ register' = [register EXCEPT ![t] = counter]
  /\ at' = [at EXCEPT ![t] = "store"]
  /\ UNCHANGED <<flag_, counter, i, joined>>

Store(t) ==
  /\ at[t] = "store"
  /\ counter' = register[t] + 1
  /\ at' = [at EXCEPT ![t] = "unlock"]
  /\ UNCHANGED <<flag_, i, register, joined>>

(* The guard's destructor at the end of the loop body, and ++i.            *)
Unlock(t) ==
  /\ at[t] = "unlock"
  /\ flag_' = FALSE
  /\ i' = [i EXCEPT ![t] = @ + 1]
  /\ at' = [at EXCEPT ![t] = IF i'[t] = kIncrements THEN "done" ELSE "lock"]
  /\ UNCHANGED <<counter, register, joined>>

Work(t) == TestAndSet(t) \/ Load(t) \/ Store(t) \/ Unlock(t)

Join == /\ ~joined
        /\ \A t \in Workers : at[t] = "done"
        /\ joined' = TRUE
        /\ UNCHANGED <<flag_, counter, i, register, at>>

Returned == joined /\ UNCHANGED spinVars

SpinNext == (\E t \in Workers : Work(t)) \/ Join \/ Returned

SpinSpec == SpinInit /\ [][SpinNext]_spinVars

(* Every worker is scheduled until it is done.  The lock adds no fairness  *)
(* of its own: a worker may spin for as long as others keep taking turns.  *)
FairSpinSpec == SpinSpec /\ (\A t \in Workers : WF_spinVars(Work(t))) /\ WF_spinVars(Join)

-----------------------------------------------------------------------------
SpinTypeOK == /\ flag_ \in BOOLEAN
              /\ counter \in Nat
              /\ i \in [Workers -> 0 .. kIncrements]
              /\ register \in [Workers -> Nat]
              /\ at \in [Workers -> {"lock", "load", "store", "unlock", "done"}]
              /\ joined \in BOOLEAN
              /\ \A t \in Workers : at[t] # "done" => i[t] < kIncrements

Holding(t) == at[t] \in {"load", "store", "unlock"}

(* The flag is set exactly while one thread is between lock and unlock, so *)
(* no two are: neither a second winner of the race nor a set flag that     *)
(* nobody will clear.                                                      *)
MutualExclusion ==
  /\ \A t, u \in Workers : Holding(t) /\ Holding(u) => t = u
  /\ flag_ <=> \E t \in Workers : Holding(t)

(* The increments whose store has been performed, each named by its thread *)
(* and its round.                                                          *)
Stored == {s \in Workers \X (1 .. kIncrements) :
             \/ s[2] <= i[s[1]]
             \/ at[s[1]] = "unlock" /\ s[2] = i[s[1]] + 1}

(* No update is lost: the counter is the number of increments performed,   *)
(* and a thread about to store holds the latest value.                     *)
NoLostUpdate ==
  /\ counter = Cardinality(Stored)
  /\ \A t \in Workers : at[t] = "store" => register[t] = counter

(* What main says it expects (spinlock.cpp:49).                            *)
FinalCounter == joined => counter = Cardinality(Workers) * kIncrements

(* Every worker gets the lock as often as it needs it, and main returns.   *)
MainReturns == <>joined
=============================================================================
