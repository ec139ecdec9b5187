----------------------------- MODULE LockProofs -----------------------------
(***************************************************************************)
(* Proofs about the two locks of concurrency/: the reader-writer lock, for *)
(* any finite sets of readers and writers, and the spinlock with the       *)
(* counter it protects, for any finite set of workers and number of rounds.*)
(***************************************************************************)
EXTENDS RWLock, Spinlock, FiniteSetTheorems, TLAPS

(* Exclusion alone is not inductive: that a thread may enter is decided by *)
(* the counters, so the invariant says what the counters count.            *)
IInv == TypeOK /\ CountersExact /\ Exclusion /\ NoLostWakeup

-----------------------------------------------------------------------------
(* The counted sets are finite, so their cardinalities are naturals.       *)
LEMMA CountedFinite ==
  /\ IsFiniteSet(Inside(Readers)) /\ Cardinality(Inside(Readers)) \in Nat
  /\ IsFiniteSet(InLockWrite) /\ Cardinality(InLockWrite) \in Nat
<1>1. Inside(Readers) \subseteq Readers /\ InLockWrite \subseteq Writers
  BY DEF Inside, InLockWrite
<1> QED  BY <1>1, ThreadsAssumption, FS_Subset, FS_CardinalityType

(* The same in the next state.                                             *)
LEMMA CountedFiniteNext ==
  /\ IsFiniteSet(Inside(Readers)') /\ Cardinality(Inside(Readers)') \in Nat
  /\ IsFiniteSet(InLockWrite') /\ Cardinality(InLockWrite') \in Nat
<1>1. Inside(Readers)' \subseteq Readers /\ InLockWrite' \subseteq Writers
  BY DEF Inside, InLockWrite
<1> QED  BY <1>1, ThreadsAssumption, FS_Subset, FS_CardinalityType

-----------------------------------------------------------------------------
LEMMA InitInv == Init => IInv
<1> SUFFICES ASSUME Init PROVE IInv
  OBVIOUS
<1>1. Inside(Threads) = {} /\ Inside(Readers) = {} /\ Inside(Writers) = {}
  BY DEF Init, LockInit, Inside, Threads
<1>2. InLockWrite = {}
  BY DEF Init, LockInit, InLockWrite, Threads
<1>3. TypeOK /\ Exclusion /\ NoLostWakeup
  BY <1>1 DEF Init, LockInit, TypeOK, Exclusion, NoLostWakeup, Threads
<1>4. CountersExact
  BY <1>1, <1>2, FS_EmptySet DEF Init, LockInit, CountersExact
<1> QED  BY <1>3, <1>4 DEF IInv

(* A thread that falls asleep or is woken changes neither who is inside    *)
(* nor, unless it is a writer that has just called, who is in lockWrite.   *)
LEMMA SleepStep ==
  ASSUME IInv, NEW t \in Threads, NEW to \in {"asleep", "woken"},
         pc[t] \in {"out", "asleep", "woken"},
         pc' = [pc EXCEPT ![t] = to]
  PROVE  /\ Inside(Threads)' = Inside(Threads)
         /\ Inside(Readers)' = Inside(Readers)
         /\ Inside(Writers)' = Inside(Writers)
         /\ InLockWrite' = InLockWrite \cup ({t} \cap Writers)
         /\ pc' \in [Threads -> {"out", "asleep", "woken", "in"}]
BY DEF IInv, TypeOK, Inside, InLockWrite, Threads

LEMMA StepLockRead ==
  ASSUME IInv, NEW r \in Readers, LockRead(r)
  PROVE  IInv'
<1> USE DEF Threads
<1>0. /\ r \notin Writers /\ r \in Threads
      /\ pc[r] \in {"out", "woken"}
      /\ writers_waiting_' = writers_waiting_ /\ writer_active_' = writer_active_
  BY ThreadsAssumption DEF LockRead
<1>1. CASE MayRead /\ readers_' = readers_ + 1 /\ Enter(r)
  <2>1. /\ Inside(Readers)' = Inside(Readers) \cup {r}
        /\ r \notin Inside(Readers)
        /\ Inside(Writers)' = Inside(Writers)
        /\ InLockWrite' = InLockWrite
        /\ pc' \in [Threads -> {"out", "asleep", "woken", "in"}]
    BY <1>0, <1>1 DEF Enter, Inside, InLockWrite, IInv, TypeOK
  <2>2. Inside(Writers)' = {}
    BY <1>1, <2>1 DEF MayRead, IInv, CountersExact
  <2>3. TypeOK'
    BY <1>0, <1>1, <2>1 DEF IInv, TypeOK
  <2>4. CountersExact'
    BY <1>0, <1>1, <2>1, FS_AddElement, CountedFinite DEF IInv, CountersExact
  <2>5. Exclusion'
    BY <2>2 DEF Exclusion
  <2>6. NoLostWakeup'
    <3>1. ASSUME NEW q \in Readers, pc'[q] = "asleep" PROVE ~MayRead'
      <4>1. pc[q] = "asleep"
        BY <1>1, <3>1 DEF Enter, IInv, TypeOK
      <4> QED  BY <4>1, <1>1 DEF IInv, NoLostWakeup
    <3>2. ~MayWrite'
      BY <1>1 DEF MayWrite, IInv, TypeOK
    <3> QED  BY <3>1, <3>2 DEF NoLostWakeup
  <2> QED  BY <2>3, <2>4, <2>5, <2>6 DEF IInv
<1>2. CASE ~MayRead /\ Sleep(r) /\ UNCHANGED readers_
  <2>1. /\ Inside(Threads)' = Inside(Threads)
        /\ Inside(Readers)' = Inside(Readers)
        /\ Inside(Writers)' = Inside(Writers)
        /\ InLockWrite' = InLockWrite
        /\ pc' \in [Threads -> {"out", "asleep", "woken", "in"}]
    <3>1. pc' = [pc EXCEPT ![r] = "asleep"]
      BY <1>2 DEF Sleep
    <3>2. InLockWrite' = InLockWrite \cup ({r} \cap Writers)
      BY <1>0, <3>1, SleepStep
    <3> QED  BY <1>0, <3>1, <3>2, SleepStep
  <2>2. TypeOK' /\ CountersExact' /\ Exclusion'
    BY <1>0, <1>2, <2>1 DEF IInv, TypeOK, CountersExact, Exclusion
  <2>3. NoLostWakeup'
    BY <1>0, <1>2 DEF Sleep, IInv, TypeOK, NoLostWakeup, MayRead, MayWrite
  <2> QED  BY <2>2, <2>3 DEF IInv
<1> QED  BY <1>1, <1>2 DEF LockRead

(* Notifying moves sleepers to "woken": the counted sets stay as they are. *)
LEMMA NotifyStep ==
  ASSUME IInv, NEW t \in Threads, pc[t] = "in", LeaveNotifying(t)
  PROVE  /\ \A u \in Threads : pc'[u] # "asleep"
         /\ Inside(Threads)' = Inside(Threads) \ {t}
         /\ Inside(Readers)' = Inside(Readers) \ {t}
         /\ Inside(Writers)' = Inside(Writers) \ {t}
         /\ InLockWrite' = InLockWrite
         /\ pc' \in [Threads -> {"out", "asleep", "woken", "in"}]
<1>1. pc' = [u \in Threads |-> IF u = t THEN "out"
                              ELSE IF pc[u] = "asleep" THEN "woken" ELSE pc[u]]
  BY DEF LeaveNotifying, NotifyAll, IInv, TypeOK
<1>2. \A u \in Threads : pc[u] \in {"out", "asleep", "woken", "in"}
  BY DEF IInv, TypeOK
<1> QED  BY <1>1, <1>2 DEF Inside, InLockWrite, Threads

LEMMA StepUnlockRead ==
  ASSUME IInv, NEW r \in Readers, UnlockRead(r)
  PROVE  IInv'
<1>0. /\ r \notin Writers /\ r \in Threads /\ pc[r] = "in"
      /\ r \in Inside(Readers) /\ r \in Inside(Threads)
      /\ readers_' = readers_ - 1
      /\ writers_waiting_' = writers_waiting_ /\ writer_active_' = writer_active_
  BY ThreadsAssumption DEF UnlockRead, Inside, Threads
<1>1. Inside(Writers) = {}
  <2>1. \A w \in Writers : w # r
    BY <1>0
  <2> QED  BY <1>0, <2>1 DEF IInv, Exclusion, Inside
<1>2. /\ Inside(Threads)' = Inside(Threads) \ {r}
      /\ Inside(Readers)' = Inside(Readers) \ {r}
      /\ Inside(Writers)' = {}
      /\ InLockWrite' = InLockWrite
      /\ pc' \in [Threads -> {"out", "asleep", "woken", "in"}]
  <2>1. CASE LeaveNotifying(r)
    BY <1>0, <1>1, <2>1, NotifyStep
  <2>2. CASE LeaveQuietly(r)
    BY <1>0, <1>1, <2>2
       DEF LeaveQuietly, IInv, TypeOK, Inside, InLockWrite, Threads
  <2> QED  BY <2>1, <2>2 DEF UnlockRead
<1>3. readers_' = Cardinality(Inside(Readers)') /\ readers_' \in Nat
  <2>1. Cardinality(Inside(Readers) \ {r}) = Cardinality(Inside(Readers)) - 1
    BY <1>0, CountedFinite, FS_RemoveElement
  <2> QED  BY <1>0, <1>2, <2>1, CountedFiniteNext DEF IInv, CountersExact
<1>4. TypeOK' /\ CountersExact' /\ Exclusion'
  BY <1>0, <1>1, <1>2, <1>3 DEF IInv, TypeOK, CountersExact, Exclusion
<1>5. NoLostWakeup'
  <2>1. CASE readers_' = 0
    <3>1. LeaveNotifying(r)
      BY <2>1 DEF UnlockRead
    <3> QED  BY <1>0, <3>1, NotifyStep DEF NoLostWakeup, Threads
  <2>2. CASE readers_' # 0
    <3>1. pc' = [pc EXCEPT ![r] = "out"]
      BY <2>2 DEF UnlockRead, LeaveQuietly
    <3>2. ~MayWrite'
      BY <2>2 DEF MayWrite
    <3>3. \A q \in Readers : pc'[q] = "asleep" => pc[q] = "asleep"
      BY <3>1 DEF IInv, TypeOK, Threads
    <3> QED  BY <1>0, <3>2, <3>3 DEF IInv, NoLostWakeup, MayRead
  <2> QED  BY <2>1, <2>2
<1> QED  BY <1>4, <1>5 DEF IInv

(* A writer that gets in, from its call or from a wakeup.                  *)
LEMMA WriterEnters ==
  ASSUME IInv, NEW w \in Writers, pc[w] \in {"out", "woken"}, MayWrite, Enter(w)
  PROVE  /\ Inside(Threads) = {} /\ Inside(Threads)' = {w}
         /\ Inside(Readers)' = {} /\ Inside(Readers) = {}
         /\ Inside(Writers)' = {w}
         /\ InLockWrite' = InLockWrite \ {w}
         /\ pc' \in [Threads -> {"out", "asleep", "woken", "in"}]
<1>1. Inside(Readers) = {}
  BY CountedFinite, FS_EmptySet DEF MayWrite, IInv, CountersExact
<1>2. Inside(Writers) = {}
  BY DEF MayWrite, IInv, CountersExact
<1>3. w \notin Readers /\ w \in Threads
  BY ThreadsAssumption DEF Threads
<1>4. \A t \in Threads : pc[t] # "in"
  BY <1>1, <1>2 DEF Inside, Threads
<1> QED  BY <1>1, <1>2, <1>3, <1>4 DEF Enter, IInv, TypeOK, Inside, InLockWrite, Threads

LEMMA StepWriterIn ==
  ASSUME IInv, NEW w \in Writers, MayWrite, Enter(w), writer_active_' = TRUE,
         readers_' = readers_,
         \/ pc[w] = "out" /\ writers_waiting_' = writers_waiting_
         \/ pc[w] = "woken" /\ writers_waiting_' = writers_waiting_ - 1
  PROVE  IInv'
<1>1. /\ Inside(Threads)' = {w} /\ Inside(Readers)' = {} /\ Inside(Readers) = {}
      /\ Inside(Writers)' = {w} /\ InLockWrite' = InLockWrite \ {w}
      /\ pc' \in [Threads -> {"out", "asleep", "woken", "in"}]
  BY WriterEnters
<1>2. writers_waiting_' = Cardinality(InLockWrite') /\ writers_waiting_' \in Nat
  <2>1. CASE pc[w] = "out" /\ writers_waiting_' = writers_waiting_
    <3>1. InLockWrite' = InLockWrite
      BY <1>1, <2>1 DEF InLockWrite
    <3> QED  BY <2>1, <3>1 DEF IInv, TypeOK, CountersExact
  <2>2. CASE pc[w] = "woken" /\ writers_waiting_' = writers_waiting_ - 1
    <3>1. w \in InLockWrite
      BY <2>2 DEF InLockWrite
    <3>2. Cardinality(InLockWrite \ {w}) = Cardinality(InLockWrite) - 1
      BY <3>1, CountedFinite, FS_RemoveElement
    <3> QED  BY <1>1, <2>2, <3>2, CountedFiniteNext DEF IInv, CountersExact
  <2> QED  BY <2>1, <2>2
<1>3. TypeOK' /\ CountersExact' /\ Exclusion'
  BY <1>1, <1>2 DEF IInv, TypeOK, CountersExact, Exclusion
<1>4. NoLostWakeup'
  BY DEF NoLostWakeup, MayRead, MayWrite
<1> QED  BY <1>3, <1>4 DEF IInv

LEMMA StepLockWrite ==
  ASSUME IInv, NEW w \in Writers, LockWrite(w)
  PROVE  IInv'
<1>1. CASE MayWrite
  BY <1>1, StepWriterIn DEF LockWrite
<1>2. CASE ~MayWrite
  <2>1. /\ pc[w] = "out" /\ w \in Threads
        /\ pc' = [pc EXCEPT ![w] = "asleep"]
        /\ writers_waiting_' = writers_waiting_ + 1
        /\ writer_active_' = writer_active_ /\ readers_' = readers_
    BY <1>2 DEF LockWrite, Sleep, Threads
  <2>2. /\ Inside(Threads)' = Inside(Threads)
        /\ Inside(Readers)' = Inside(Readers)
        /\ Inside(Writers)' = Inside(Writers)
        /\ InLockWrite' = InLockWrite \cup ({w} \cap Writers)
        /\ pc' \in [Threads -> {"out", "asleep", "woken", "in"}]
    BY <2>1, SleepStep
  <2>3. w \notin InLockWrite /\ InLockWrite' = InLockWrite \cup {w}
    BY <2>1, <2>2 DEF InLockWrite
  <2>4. writers_waiting_' = Cardinality(InLockWrite')
    BY <2>1, <2>3, CountedFinite, FS_AddElement DEF IInv, CountersExact
  <2>5. TypeOK' /\ CountersExact' /\ Exclusion'
    BY <2>1, <2>2, <2>4 DEF IInv, TypeOK, CountersExact, Exclusion
  <2>6. NoLostWakeup'
    BY <1>2, <2>1 DEF IInv, TypeOK, NoLostWakeup, MayRead, MayWrite, Threads
  <2> QED  BY <2>5, <2>6 DEF IInv
<1> QED  BY <1>1, <1>2

LEMMA StepRetryWrite ==
  ASSUME IInv, NEW w \in Writers, RetryWrite(w)
  PROVE  IInv'
<1>1. CASE MayWrite
  BY <1>1, StepWriterIn DEF RetryWrite
<1>2. CASE ~MayWrite
  <2>1. /\ pc[w] = "woken" /\ w \in Threads
        /\ pc' = [pc EXCEPT ![w] = "asleep"]
        /\ UNCHANGED <<writers_waiting_, writer_active_, readers_>>
    BY <1>2 DEF RetryWrite, Sleep, Threads
  <2>2. /\ Inside(Threads)' = Inside(Threads)
        /\ Inside(Readers)' = Inside(Readers)
        /\ Inside(Writers)' = Inside(Writers)
        /\ InLockWrite' = InLockWrite \cup ({w} \cap Writers)
        /\ pc' \in [Threads -> {"out", "asleep", "woken", "in"}]
    BY <2>1, SleepStep
  <2>3. InLockWrite' = InLockWrite
    BY <2>1, <2>2 DEF InLockWrite
  <2>4. TypeOK' /\ CountersExact' /\ Exclusion'
    BY <2>1, <2>2, <2>3 DEF IInv, TypeOK, CountersExact, Exclusion
  <2>5. NoLostWakeup'
    <3>1. (MayRead' <=> MayRead) /\ (MayWrite' <=> MayWrite)
      BY <2>1 DEF MayRead, MayWrite
    <3>2. /\ \A u \in Threads \ {w} : pc'[u] = pc[u]
          /\ w \notin Readers
      BY <2>1, ThreadsAssumption DEF IInv, TypeOK
    <3> QED  BY <1>2, <3>1, <3>2 DEF IInv, NoLostWakeup, Threads
  <2> QED  BY <2>4, <2>5 DEF IInv
<1> QED  BY <1>1, <1>2

LEMMA StepUnlockWrite ==
  ASSUME IInv, NEW w \in Writers, UnlockWrite(w)
  PROVE  IInv'
<1>1. /\ pc[w] = "in" /\ w \in Threads /\ w \in Inside(Writers)
      /\ LeaveNotifying(w) /\ writer_active_' = FALSE
      /\ UNCHANGED <<readers_, writers_waiting_>>
  BY DEF UnlockWrite, Inside, Threads
<1>2. Inside(Threads) = {w} /\ w \notin Readers
  BY <1>1, ThreadsAssumption DEF IInv, Exclusion
<1>3. /\ Inside(Writers)' = {}
      /\ Inside(Readers)' = Inside(Readers)
      /\ InLockWrite' = InLockWrite
      /\ pc' \in [Threads -> {"out", "asleep", "woken", "in"}]
      /\ \A t \in Threads : pc'[t] # "asleep"
  <2>1. Inside(Writers)' = Inside(Writers) \ {w} /\ Inside(Readers)' = Inside(Readers) \ {w}
    BY <1>1, NotifyStep
  <2>2. Inside(Writers) \subseteq Inside(Threads)
    BY DEF Inside, Threads
  <2> QED  BY <1>1, <1>2, <2>1, <2>2, NotifyStep DEF Inside
<1> QED  BY <1>1, <1>3 DEF IInv, TypeOK, CountersExact, Exclusion, NoLostWakeup, Threads

LEMMA StepSpuriousWakeup ==
  ASSUME IInv, NEW t \in Threads, SpuriousWakeup(t)
  PROVE  IInv'
<1>1. /\ pc[t] = "asleep" /\ pc' = [pc EXCEPT ![t] = "woken"]
      /\ UNCHANGED <<readers_, writers_waiting_, writer_active_>>
  BY DEF SpuriousWakeup
<1>2. /\ Inside(Threads)' = Inside(Threads)
      /\ Inside(Readers)' = Inside(Readers)
      /\ Inside(Writers)' = Inside(Writers)
      /\ InLockWrite' = InLockWrite \cup ({t} \cap Writers)
      /\ pc' \in [Threads -> {"out", "asleep", "woken", "in"}]
  BY <1>1, SleepStep
<1>3. InLockWrite' = InLockWrite
  BY <1>1, <1>2 DEF InLockWrite
<1>4. TypeOK' /\ CountersExact' /\ Exclusion'
  BY <1>1, <1>2, <1>3 DEF IInv, TypeOK, CountersExact, Exclusion
<1>5. NoLostWakeup'
  BY <1>1 DEF IInv, TypeOK, NoLostWakeup, MayRead, MayWrite, Threads
<1> QED  BY <1>4, <1>5 DEF IInv

LEMMA NextInv == IInv /\ [Next]_lockVars => IInv'
<1> SUFFICES ASSUME IInv, [Next]_lockVars PROVE IInv'
  OBVIOUS
<1>1. ASSUME NEW r \in Readers, LockRead(r) PROVE IInv'
  BY <1>1, StepLockRead
<1>2. ASSUME NEW r \in Readers, UnlockRead(r) PROVE IInv'
  BY <1>2, StepUnlockRead
<1>3. ASSUME NEW w \in Writers, LockWrite(w) PROVE IInv'
  BY <1>3, StepLockWrite
<1>4. ASSUME NEW w \in Writers, RetryWrite(w) PROVE IInv'
  BY <1>4, StepRetryWrite
<1>5. ASSUME NEW w \in Writers, UnlockWrite(w) PROVE IInv'
  BY <1>5, StepUnlockWrite
<1>6. ASSUME NEW t \in Threads, SpuriousWakeup(t) PROVE IInv'
  BY <1>6, StepSpuriousWakeup
<1>7. CASE UNCHANGED lockVars
  BY <1>7 DEF lockVars, IInv, TypeOK, CountersExact, Exclusion, NoLostWakeup,
              MayRead, MayWrite, Inside, InLockWrite
<1> QED  BY <1>1, <1>2, <1>3, <1>4, <1>5, <1>6, <1>7 DEF Next

-----------------------------------------------------------------------------
(* The inductive invariant holds of every reachable state.                 *)
THEOREM Invariance == Spec => []IInv
<1> QED  BY InitInv, NextInv, PTL DEF Spec

(* The fields keep their types; the counters never go negative.            *)
THEOREM TypeCorrect == Spec => []TypeOK
<1>1. IInv => TypeOK
  BY DEF IInv
<1> QED  BY Invariance, <1>1, PTL

(* Concurrent reads, exclusive writes, for any number of threads.          *)
THEOREM LockExcludes == Spec => []Exclusion
<1>1. IInv => Exclusion
  BY DEF IInv
<1> QED  BY Invariance, <1>1, PTL

(* The counters count the threads they are meant to count.                 *)
THEOREM LockCounts == Spec => []CountersExact
<1>1. IInv => CountersExact
  BY DEF IInv
<1> QED  BY Invariance, <1>1, PTL

(* No thread sleeps while its predicate holds.                             *)
THEOREM NoWakeupIsLost == Spec => []NoLostWakeup
<1>1. IInv => NoLostWakeup
  BY DEF IInv
<1> QED  BY Invariance, <1>1, PTL

-----------------------------------------------------------------------------
(* No reader enters while a writer is inside lockWrite: writers_waiting_   *)
(* is zero exactly when no writer is.                                      *)
THEOREM LockPrefersWriters == Spec => WriterPreference
<1> DEFINE Prefers == \A r \in Readers : pc[r] # "in" /\ pc'[r] = "in" => InLockWrite = {}
<1>1. IInv /\ [Next]_lockVars => [Prefers]_lockVars
  <2> SUFFICES ASSUME IInv, Next, NEW r \in Readers, pc[r] # "in", pc'[r] = "in"
               PROVE  InLockWrite = {}
    OBVIOUS
  <2>0. /\ r \in Threads /\ pc \in [Threads -> {"out", "asleep", "woken", "in"}]
        /\ r \notin Writers
    BY ThreadsAssumption DEF IInv, TypeOK, Threads
  <2>1. ASSUME NEW q \in Readers, LockRead(q) PROVE MayRead
    BY <2>0, <2>1 DEF LockRead, Sleep
  <2>2. ASSUME NEW q \in Readers, UnlockRead(q) PROVE FALSE
    BY <2>0, <2>2 DEF UnlockRead, LeaveNotifying, LeaveQuietly, NotifyAll
  <2>3. ASSUME NEW w \in Writers, LockWrite(w) \/ RetryWrite(w) PROVE FALSE
    BY <2>0, <2>3 DEF LockWrite, RetryWrite, Sleep, Enter
  <2>4. ASSUME NEW w \in Writers, UnlockWrite(w) PROVE FALSE
    BY <2>0, <2>4 DEF UnlockWrite, LeaveNotifying, NotifyAll
  <2>5. ASSUME NEW t \in Threads, SpuriousWakeup(t) PROVE FALSE
    BY <2>0, <2>5 DEF SpuriousWakeup
  <2>6. MayRead
    BY <2>1, <2>2, <2>3, <2>4, <2>5 DEF Next
  <2> QED  BY <2>6, CountedFinite, FS_EmptySet DEF MayRead, IInv, CountersExact
<1>2. WriterPreference <=> [][Prefers]_lockVars
  BY DEF WriterPreference
<1> QED  BY <1>1, <1>2, Invariance, PTL DEF Spec

(* RWLock implements SharedExclusive: every entry finds inside what the    *)
(* description requires, every exit removes one thread, and the rest are   *)
(* stuttering steps.                                                       *)
THEOREM LockImplements == Spec => ImplementsSharedExclusive
<1>1. Init => Abstract!Init
  BY DEF Init, LockInit, Abstract!Init, Inside
<1>2. IInv /\ [Next]_lockVars => [Abstract!Next]_(Inside(Threads))
  <2> SUFFICES ASSUME IInv, [Next]_lockVars
               PROVE  Abstract!Next \/ Inside(Threads)' = Inside(Threads)
    OBVIOUS
  <2>0. pc \in [Threads -> {"out", "asleep", "woken", "in"}]
    BY DEF IInv, TypeOK
  <2>1. ASSUME NEW r \in Readers, LockRead(r)
        PROVE  Abstract!Next \/ Inside(Threads)' = Inside(Threads)
    <3>1. CASE MayRead /\ Enter(r)
      <4>1. Inside(Threads)' = Inside(Threads) \cup {r}
        BY <2>0, <3>1 DEF Enter, Inside, Threads
      <4>2. Inside(Threads) \subseteq Readers
        BY <3>1 DEF MayRead, IInv, CountersExact, Inside, Threads
      <4> QED  BY <4>1, <4>2 DEF Abstract!Next, Abstract!EnterShared
    <3>2. CASE Sleep(r)
      BY <2>0, <2>1, <3>2 DEF LockRead, Sleep, Inside, Threads
    <3> QED  BY <2>1, <3>1, <3>2 DEF LockRead
  <2>2. ASSUME NEW r \in Readers, UnlockRead(r) PROVE Abstract!Next
    <3>1. r \in Inside(Threads) /\ Inside(Threads)' = Inside(Threads) \ {r}
      BY <2>0, <2>2, NotifyStep
         DEF UnlockRead, LeaveQuietly, Inside, Threads
    <3> QED  BY <3>1 DEF Abstract!Next, Abstract!Leave
  <2>3. ASSUME NEW w \in Writers, LockWrite(w) \/ RetryWrite(w)
        PROVE  Abstract!Next \/ Inside(Threads)' = Inside(Threads)
    <3>1. CASE MayWrite /\ Enter(w)
      <4>1. Inside(Threads) = {} /\ Inside(Threads)' = {w}
        BY <2>3, <3>1, WriterEnters DEF LockWrite, RetryWrite
      <4> QED  BY <4>1 DEF Abstract!Next, Abstract!EnterExclusive
    <3>2. CASE Sleep(w)
      BY <2>0, <2>3, <3>2 DEF LockWrite, RetryWrite, Sleep, Inside, Threads
    <3> QED  BY <2>3, <3>1, <3>2 DEF LockWrite, RetryWrite
  <2>4. ASSUME NEW w \in Writers, UnlockWrite(w) PROVE Abstract!Next
    <3>1. w \in Inside(Threads) /\ Inside(Threads)' = Inside(Threads) \ {w}
      BY <2>4, NotifyStep DEF UnlockWrite, Inside, Threads
    <3> QED  BY <3>1 DEF Abstract!Next, Abstract!Leave
  <2>5. ASSUME NEW t \in Threads, SpuriousWakeup(t)
        PROVE  Inside(Threads)' = Inside(Threads)
    BY <2>0, <2>5 DEF SpuriousWakeup, Inside, Threads
  <2>6. CASE UNCHANGED lockVars
    BY <2>6 DEF lockVars, Inside
  <2> QED  BY <2>1, <2>2, <2>3, <2>4, <2>5, <2>6 DEF Next
<1> QED  BY <1>1, <1>2, Invariance, PTL DEF Spec, ImplementsSharedExclusive, Abstract!Spec

-----------------------------------------------------------------------------
(* The spinlock.                                                           *)
(* When main has joined, every thread is done; a thread is done when it    *)
(* has completed all its rounds.                                           *)
JoinedMeansDone ==
  /\ joined => \A t \in Workers : at[t] = "done"
  /\ \A t \in Workers : at[t] = "done" => i[t] = kIncrements

SpinInv == SpinTypeOK /\ MutualExclusion /\ NoLostUpdate /\ JoinedMeansDone

-----------------------------------------------------------------------------
LEMMA StoredFinite == IsFiniteSet(Stored) /\ Cardinality(Stored) \in Nat
<1>1. IsFiniteSet(Workers \X (1 .. kIncrements))
  <2>1. IsFiniteSet(1 .. kIncrements)
    BY SpinAssumption, FS_Interval
  <2> QED  BY <2>1, SpinAssumption, FS_Product
<1>2. Stored \subseteq Workers \X (1 .. kIncrements)
  BY DEF Stored
<1> QED  BY <1>1, <1>2, FS_Subset, FS_CardinalityType

LEMMA SpinInitInv == SpinInit => SpinInv
<1> SUFFICES ASSUME SpinInit PROVE SpinInv
  OBVIOUS
<1>1. SpinTypeOK /\ JoinedMeansDone
  <2>1. i \in [Workers -> 0 .. kIncrements] /\ \A t \in Workers : i[t] < kIncrements
    BY SpinAssumption DEF SpinInit
  <2>2. /\ register \in [Workers -> Nat]
        /\ at \in [Workers -> {"lock", "load", "store", "unlock", "done"}]
        /\ \A t \in Workers : at[t] = "lock"
        /\ joined = FALSE
    BY DEF SpinInit
  <2> QED  BY <2>1, <2>2 DEF SpinInit, SpinTypeOK, JoinedMeansDone
<1>4. MutualExclusion
  BY DEF SpinInit, MutualExclusion, Holding
<1>2. Stored = {}
  BY SpinAssumption DEF SpinInit, Stored
<1>3. NoLostUpdate
  BY <1>2, FS_EmptySet DEF SpinInit, NoLostUpdate
<1> QED  BY <1>1, <1>3, <1>4 DEF SpinInv

(* Only a store adds to Stored; every other step of a thread leaves it.    *)
LEMMA StepTestAndSet ==
  ASSUME SpinInv, NEW t \in Workers, TestAndSet(t)
  PROVE  SpinInv'
<1>1. CASE flag_
  BY <1>1 DEF TestAndSet, SpinInv, SpinTypeOK, MutualExclusion, NoLostUpdate,
              JoinedMeansDone, Stored, Holding
<1>2. CASE ~flag_
  <2>1. /\ at[t] = "lock" /\ at' = [at EXCEPT ![t] = "load"]
        /\ flag_' = TRUE /\ UNCHANGED <<counter, i, register, joined>>
    BY <1>2 DEF TestAndSet
  <2>2. SpinTypeOK' /\ MutualExclusion' /\ JoinedMeansDone'
    BY <1>2, <2>1 DEF SpinInv, SpinTypeOK, MutualExclusion, JoinedMeansDone, Holding
  <2>3. Stored' = Stored
    BY <2>1 DEF Stored, SpinInv, SpinTypeOK
  <2>4. NoLostUpdate'
    BY <2>1, <2>3 DEF SpinInv, SpinTypeOK, NoLostUpdate
  <2> QED  BY <2>2, <2>3, <2>4 DEF SpinInv
<1> QED  BY <1>1, <1>2 DEF SpinInv, SpinTypeOK

LEMMA StepLoad ==
  ASSUME SpinInv, NEW t \in Workers, Load(t)
  PROVE  SpinInv'
<1>1. /\ at[t] = "load" /\ at' = [at EXCEPT ![t] = "store"]
      /\ register' = [register EXCEPT ![t] = counter]
      /\ UNCHANGED <<flag_, counter, i, joined>>
  BY DEF Load
<1>2. SpinTypeOK' /\ MutualExclusion' /\ JoinedMeansDone'
  BY <1>1 DEF SpinInv, SpinTypeOK, MutualExclusion, JoinedMeansDone, Holding
<1>3. Stored' = Stored
  BY <1>1 DEF Stored, SpinInv, SpinTypeOK
<1>4. NoLostUpdate'
  BY <1>1, <1>3 DEF SpinInv, SpinTypeOK, NoLostUpdate
<1> QED  BY <1>2, <1>4 DEF SpinInv

LEMMA StepStore ==
  ASSUME SpinInv, NEW t \in Workers, Store(t)
  PROVE  SpinInv'
<1>1. /\ at[t] = "store" /\ at' = [at EXCEPT ![t] = "unlock"]
      /\ counter' = register[t] + 1
      /\ UNCHANGED <<flag_, i, register, joined>>
  BY DEF Store
<1>2. SpinTypeOK' /\ MutualExclusion' /\ JoinedMeansDone'
  BY <1>1 DEF SpinInv, SpinTypeOK, MutualExclusion, JoinedMeansDone, Holding
<1>3. /\ <<t, i[t] + 1>> \notin Stored
      /\ Stored' = Stored \cup {<<t, i[t] + 1>>}
  <2>1. i[t] \in Nat /\ i[t] + 1 \in 1 .. kIncrements
    BY <1>1, SpinAssumption DEF SpinInv, SpinTypeOK
  <2>2. <<t, i[t] + 1>> \notin Stored
    BY <1>1, <2>1 DEF Stored
  <2>3. ASSUME NEW u \in Workers, NEW n \in 1 .. kIncrements
        PROVE  <<u, n>> \in Stored' <=> <<u, n>> \in Stored \/ <<u, n>> = <<t, i[t] + 1>>
    <3>1. CASE u = t
      BY <1>1, <3>1 DEF Stored, SpinInv, SpinTypeOK
    <3>2. CASE u # t
      BY <1>1, <3>2 DEF Stored, SpinInv, SpinTypeOK
    <3> QED  BY <3>1, <3>2
  <2>4. Stored' \subseteq Workers \X (1 .. kIncrements) /\ Stored \subseteq Workers \X (1 .. kIncrements)
    BY DEF Stored
  <2> QED  BY <2>1, <2>2, <2>3, <2>4
<1>4. counter' = Cardinality(Stored')
  <2>1. Cardinality(Stored') = Cardinality(Stored) + 1
    BY <1>3, StoredFinite, FS_AddElement
  <2> QED  BY <1>1, <2>1 DEF SpinInv, NoLostUpdate
<1>5. \A u \in Workers : at'[u] # "store"
  BY <1>1 DEF SpinInv, SpinTypeOK, MutualExclusion, Holding
<1> QED  BY <1>2, <1>4, <1>5 DEF SpinInv, NoLostUpdate

LEMMA StepUnlock ==
  ASSUME SpinInv, NEW t \in Workers, Unlock(t)
  PROVE  SpinInv'
<1>1. /\ at[t] = "unlock" /\ flag_' = FALSE
      /\ i' = [i EXCEPT ![t] = i[t] + 1]
      /\ at' = [at EXCEPT ![t] = IF i[t] + 1 = kIncrements THEN "done" ELSE "lock"]
      /\ UNCHANGED <<counter, register, joined>>
  BY DEF Unlock, SpinInv, SpinTypeOK
<1>2. SpinTypeOK' /\ JoinedMeansDone'
  <2>1. i[t] + 1 \in 0 .. kIncrements /\ i[t] \in Nat
    BY <1>1, SpinAssumption DEF SpinInv, SpinTypeOK
  <2>2. /\ flag_' \in BOOLEAN /\ counter' \in Nat /\ joined' \in BOOLEAN
        /\ i' \in [Workers -> 0 .. kIncrements]
        /\ register' \in [Workers -> Nat]
        /\ at' \in [Workers -> {"lock", "load", "store", "unlock", "done"}]
    BY <1>1, <2>1 DEF SpinInv, SpinTypeOK
  <2>3. ASSUME NEW u \in Workers
        PROVE  /\ at'[u] # "done" => i'[u] < kIncrements
               /\ at'[u] = "done" => i'[u] = kIncrements
    <3>1. CASE u = t
      BY <1>1, <2>1, <3>1, SpinAssumption DEF SpinInv, SpinTypeOK
    <3>2. CASE u # t
      BY <1>1, <3>2 DEF SpinInv, SpinTypeOK, JoinedMeansDone
    <3> QED  BY <3>1, <3>2
  <2>4. ~joined
    BY <1>1 DEF SpinInv, JoinedMeansDone
  <2> QED  BY <1>1, <2>2, <2>3, <2>4 DEF SpinTypeOK, JoinedMeansDone
<1>3. MutualExclusion'
  BY <1>1 DEF SpinInv, SpinTypeOK, MutualExclusion, Holding
<1>4. Stored' = Stored
  <2>1. ASSUME NEW u \in Workers, NEW n \in 1 .. kIncrements
        PROVE  <<u, n>> \in Stored' <=> <<u, n>> \in Stored
    <3>1. CASE u = t
      BY <1>1, <3>1 DEF Stored, SpinInv, SpinTypeOK
    <3>2. CASE u # t
      BY <1>1, <3>2 DEF Stored, SpinInv, SpinTypeOK
    <3> QED  BY <3>1, <3>2
  <2> QED  BY <2>1 DEF Stored
<1>5. NoLostUpdate'
  BY <1>1, <1>4 DEF SpinInv, SpinTypeOK, NoLostUpdate
<1> QED  BY <1>2, <1>3, <1>5 DEF SpinInv

LEMMA SpinNextInv == SpinInv /\ [SpinNext]_spinVars => SpinInv'
<1> SUFFICES ASSUME SpinInv, [SpinNext]_spinVars PROVE SpinInv'
  OBVIOUS
<1>1. ASSUME NEW t \in Workers, Work(t) PROVE SpinInv'
  BY <1>1, StepTestAndSet, StepLoad, StepStore, StepUnlock DEF Work
<1>2. CASE Join
  BY <1>2 DEF Join, SpinInv, SpinTypeOK, MutualExclusion, NoLostUpdate, JoinedMeansDone,
              Stored, Holding
<1>3. CASE UNCHANGED spinVars
  BY <1>3 DEF spinVars, SpinInv, SpinTypeOK, MutualExclusion, NoLostUpdate, JoinedMeansDone,
              Stored, Holding
<1> QED  BY <1>1, <1>2, <1>3 DEF SpinNext, Returned

-----------------------------------------------------------------------------
(* The inductive invariant holds of every reachable state.                 *)
THEOREM SpinInvariance == SpinSpec => []SpinInv
<1> QED  BY SpinInitInv, SpinNextInv, PTL DEF SpinSpec

(* Types are kept, and no thread goes beyond its last round.               *)
THEOREM SpinTypes == SpinSpec => []SpinTypeOK
<1>1. SpinInv => SpinTypeOK
  BY DEF SpinInv
<1> QED  BY SpinInvariance, <1>1, PTL

(* At most one thread holds the lock, and the flag says whether one does.  *)
THEOREM SpinExcludes == SpinSpec => []MutualExclusion
<1>1. SpinInv => MutualExclusion
  BY DEF SpinInv
<1> QED  BY SpinInvariance, <1>1, PTL

(* The counter is at all times the number of increments performed.         *)
THEOREM SpinLosesNothing == SpinSpec => []NoLostUpdate
<1>1. SpinInv => NoLostUpdate
  BY DEF SpinInv
<1> QED  BY SpinInvariance, <1>1, PTL

(* After the join the counter is kThreads * kIncrements.                   *)
THEOREM SpinFinalCounter == SpinSpec => []FinalCounter
<1>1. SpinInv => FinalCounter
  <2> SUFFICES ASSUME SpinInv, joined
               PROVE  counter = Cardinality(Workers) * kIncrements
    BY DEF FinalCounter
  <2>1. \A t \in Workers : i[t] = kIncrements
    BY DEF SpinInv, JoinedMeansDone
  <2>2. Stored = Workers \X (1 .. kIncrements)
    BY <2>1 DEF Stored
  <2>3. IsFiniteSet(1 .. kIncrements) /\ Cardinality(1 .. kIncrements) = kIncrements
    BY SpinAssumption, FS_Interval
  <2>4. Cardinality(Stored) = Cardinality(Workers) * kIncrements
    BY <2>2, <2>3, SpinAssumption, FS_Product
  <2> QED  BY <2>4 DEF SpinInv, NoLostUpdate
<1> QED  BY SpinInvariance, <1>1, PTL
=============================================================================
