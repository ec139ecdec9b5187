------------------------ MODULE BoundedBufferProofs ------------------------
(***************************************************************************)
(* The bounded buffer loses no wakeup and implements BoundedChannel, for   *)
(* any finite sets of threads, any set of items and any capacity; and so   *)
(* does the program around it, whose tickets agree with the pops and whose *)
(* items are each popped once, for any number of threads and items.        *)
(***************************************************************************)
EXTENDS BoundedBufferMain, DataFacts

IInv == TypeOK /\ NoLostWakeup

-----------------------------------------------------------------------------
(* S and R stand for the two sides: the side that is notified and the side *)
(* of the thread that takes the step.                                      *)
Sides(S, R) == \/ S = Producers /\ R = Consumers
               \/ S = Consumers /\ R = Producers

LEMMA SidesFacts ==
  ASSUME NEW S, NEW R, Sides(S, R)
  PROVE  /\ S \cap R = {} /\ S \cup R = Threads
         /\ IsFiniteSet(S) /\ IsFiniteSet(R)
BY BufferAssumption DEF Sides, Threads

LEMMA WokenFinite ==
  ASSUME NEW S, IsFiniteSet(S)
  PROVE  /\ IsFiniteSet(Woken(S)) /\ Cardinality(Woken(S)) \in Nat
         /\ IsFiniteSet(Woken(S)') /\ Cardinality(Woken(S)') \in Nat
<1>1. Woken(S) \subseteq S /\ Woken(S)' \subseteq S
  BY DEF Woken
<1> QED  BY <1>1, FS_Subset, FS_CardinalityType

(* A thread of side R finishes its call and notifies side S.  If S still   *)
(* has a sleeper afterwards, S has one more thread awake; R has at most    *)
(* one less.                                                               *)
LEMMA NotifyStep ==
  ASSUME TypeOK, NEW S, NEW R, Sides(S, R), NEW t \in R,
         pc[t] \in {"out", "woken"}, NotifyOne(Leave(t), S)
  PROVE  /\ pc' \in [Threads -> {"out", "asleep", "woken"}]
         /\ Asleep(pc', R) = Asleep(pc, R)
         /\ Cardinality(Woken(R)') >= Cardinality(Woken(R)) - 1
         /\ Asleep(pc', S) # {} => Asleep(pc, S) # {}
         /\ Asleep(pc', S) # {} => Cardinality(Woken(S)') = Cardinality(Woken(S)) + 1
<1> DEFINE mid == [pc EXCEPT ![t] = "out"]
<1>0. /\ S \cap R = {} /\ S \cup R = Threads /\ t \in Threads /\ t \notin S
      /\ IsFiniteSet(S) /\ IsFiniteSet(R)
  BY SidesFacts
<1>1. /\ mid \in [Threads -> {"out", "asleep", "woken"}]
      /\ mid[t] = "out"
      /\ \A u \in Threads : u # t => mid[u] = pc[u]
  BY <1>0 DEF TypeOK
<1>2. \/ Asleep(mid, S) = {} /\ pc' = mid
      \/ \E s \in Asleep(mid, S) : pc' = [mid EXCEPT ![s] = "woken"]
  BY DEF NotifyOne, Leave
<1> HIDE DEF mid
<1>3. \A u \in R : pc'[u] = mid[u]
  BY <1>0, <1>1, <1>2 DEF Asleep
<1>4. pc' \in [Threads -> {"out", "asleep", "woken"}]
  BY <1>0, <1>1, <1>2 DEF Asleep
<1>5. Asleep(pc', R) = Asleep(pc, R)
  BY <1>0, <1>1, <1>3 DEF Asleep
<1>6. Cardinality(Woken(R)') >= Cardinality(Woken(R)) - 1
  <2>1. Woken(R)' = Woken(R) \ {t}
    BY <1>0, <1>1, <1>3 DEF Woken
  <2>0. /\ IsFiniteSet(Woken(R)) /\ Cardinality(Woken(R)) \in Nat
        /\ Cardinality(Woken(R)') \in Nat
    BY <1>0, WokenFinite
  <2>2. CASE t \in Woken(R)
    <3>1. Cardinality(Woken(R) \ {t}) = Cardinality(Woken(R)) - 1
      BY <2>0, <2>2, FS_RemoveElement
    <3> QED  BY <2>0, <2>1, <3>1
  <2>3. CASE t \notin Woken(R)
    <3>1. Woken(R)' = Woken(R)
      BY <2>1, <2>3
    <3> QED  BY <2>0, <3>1
  <2> QED  BY <2>2, <2>3
<1>7. ASSUME Asleep(pc', S) # {}
      PROVE  /\ Asleep(pc, S) # {}
             /\ Cardinality(Woken(S)') = Cardinality(Woken(S)) + 1
  <2>1. PICK s \in Asleep(mid, S) : pc' = [mid EXCEPT ![s] = "woken"]
    BY <1>2, <1>7
  <2>2. s \in S /\ s \in Threads /\ s # t /\ pc[s] = "asleep"
    BY <1>0, <1>1 DEF Asleep
  <2>3. Woken(S)' = Woken(S) \cup {s} /\ s \notin Woken(S)
    BY <1>0, <1>1, <2>1, <2>2 DEF Woken
  <2>4. Cardinality(Woken(S) \cup {s}) = Cardinality(Woken(S)) + 1
    BY <1>0, <2>3, WokenFinite, FS_AddElement
  <2> QED  BY <2>2, <2>3, <2>4 DEF Asleep
<1> QED  BY <1>4, <1>5, <1>6, <1>7

(* Falling asleep changes nothing on the other side.                       *)
LEMMA SleepStep ==
  ASSUME TypeOK, NEW S, NEW R, Sides(S, R), NEW t \in R, Sleep(t)
  PROVE  /\ pc' \in [Threads -> {"out", "asleep", "woken"}]
         /\ Asleep(pc', S) = Asleep(pc, S) /\ Woken(S)' = Woken(S)
<1>1. S \cap R = {} /\ S \cup R = Threads
  BY SidesFacts
<1> QED  BY <1>1 DEF Sleep, TypeOK, Asleep, Woken

-----------------------------------------------------------------------------
LEMMA InitInv == Init => IInv
<1> SUFFICES ASSUME Init PROVE IInv
  OBVIOUS
<1>1. buf_ = <<>> /\ pc = [t \in Threads |-> "out"] /\ item \in [Producers -> Items]
  BY DEF Init, BufferInit
<1>2. TypeOK
  BY <1>1, BufferAssumption DEF TypeOK
<1>3. Asleep(pc, Producers) = {} /\ Asleep(pc, Consumers) = {}
  BY <1>1 DEF Asleep, Threads
<1> QED  BY <1>2, <1>3 DEF IInv, NoLostWakeup

LEMMA StepPush ==
  ASSUME IInv, NEW p \in Producers, NEW x \in Items, Push(p, x)
  PROVE  IInv'
<1>0. /\ pc[p] \in {"out", "woken"} /\ TypeOK /\ NoLostWakeup
      /\ capacity_ \in Nat /\ Len(buf_) \in Nat /\ Len(buf_) <= capacity_
  BY BufferAssumption DEF Push, IInv, TypeOK
<1>a. Sides(Consumers, Producers) /\ IsFiniteSet(Producers) /\ IsFiniteSet(Consumers)
  BY BufferAssumption DEF Sides
<1>b. /\ Cardinality(Woken(Producers)) \in Nat /\ Cardinality(Woken(Producers)') \in Nat
      /\ Cardinality(Woken(Consumers)) \in Nat /\ Cardinality(Woken(Consumers)') \in Nat
  BY <1>a, WokenFinite
<1>1. CASE MayPush
  <2>1. /\ buf_' = Append(buf_, x) /\ item' = item
        /\ NotifyOne(Leave(p), Consumers) /\ Len(buf_) < capacity_
    BY <1>1 DEF Push, MayPush
  <2>2. /\ pc' \in [Threads -> {"out", "asleep", "woken"}]
        /\ Asleep(pc', Producers) = Asleep(pc, Producers)
        /\ Cardinality(Woken(Producers)') >= Cardinality(Woken(Producers)) - 1
        /\ Asleep(pc', Consumers) # {} => Asleep(pc, Consumers) # {}
        /\ Asleep(pc', Consumers) # {}
             => Cardinality(Woken(Consumers)') = Cardinality(Woken(Consumers)) + 1
    BY <1>0, <1>a, <2>1, NotifyStep
  <2>3. Len(buf_') = Len(buf_) + 1 /\ buf_' \in Seq(Items)
    BY <1>0, <2>1 DEF TypeOK
  <2>4. TypeOK'
    BY <1>0, <2>1, <2>2, <2>3 DEF TypeOK
  <2>5. Asleep(pc', Producers) # {} => capacity_ - Len(buf_') <= Cardinality(Woken(Producers)')
    <3>1. CASE pc[p] = "woken" \/ pc[p] = "out"
      BY <1>0, <1>b, <2>2, <2>3 DEF NoLostWakeup
    <3> QED  BY <3>1, <1>0
  <2>6. Asleep(pc', Consumers) # {} => Len(buf_') <= Cardinality(Woken(Consumers)')
    BY <1>0, <1>b, <2>2, <2>3 DEF NoLostWakeup
  <2> QED  BY <2>4, <2>5, <2>6 DEF IInv, NoLostWakeup
<1>2. CASE ~MayPush
  <2>1. /\ buf_' = buf_ /\ item' = [item EXCEPT ![p] = x]
        /\ Sleep(p) /\ Len(buf_) = capacity_
    BY <1>0, <1>2 DEF Push, MayPush
  <2>2. /\ pc' \in [Threads -> {"out", "asleep", "woken"}]
        /\ Asleep(pc', Consumers) = Asleep(pc, Consumers)
        /\ Woken(Consumers)' = Woken(Consumers)
    BY <1>0, <1>a, <2>1, SleepStep
  <2>3. TypeOK'
    BY <1>0, <2>1, <2>2 DEF TypeOK
  <2>4. capacity_ - Len(buf_') <= Cardinality(Woken(Producers)')
    BY <1>0, <1>b, <2>1
  <2> QED  BY <1>0, <2>1, <2>2, <2>3, <2>4 DEF IInv, NoLostWakeup
<1> QED  BY <1>1, <1>2

LEMMA StepPop ==
  ASSUME IInv, NEW c \in Consumers, Pop(c)
  PROVE  IInv'
<1>0. /\ pc[c] \in {"out", "woken"} /\ TypeOK /\ NoLostWakeup
      /\ capacity_ \in Nat /\ Len(buf_) \in Nat /\ Len(buf_) <= capacity_
      /\ item' = item
  BY BufferAssumption DEF Pop, IInv, TypeOK
<1>a. Sides(Producers, Consumers) /\ IsFiniteSet(Producers) /\ IsFiniteSet(Consumers)
  BY BufferAssumption DEF Sides
<1>b. /\ Cardinality(Woken(Producers)) \in Nat /\ Cardinality(Woken(Producers)') \in Nat
      /\ Cardinality(Woken(Consumers)) \in Nat /\ Cardinality(Woken(Consumers)') \in Nat
  BY <1>a, WokenFinite
<1>1. CASE MayPop
  <2>1. buf_' = Tail(buf_) /\ NotifyOne(Leave(c), Producers) /\ buf_ # <<>>
    BY <1>1 DEF Pop, MayPop
  <2>2. /\ pc' \in [Threads -> {"out", "asleep", "woken"}]
        /\ Asleep(pc', Consumers) = Asleep(pc, Consumers)
        /\ Cardinality(Woken(Consumers)') >= Cardinality(Woken(Consumers)) - 1
        /\ Asleep(pc', Producers) # {} => Asleep(pc, Producers) # {}
        /\ Asleep(pc', Producers) # {}
             => Cardinality(Woken(Producers)') = Cardinality(Woken(Producers)) + 1
    BY <1>0, <1>a, <2>1, NotifyStep
  <2>3. Len(buf_') = Len(buf_) - 1 /\ buf_' \in Seq(Items)
    BY <1>0, <2>1 DEF TypeOK
  <2>4. TypeOK'
    BY <1>0, <2>2, <2>3 DEF TypeOK
  <2>5. Asleep(pc', Producers) # {} => capacity_ - Len(buf_') <= Cardinality(Woken(Producers)')
    BY <1>0, <1>b, <2>2, <2>3 DEF NoLostWakeup
  <2>6. Asleep(pc', Consumers) # {} => Len(buf_') <= Cardinality(Woken(Consumers)')
    BY <1>0, <1>b, <2>2, <2>3 DEF NoLostWakeup
  <2> QED  BY <2>4, <2>5, <2>6 DEF IInv, NoLostWakeup
<1>2. CASE ~MayPop
  <2>1. buf_' = buf_ /\ Sleep(c) /\ Len(buf_) = 0
    BY <1>0, <1>2 DEF Pop, MayPop
  <2>2. /\ pc' \in [Threads -> {"out", "asleep", "woken"}]
        /\ Asleep(pc', Producers) = Asleep(pc, Producers)
        /\ Woken(Producers)' = Woken(Producers)
    BY <1>0, <1>a, <2>1, SleepStep
  <2>3. TypeOK'
    BY <1>0, <2>1, <2>2 DEF TypeOK
  <2>4. Len(buf_') <= Cardinality(Woken(Consumers)')
    BY <1>0, <1>b, <2>1
  <2> QED  BY <1>0, <2>1, <2>2, <2>3, <2>4 DEF IInv, NoLostWakeup
<1> QED  BY <1>1, <1>2

LEMMA StepSpuriousWakeup ==
  ASSUME IInv, NEW t \in Threads, SpuriousWakeup(t)
  PROVE  IInv'
<1>0. /\ TypeOK /\ NoLostWakeup /\ buf_' = buf_ /\ item' = item
      /\ pc[t] = "asleep" /\ pc' = [pc EXCEPT ![t] = "woken"]
      /\ Len(buf_) \in Nat /\ capacity_ \in Nat
  BY BufferAssumption DEF SpuriousWakeup, IInv, TypeOK
<1>1. TypeOK'
  BY <1>0 DEF TypeOK
<1>2. ASSUME NEW S \in {Producers, Consumers}
      PROVE  /\ Asleep(pc', S) \subseteq Asleep(pc, S)
             /\ Cardinality(Woken(S)') \in Nat /\ Cardinality(Woken(S)) \in Nat
             /\ Cardinality(Woken(S)) <= Cardinality(Woken(S)')
  <2>1. S \subseteq Threads /\ IsFiniteSet(S)
    BY BufferAssumption DEF Threads
  <2>2. Woken(S) \subseteq Woken(S)' /\ Asleep(pc', S) \subseteq Asleep(pc, S)
    BY <1>0, <2>1 DEF TypeOK, Woken, Asleep
  <2> QED  BY <2>1, <2>2, WokenFinite, FS_Subset
<1>3. NoLostWakeup'
  <2>0. /\ Asleep(pc', Producers) # {} => Asleep(pc, Producers) # {}
        /\ Asleep(pc', Consumers) # {} => Asleep(pc, Consumers) # {}
        /\ Len(buf_') = Len(buf_) /\ Len(buf_) \in Nat /\ capacity_ \in Nat
        /\ NoLostWakeup
        /\ Cardinality(Woken(Producers)) <= Cardinality(Woken(Producers)')
        /\ Cardinality(Woken(Consumers)) <= Cardinality(Woken(Consumers)')
        /\ Cardinality(Woken(Producers)) \in Nat /\ Cardinality(Woken(Producers)') \in Nat
        /\ Cardinality(Woken(Consumers)) \in Nat /\ Cardinality(Woken(Consumers)') \in Nat
    BY <1>0, <1>2
  <2>1. Asleep(pc', Producers) # {} => capacity_ - Len(buf_') <= Cardinality(Woken(Producers)')
    BY <2>0 DEF NoLostWakeup
  <2>2. Asleep(pc', Consumers) # {} => Len(buf_') <= Cardinality(Woken(Consumers)')
    BY <2>0 DEF NoLostWakeup
  <2> QED  BY <2>1, <2>2 DEF NoLostWakeup
<1> QED  BY <1>1, <1>3 DEF IInv

LEMMA NextInv == IInv /\ [Next]_bufferVars => IInv'
<1> SUFFICES ASSUME IInv, [Next]_bufferVars PROVE IInv'
  OBVIOUS
<1>1. ASSUME NEW p \in Producers, NEW x \in Items, Push(p, x) PROVE IInv'
  BY <1>1, StepPush
<1>2. ASSUME NEW c \in Consumers, Pop(c) PROVE IInv'
  BY <1>2, StepPop
<1>3. ASSUME NEW t \in Threads, SpuriousWakeup(t) PROVE IInv'
  BY <1>3, StepSpuriousWakeup
<1>4. CASE UNCHANGED bufferVars
  BY <1>4 DEF bufferVars, IInv, TypeOK, NoLostWakeup, Asleep, Woken
<1> QED  BY <1>1, <1>2, <1>3, <1>4 DEF Next

-----------------------------------------------------------------------------
(* Types, and the capacity, hold of every reachable state.                 *)
THEOREM BufferTypes == Spec => []TypeOK
<1>1. IInv => TypeOK
  BY DEF IInv
<1> QED  BY InitInv, NextInv, <1>1, PTL DEF Spec

(* One notification per push and per pop is enough: no wakeup is lost.     *)
THEOREM BufferLosesNoWakeup == Spec => []NoLostWakeup
<1>1. IInv => NoLostWakeup
  BY DEF IInv
<1> QED  BY InitInv, NextInv, <1>1, PTL DEF Spec

(* Pushers and poppers are never all asleep at once.                       *)
THEOREM BufferNotAllAsleep == Spec => []NotAllAsleep
<1>1. IInv => NotAllAsleep
  <2> SUFFICES ASSUME IInv, capacity_ > 0, \A t \in Threads : pc[t] = "asleep",
                      Producers # {}, Consumers # {}
               PROVE  FALSE
    BY DEF NotAllAsleep
  <2>1. /\ Woken(Producers) = {} /\ Woken(Consumers) = {}
        /\ Asleep(pc, Producers) # {} /\ Asleep(pc, Consumers) # {}
    BY DEF Woken, Asleep, Threads
  <2>2. Cardinality({}) = 0
    BY FS_EmptySet
  <2>3. capacity_ - Len(buf_) <= 0 /\ Len(buf_) <= 0 /\ Len(buf_) \in Nat
    BY <2>1, <2>2 DEF IInv, NoLostWakeup, TypeOK
  <2> QED  BY <2>3, BufferAssumption
<1> QED  BY InitInv, NextInv, <1>1, PTL DEF Spec

LEMMA BufferStepIsChannelStep == [Next]_bufferVars => [Channel!Next]_buf_
BY DEF Next, Push, Pop, SpuriousWakeup, bufferVars, MayPush, MayPop,
       Channel!Next, Channel!Put, Channel!Take

(* The buffer implements a first-in first-out channel of its capacity.     *)
THEOREM BufferImplements == Spec => ImplementsChannel
<1>1. Init => Channel!Init
  BY DEF Init, BufferInit, Channel!Init
<1> QED  BY <1>1, BufferStepIsChannelStep, PTL DEF Spec, ImplementsChannel, Channel!Spec

-----------------------------------------------------------------------------
(* The program.  Its steps are steps of the buffer or leave it alone.      *)
Popping == {c \in Consumers : step[c] = "pop"}
Adding == {c \in Consumers : step[c] = "add"}
Values == [x \in Items |-> Value(x)]
Lens == [c \in Consumers |-> Len(got[c])]
LastValues == [c \in Consumers |-> IF got[c] = <<>> THEN 0 ELSE Value(Last(got[c]))]

(* Where each thread is in its loop, and what it knows there.              *)
Loops ==
  /\ \A p \in Producers : step[p] = IF i[p] < kItemsPerProducer THEN "push" ELSE "done"
  /\ \A c \in Consumers : /\ step[c] \in {"load", "cas", "pop", "add", "done"}
                          /\ step[c] = "cas" => prev[c] < kTotal
                          /\ step[c] = "add" => got[c] # <<>>
                          /\ step[c] = "done" => consumed >= kTotal
  /\ joined => \A t \in Threads : step[t] = "done"

(* What has been pushed is in one place of the buffer or of what one       *)
(* consumer has popped.                                                    *)
OnePlace ==
  /\ \A j, k \in 1 .. Len(buf_) : buf_[j] = buf_[k] => j = k
  /\ \A c \in Consumers : \A j, k \in 1 .. Len(got[c]) : got[c][j] = got[c][k] => j = k
  /\ \A c \in Consumers : \A j \in 1 .. Len(got[c]), k \in 1 .. Len(buf_) : got[c][j] # buf_[k]
  /\ \A c, d \in Consumers : c # d =>
       \A j \in 1 .. Len(got[c]), k \in 1 .. Len(got[d]) : got[c][j] # got[d][k]
  /\ \A x \in Items : x[2] < i[x[1]] <=>
       \/ \E k \in 1 .. Len(buf_) : buf_[k] = x
       \/ \E c \in Consumers : \E k \in 1 .. Len(got[c]) : got[c][k] = x

CountsAgree ==
  /\ consumed = Total(Lens, Consumers) + Cardinality(Popping)
  /\ total + Total(LastValues, Adding) = Total(Values, Popped)

MInv == IInv /\ MainTypeOK /\ Loops /\ OnePlace /\ CountsAgree

-----------------------------------------------------------------------------
LEMMA ItemsFacts ==
  /\ IsFiniteSet(Producers) /\ IsFiniteSet(Consumers) /\ Producers \cap Consumers = {}
  /\ kProducers \in Nat /\ kItemsPerProducer \in Nat \ {0} /\ kTotal \in Nat
  /\ Producers \subseteq Nat
  /\ Items = Producers \X (0 .. kItemsPerProducer - 1)
  /\ IsFiniteSet(Items) /\ Cardinality(Items) = kTotal
  /\ \A x \in Items : Value(x) \in Nat
<1>1. /\ IsFiniteSet(Producers) /\ IsFiniteSet(Consumers) /\ Producers \cap Consumers = {}
      /\ kProducers \in Nat /\ kItemsPerProducer \in Nat \ {0}
      /\ Producers = 0 .. kProducers - 1
      /\ Items = Producers \X (0 .. kItemsPerProducer - 1)
  BY BufferAssumption, MainAssumption
<1>2. kTotal \in Nat /\ Producers \subseteq Nat
  BY <1>1 DEF kTotal
<1>3. ASSUME NEW n \in Nat PROVE IsFiniteSet(0 .. n - 1) /\ Cardinality(0 .. n - 1) = n
  <2>1. 0 \in Int /\ n - 1 \in Int
    OBVIOUS
  <2>2. /\ IsFiniteSet(0 .. n - 1)
        /\ Cardinality(0 .. n - 1) = IF 0 > n - 1 THEN 0 ELSE (n - 1) - 0 + 1
    BY <2>1, FS_Interval
  <2> QED  BY <2>2
<1>4. /\ IsFiniteSet(Producers) /\ Cardinality(Producers) = kProducers
      /\ IsFiniteSet(0 .. kItemsPerProducer - 1)
      /\ Cardinality(0 .. kItemsPerProducer - 1) = kItemsPerProducer
  BY <1>1, <1>3
<1>5. IsFiniteSet(Items) /\ Cardinality(Items) = kTotal
  <2>1. /\ IsFiniteSet(Producers \X (0 .. kItemsPerProducer - 1))
        /\ Cardinality(Producers \X (0 .. kItemsPerProducer - 1))
             = Cardinality(Producers) * Cardinality(0 .. kItemsPerProducer - 1)
    BY <1>4, FS_Product
  <2> QED  BY <1>1, <1>4, <2>1 DEF kTotal
<1>6. \A x \in Items : Value(x) \in Nat
  BY <1>1, <1>2 DEF Value
<1> QED  BY <1>1, <1>2, <1>5, <1>6

(* What the steps that push and pop do to the queue.                       *)
LEMMA PushOutcome ==
  ASSUME MInv, NEW p \in Producers, PushNext(p)
  PROVE  /\ <<p, i[p]>> \in Items /\ i[p] \in Nat /\ i[p] < kItemsPerProducer
         /\ Push(p, <<p, i[p]>>)
         /\ \/ buf_' = Append(buf_, <<p, i[p]>>) /\ i' = [i EXCEPT ![p] = @ + 1]
            \/ buf_' = buf_ /\ i' = i
<1>0. /\ step[p] = "push" /\ Push(p, <<p, i[p]>>)
      /\ i' = IF pc'[p] = "out" THEN [i EXCEPT ![p] = @ + 1] ELSE i
  BY DEF PushNext
<1>1. i[p] \in Nat /\ i[p] < kItemsPerProducer
  <2>1. i[p] \in 0 .. kItemsPerProducer
    BY DEF MInv, MainTypeOK
  <2> QED  BY <1>0, <2>1, ItemsFacts DEF MInv, Loops
<1>2. <<p, i[p]>> \in Items
  BY <1>1, ItemsFacts
<1>3. p \in Threads /\ p \notin Consumers /\ pc \in [Threads -> {"out", "asleep", "woken"}]
  BY ItemsFacts DEF MInv, IInv, TypeOK, Threads
<1>4. CASE buf_' = Append(buf_, <<p, i[p]>>) /\ NotifyOne(Leave(p), Consumers)
  <2>1. pc'[p] = "out"
    BY <1>3, <1>4 DEF NotifyOne, Leave, Asleep
  <2> QED  BY <1>0, <1>1, <1>2, <1>4, <2>1
<1>5. CASE buf_' = buf_ /\ Sleep(p)
  <2>1. pc'[p] = "asleep"
    BY <1>3, <1>5 DEF Sleep
  <2> QED  BY <1>0, <1>1, <1>2, <1>5, <2>1
<1> QED  BY <1>0, <1>4, <1>5 DEF Push

LEMMA PopOutcome ==
  ASSUME MInv, NEW c \in Consumers, PopItem(c)
  PROVE  \/ /\ buf_ # <<>> /\ buf_' = Tail(buf_)
            /\ got' = [got EXCEPT ![c] = Append(@, Head(buf_))]
            /\ step' = [step EXCEPT ![c] = "add"]
         \/ buf_' = buf_ /\ got' = got /\ step' = step
<1>1. /\ c \in Threads /\ c \notin Producers /\ pc \in [Threads -> {"out", "asleep", "woken"}]
  BY ItemsFacts DEF MInv, IInv, TypeOK, Threads
<1>2. CASE MayPop /\ buf_' = Tail(buf_) /\ NotifyOne(Leave(c), Producers)
  <2>1. pc'[c] = "out"
    BY <1>1, <1>2 DEF NotifyOne, Leave, Asleep
  <2> QED  BY <1>2, <2>1 DEF PopItem, MayPop, Goto
<1>3. CASE buf_' = buf_ /\ Sleep(c)
  <2>1. pc'[c] = "asleep"
    BY <1>1, <1>3 DEF Sleep
  <2> QED  BY <1>3, <2>1 DEF PopItem
<1> QED  BY <1>2, <1>3 DEF PopItem, Pop

LEMMA BufferSteps == MInv /\ [MainNext]_vars => [Next]_bufferVars
<1> SUFFICES ASSUME MInv, [MainNext]_vars PROVE [Next]_bufferVars
  OBVIOUS
<1>1. ASSUME NEW p \in Producers, PushNext(p) PROVE Next
  BY <1>1, PushOutcome DEF Next
<1>2. ASSUME NEW c \in Consumers, Consume(c) PROVE [Next]_bufferVars
  BY <1>2 DEF Next, Consume, LoadTicket, TakeTicket, PopItem, AddToTotal
<1>3. ASSUME NEW t \in Threads, Wakeup(t) PROVE Next
  BY <1>3 DEF Wakeup, Next
<1>4. CASE Join \/ Returned \/ UNCHANGED vars
  BY <1>4 DEF Join, Returned, vars
<1> QED  BY <1>1, <1>2, <1>3, <1>4 DEF MainNext

-----------------------------------------------------------------------------
(* The sums of the program's properties.                                   *)
LEMMA LensTotal ==
  ASSUME MainTypeOK
  PROVE  PoppedCount = Total(Lens, Consumers) /\ Total(Lens, Consumers) \in Int
<1>1. \A c \in Consumers : Lens[c] \in Int /\ Lens[c] = Len(got[c])
  BY LenProperties DEF MainTypeOK, Lens
<1> DEFINE g == CHOOSE g : g = [s \in SUBSET Consumers |->
                  IF s = {} THEN 0
                  ELSE Len(got[CHOOSE x \in s : TRUE]) + g[s \ {CHOOSE x \in s : TRUE}]]
<1>2. PoppedCount = g[Consumers]
  <2>1. DOMAIN got = Consumers
    BY DEF MainTypeOK
  <2> QED  BY <2>1 DEF PoppedCount, FoldFunction, FoldFunctionOnSet, MapThenFoldSet
<1>3. ASSUME NEW s \in SUBSET Consumers, s # {}
      PROVE  Lens[AnyOf(s)] = Len(got[CHOOSE x \in s : TRUE])
  <2>1. AnyOf(s) \in Consumers
    BY <1>3 DEF AnyOf
  <2> QED  BY <1>1, <2>1 DEF AnyOf
<1>4. PICK k : Solves(k, Lens, Consumers)
  BY <1>1, FoldIsTotal, ItemsFacts
<1>5. k = [s \in SUBSET Consumers |->
             IF s = {} THEN 0
             ELSE Len(got[CHOOSE x \in s : TRUE]) + k[s \ {CHOOSE x \in s : TRUE}]]
  BY <1>3, <1>4 DEF Solves, AnyOf
<1>6. g = [s \in SUBSET Consumers |->
             IF s = {} THEN 0
             ELSE Len(got[CHOOSE x \in s : TRUE]) + g[s \ {CHOOSE x \in s : TRUE}]]
  BY <1>5
<1> HIDE DEF g
<1>7. Solves(g, Lens, Consumers)
  BY <1>3, <1>6 DEF Solves, AnyOf
<1> QED  BY <1>1, <1>2, <1>7, FoldIsTotal, ItemsFacts

LEMMA LastValuesFacts ==
  ASSUME MainTypeOK, NEW c \in Consumers
  PROVE  /\ LastValues[c] \in Int
         /\ got[c] # <<>> => LastValues[c] = Value(Last(got[c])) /\ Last(got[c]) \in Items
<1>1. got[c] \in Seq(Items)
  BY DEF MainTypeOK
<1>2. got[c] # <<>> => Last(got[c]) \in Items
  BY <1>1, EmptySeq, LenProperties DEF Last
<1> QED  BY <1>2, ItemsFacts DEF LastValues

LEMMA LastValuesTotal ==
  ASSUME MainTypeOK, Loops
  PROVE  MapThenSumSet(LAMBDA c : Value(Last(got[c])), Adding) = Total(LastValues, Adding)
<1>1. ASSUME NEW c \in Adding PROVE LastValues[c] \in Int /\ LastValues[c] = Value(Last(got[c]))
  BY LastValuesFacts DEF Adding, Loops
<1>0. IsFiniteSet(Adding)
  BY ItemsFacts, FS_Subset DEF Adding
<1> DEFINE g == CHOOSE g : g = [s \in SUBSET Adding |->
                  IF s = {} THEN 0
                  ELSE Value(Last(got[CHOOSE x \in s : TRUE])) + g[s \ {CHOOSE x \in s : TRUE}]]
<1>2. MapThenSumSet(LAMBDA c : Value(Last(got[c])), Adding) = g[Adding]
  BY DEF MapThenSumSet, MapThenFoldSet
<1>3. ASSUME NEW s \in SUBSET Adding, s # {}
      PROVE  LastValues[AnyOf(s)] = Value(Last(got[CHOOSE x \in s : TRUE]))
  <2>1. AnyOf(s) \in Adding
    BY <1>3 DEF AnyOf
  <2> QED  BY <1>1, <2>1 DEF AnyOf
<1>4. PICK k : Solves(k, LastValues, Adding)
  BY <1>0, <1>1, FoldIsTotal
<1>5. k = [s \in SUBSET Adding |->
             IF s = {} THEN 0
             ELSE Value(Last(got[CHOOSE x \in s : TRUE])) + k[s \ {CHOOSE x \in s : TRUE}]]
  BY <1>3, <1>4 DEF Solves, AnyOf
<1>6. g = [s \in SUBSET Adding |->
             IF s = {} THEN 0
             ELSE Value(Last(got[CHOOSE x \in s : TRUE])) + g[s \ {CHOOSE x \in s : TRUE}]]
  BY <1>5
<1> HIDE DEF g
<1>7. Solves(g, LastValues, Adding)
  BY <1>3, <1>6 DEF Solves, AnyOf
<1> QED  BY <1>0, <1>1, <1>2, <1>7, FoldIsTotal

LEMMA PoppedItems ==
  ASSUME MainTypeOK
  PROVE  /\ Popped \subseteq Items /\ IsFiniteSet(Popped)
         /\ \A x : x \in Popped <=> \E c \in Consumers : \E k \in 1 .. Len(got[c]) : got[c][k] = x
         /\ \A x \in Popped : Values[x] \in Int /\ Values[x] = Value(x)
<1>1. \A c \in Consumers : /\ got[c] \in Seq(Items) /\ DOMAIN got[c] = 1 .. Len(got[c])
                           /\ \A k \in 1 .. Len(got[c]) : got[c][k] \in Items
  BY LenProperties DEF MainTypeOK
<1>2. \A x : x \in Popped <=> \E c \in Consumers : \E k \in 1 .. Len(got[c]) : got[c][k] = x
  BY <1>1 DEF Popped, ToSet
<1>3. Popped \subseteq Items
  BY <1>1, <1>2
<1> QED  BY <1>2, <1>3, ItemsFacts, FS_Subset DEF Values

LEMMA ValuesTotal ==
  ASSUME MainTypeOK
  PROVE  MapThenSumSet(Value, Popped) = Total(Values, Popped)
<1>1. IsFiniteSet(Popped) /\ \A x \in Popped : Values[x] \in Int /\ Values[x] = Value(x)
  BY PoppedItems
<1> DEFINE g == CHOOSE g : g = [s \in SUBSET Popped |->
                  IF s = {} THEN 0
                  ELSE Value(CHOOSE x \in s : TRUE) + g[s \ {CHOOSE x \in s : TRUE}]]
<1>2. MapThenSumSet(Value, Popped) = g[Popped]
  BY DEF MapThenSumSet, MapThenFoldSet
<1>3. ASSUME NEW s \in SUBSET Popped, s # {}
      PROVE  Values[AnyOf(s)] = Value(CHOOSE x \in s : TRUE)
  <2>1. AnyOf(s) \in Popped
    BY <1>3 DEF AnyOf
  <2> QED  BY <1>1, <2>1 DEF AnyOf
<1>4. PICK k : Solves(k, Values, Popped)
  BY <1>1, FoldIsTotal
<1>5. k = [s \in SUBSET Popped |->
             IF s = {} THEN 0
             ELSE Value(CHOOSE x \in s : TRUE) + k[s \ {CHOOSE x \in s : TRUE}]]
  BY <1>3, <1>4 DEF Solves, AnyOf
<1>6. g = [s \in SUBSET Popped |->
             IF s = {} THEN 0
             ELSE Value(CHOOSE x \in s : TRUE) + g[s \ {CHOOSE x \in s : TRUE}]]
  BY <1>5
<1> HIDE DEF g
<1>7. Solves(g, Values, Popped)
  BY <1>3, <1>6 DEF Solves, AnyOf
<1> QED  BY <1>1, <1>2, <1>7, FoldIsTotal

-----------------------------------------------------------------------------
LEMMA MainInitInv == MainInit => MInv
<1> SUFFICES ASSUME MainInit PROVE MInv
  OBVIOUS
<1>0. /\ buf_ = <<>> /\ pc = [t \in Threads |-> "out"] /\ item = [p \in Producers |-> <<p, 0>>]
      /\ consumed = 0 /\ total = 0 /\ joined = FALSE
      /\ step = [t \in Threads |-> IF t \in Producers THEN "push" ELSE "load"]
      /\ i = [p \in Producers |-> 0] /\ prev = [c \in Consumers |-> 0]
      /\ got = [c \in Consumers |-> <<>>]
  BY DEF MainInit
<1>1. IInv
  <2>1. item \in [Producers -> Items]
    BY <1>0, ItemsFacts
  <2> QED  BY <1>0, <2>1, InitInv DEF Init, BufferInit
<1>2. MainTypeOK
  <2>1. TypeOK /\ consumed \in 0 .. kTotal /\ total \in Nat
    BY <1>0, <1>1, ItemsFacts DEF IInv
  <2>2. step \in [Threads -> {"push", "load", "cas", "pop", "add", "done"}]
    BY <1>0
  <2>3. i \in [Producers -> 0 .. kItemsPerProducer] /\ prev \in [Consumers -> 0 .. kTotal]
    BY <1>0, ItemsFacts
  <2>4. got \in [Consumers -> Seq(Items)]
    <3>1. <<>> \in Seq(Items)
      BY EmptySeq
    <3> QED  BY <1>0, <3>1
  <2>5. joined \in BOOLEAN
    BY <1>0
  <2> QED  BY <2>1, <2>2, <2>3, <2>4, <2>5 DEF MainTypeOK
<1>3. Loops
  BY <1>0, ItemsFacts DEF Loops, Threads
<1>4. OnePlace
  <2>1. Len(buf_) = 0 /\ \A c \in Consumers : Len(got[c]) = 0
    BY <1>0
  <2> QED  BY <1>0, <2>1, ItemsFacts DEF OnePlace
<1>5. CountsAgree
  <2>1. Popping = {} /\ Adding = {} /\ Popped = {}
    BY <1>0, ItemsFacts DEF Popping, Adding, Popped, ToSet, Threads
  <2>2. \A c \in Consumers : Lens[c] = 0
    BY <1>0 DEF Lens
  <2>3. Total(Lens, Consumers) = 0
    BY <2>2, TotalOfZeros, ItemsFacts
  <2>4. Cardinality({}) = 0
    BY FS_EmptySet
  <2> QED  BY <1>0, <2>1, <2>3, <2>4, TotalOfNone DEF CountsAgree
<1> QED  BY <1>1, <1>2, <1>3, <1>4, <1>5 DEF MInv

(* A step of the buffer keeps what was proved of the class.                *)
LEMMA MainBuffer == MInv /\ [MainNext]_vars => IInv'
BY BufferSteps, NextInv DEF MInv

LEMMA StepPushNext ==
  ASSUME MInv, NEW p \in Producers, PushNext(p), IInv'
  PROVE  MInv'
<1> DEFINE x == <<p, i[p]>>
<1>0. /\ MainTypeOK /\ Loops /\ OnePlace /\ CountsAgree /\ TypeOK
      /\ x \in Items /\ i[p] \in Nat /\ i[p] < kItemsPerProducer
      /\ step' = [step EXCEPT ![p] = IF i'[p] = kItemsPerProducer THEN "done" ELSE "push"]
      /\ consumed' = consumed /\ total' = total /\ prev' = prev /\ got' = got /\ joined' = joined
      /\ \/ buf_' = Append(buf_, x) /\ i' = [i EXCEPT ![p] = @ + 1]
         \/ buf_' = buf_ /\ i' = i
  BY PushOutcome DEF PushNext, Goto, MInv, IInv
<1>1. /\ i \in [Producers -> 0 .. kItemsPerProducer]
      /\ step \in [Threads -> {"push", "load", "cas", "pop", "add", "done"}]
      /\ p \in Threads /\ p \notin Consumers /\ step[p] = "push"
      /\ kItemsPerProducer \in Nat
  BY <1>0, ItemsFacts DEF MainTypeOK, Loops, Threads
<1>2. i' \in [Producers -> 0 .. kItemsPerProducer] /\ i'[p] <= kItemsPerProducer /\ i'[p] \in Nat
  <2>1. CASE i' = i
    BY <1>0, <1>1, <2>1
  <2>2. CASE i' = [i EXCEPT ![p] = @ + 1]
    <3>1. i[p] + 1 \in 0 .. kItemsPerProducer
      BY <1>0, <1>1
    <3> QED  BY <1>1, <2>2, <3>1
  <2> QED  BY <1>0, <2>1, <2>2
<1>3. MainTypeOK'
  BY <1>0, <1>1, <1>2 DEF MainTypeOK, IInv
<1>4. Loops'
  <2>1. \A q \in Producers : q # p => i'[q] = i[q] /\ step'[q] = step[q]
    BY <1>0, <1>1
  <2>2. step'[p] = IF i'[p] < kItemsPerProducer THEN "push" ELSE "done"
    BY <1>0, <1>1, <1>2
  <2>3. \A c \in Consumers : step'[c] = step[c]
    BY <1>0, <1>1
  <2>4. ~ joined
    BY <1>0, <1>1 DEF Loops
  <2> QED  BY <1>0, <2>1, <2>2, <2>3, <2>4 DEF Loops
<1>5. OnePlace'
  <2>1. CASE buf_' = buf_ /\ i' = i
    <3> HIDE DEF x
    <3> QED  BY <1>0, <2>1 DEF OnePlace
  <2>2. CASE buf_' = Append(buf_, x) /\ i' = [i EXCEPT ![p] = @ + 1]
    <3> HIDE DEF x
    <3>1. /\ Len(buf_) \in Nat /\ Len(buf_') = Len(buf_) + 1 /\ buf_'[Len(buf_) + 1] = x
          /\ \A k \in 1 .. Len(buf_) : buf_'[k] = buf_[k]
      BY <1>0, <2>2, AppendProperties, LenProperties DEF TypeOK
    <3>2. \A k \in 1 .. Len(buf_') : k \in 1 .. Len(buf_) \/ k = Len(buf_) + 1
      BY <3>1
    <3>a. 1 .. Len(buf_) \subseteq 1 .. Len(buf_') /\ Len(buf_) + 1 \in 1 .. Len(buf_')
      BY <3>1
    <3>3. ~ (x[2] < i[x[1]])
      BY <1>0, <1>1 DEF x
    <3>4. /\ \A k \in 1 .. Len(buf_) : buf_[k] # x
          /\ \A c \in Consumers : \A k \in 1 .. Len(got[c]) : got[c][k] # x
      BY <1>0, <3>3 DEF OnePlace
    <3>5. \A j, k \in 1 .. Len(buf_') : buf_'[j] = buf_'[k] => j = k
      BY <1>0, <3>1, <3>2, <3>4 DEF OnePlace
    <3>6. \A c \in Consumers : \A j \in 1 .. Len(got[c]), k \in 1 .. Len(buf_') :
            got[c][j] # buf_'[k]
      BY <1>0, <3>1, <3>2, <3>4 DEF OnePlace
    <3>7. ASSUME NEW y \in Items
          PROVE  y[2] < i'[y[1]] <=> y[2] < i[y[1]] \/ y = x
      <4>1. y = <<y[1], y[2]>> /\ y[1] \in Producers /\ y[2] \in Nat
        BY ItemsFacts
      <4>2. CASE y[1] # p
        <5>1. i'[y[1]] = i[y[1]] /\ y # x
          BY <1>1, <2>2, <4>1, <4>2 DEF x
        <5> QED  BY <5>1
      <4>3. CASE y[1] = p
        <5>1. i'[p] = i[p] + 1
          BY <1>1, <2>2
        <5>2. y = x <=> y[2] = i[p]
          BY <4>1, <4>3 DEF x
        <5> QED  BY <1>0, <4>1, <4>3, <5>1, <5>2
      <4> QED  BY <4>2, <4>3
    <3>8. ASSUME NEW y \in Items
          PROVE  (\E k \in 1 .. Len(buf_') : buf_'[k] = y)
                   <=> (\E k \in 1 .. Len(buf_) : buf_[k] = y) \/ y = x
      BY <3>1, <3>2, <3>a
    <3> QED  BY <1>0, <3>5, <3>6, <3>7, <3>8 DEF OnePlace
  <2> QED  BY <1>0, <2>1, <2>2
<1>6. CountsAgree'
  <2>1. Popping' = Popping /\ Adding' = Adding
    BY <1>0, <1>1 DEF Popping, Adding
  <2>2. Lens' = Lens /\ LastValues' = LastValues /\ Popped' = Popped
    BY <1>0 DEF Lens, LastValues, Popped
  <2> QED  BY <1>0, <2>1, <2>2 DEF CountsAgree, Values
<1> QED  BY <1>3, <1>4, <1>5, <1>6 DEF MInv

LEMMA StepLoadTicket ==
  ASSUME MInv, NEW c \in Consumers, LoadTicket(c), IInv'
  PROVE  MInv'
<1>0. /\ MainTypeOK /\ Loops /\ OnePlace /\ CountsAgree
      /\ step[c] = "load" /\ prev' = [prev EXCEPT ![c] = consumed]
      /\ step' = [step EXCEPT ![c] = IF consumed >= kTotal THEN "done" ELSE "cas"]
      /\ consumed' = consumed /\ total' = total /\ i' = i /\ got' = got /\ joined' = joined
      /\ buf_' = buf_
  BY DEF LoadTicket, Goto, MInv, bufferVars
<1>1. /\ step \in [Threads -> {"push", "load", "cas", "pop", "add", "done"}]
      /\ c \in Threads /\ c \notin Producers /\ consumed \in 0 .. kTotal
      /\ prev \in [Consumers -> 0 .. kTotal] /\ kTotal \in Nat
  BY <1>0, ItemsFacts DEF MainTypeOK, Threads
<1>2. MainTypeOK'
  BY <1>0, <1>1 DEF MainTypeOK, IInv
<1>3. Loops'
  <2>1. step'[c] = IF consumed >= kTotal THEN "done" ELSE "cas"
    BY <1>0, <1>1
  <2>2. prev'[c] = consumed /\ \A d \in Consumers : d # c => prev'[d] = prev[d]
    BY <1>0, <1>1
  <2>3. \A t \in Threads : t # c => step'[t] = step[t]
    BY <1>0, <1>1
  <2>4. ~ joined
    BY <1>0, <1>1 DEF Loops
  <2>5. \A p \in Producers : step'[p] = step[p]
    BY <1>1, <2>3 DEF Threads
  <2>6. \A d \in Consumers : d # c => step'[d] = step[d]
    BY <2>3 DEF Threads
  <2> QED  BY <1>0, <1>1, <2>1, <2>2, <2>4, <2>5, <2>6 DEF Loops
<1>4. OnePlace'
  BY <1>0 DEF OnePlace
<1>5. CountsAgree'
  <2>1. Popping' = Popping /\ Adding' = Adding
    BY <1>0, <1>1 DEF Popping, Adding, Threads
  <2>2. Lens' = Lens /\ LastValues' = LastValues /\ Popped' = Popped
    BY <1>0 DEF Lens, LastValues, Popped
  <2> QED  BY <1>0, <2>1, <2>2 DEF CountsAgree, Values
<1> QED  BY <1>2, <1>3, <1>4, <1>5 DEF MInv

LEMMA StepTakeTicket ==
  ASSUME MInv, NEW c \in Consumers, TakeTicket(c), IInv'
  PROVE  MInv'
<1>0. /\ MainTypeOK /\ Loops /\ OnePlace /\ CountsAgree
      /\ step[c] = "cas" /\ prev' = prev
      /\ \/ consumed = prev[c] /\ consumed' = prev[c] + 1 /\ step' = [step EXCEPT ![c] = "pop"]
         \/ consumed' = consumed /\ step' = [step EXCEPT ![c] = "load"]
      /\ total' = total /\ i' = i /\ got' = got /\ joined' = joined /\ buf_' = buf_
  BY DEF TakeTicket, Goto, MInv, bufferVars
<1>1. /\ step \in [Threads -> {"push", "load", "cas", "pop", "add", "done"}]
      /\ c \in Threads /\ c \notin Producers /\ consumed \in 0 .. kTotal
      /\ prev \in [Consumers -> 0 .. kTotal] /\ kTotal \in Nat
      /\ prev[c] < kTotal /\ prev[c] \in Nat
  BY <1>0, ItemsFacts DEF MainTypeOK, Threads, Loops
<1>a. consumed' \in 0 .. kTotal /\ consumed' >= consumed
  BY <1>0, <1>1
<1>b. /\ step' \in [Threads -> {"push", "load", "cas", "pop", "add", "done"}]
      /\ step'[c] \in {"pop", "load"}
  BY <1>0, <1>1
<1>2. MainTypeOK'
  BY <1>0, <1>1, <1>a, <1>b DEF MainTypeOK, IInv
<1>3. Loops'
  <2>3. \A t \in Threads : t # c => step'[t] = step[t]
    BY <1>0, <1>1
  <2>4. ~ joined
    BY <1>0, <1>1 DEF Loops
  <2>5. \A p \in Producers : step'[p] = step[p]
    BY <1>1, <2>3 DEF Threads
  <2>6. \A d \in Consumers : d # c => step'[d] = step[d]
    BY <2>3 DEF Threads
  <2>7. consumed >= kTotal => consumed' >= kTotal
    BY <1>1, <1>a
  <2> QED  BY <1>0, <1>1, <1>b, <2>4, <2>5, <2>6, <2>7 DEF Loops
<1>4. OnePlace'
  BY <1>0 DEF OnePlace
<1>5. CountsAgree'
  <2>1. Adding' = Adding
    BY <1>0, <1>1 DEF Adding, Threads
  <2>2. Lens' = Lens /\ LastValues' = LastValues /\ Popped' = Popped
    BY <1>0 DEF Lens, LastValues, Popped
  <2>3. total' + Total(LastValues', Adding') = Total(Values, Popped')
    BY <1>0, <2>1, <2>2 DEF CountsAgree
  <2>4. consumed' = Total(Lens', Consumers) + Cardinality(Popping')
    <3>1. CASE consumed' = consumed /\ step' = [step EXCEPT ![c] = "load"]
      <4>1. Popping' = Popping
        BY <1>0, <1>1, <3>1 DEF Popping, Threads
      <4> QED  BY <1>0, <2>2, <3>1, <4>1 DEF CountsAgree
    <3>2. CASE consumed' = consumed + 1 /\ step' = [step EXCEPT ![c] = "pop"]
      <4>1. Popping' = Popping \cup {c} /\ c \notin Popping
        BY <1>0, <1>1, <3>2 DEF Popping, Threads
      <4>2. IsFiniteSet(Popping)
        BY ItemsFacts, FS_Subset DEF Popping
      <4>3. Cardinality(Popping') = Cardinality(Popping) + 1 /\ Cardinality(Popping) \in Nat
        BY <4>1, <4>2, FS_AddElement, FS_CardinalityType
      <4>4. Total(Lens, Consumers) \in Int
        BY <1>0, LensTotal
      <4> QED  BY <1>0, <2>2, <3>2, <4>3, <4>4 DEF CountsAgree
    <3> QED  BY <1>0, <3>1, <3>2
  <2> QED  BY <2>3, <2>4 DEF CountsAgree, Values
<1> QED  BY <1>2, <1>3, <1>4, <1>5 DEF MInv

LEMMA StepPopItem ==
  ASSUME MInv, NEW c \in Consumers, PopItem(c), IInv'
  PROVE  MInv'
<1>0. /\ MainTypeOK /\ Loops /\ OnePlace /\ CountsAgree /\ TypeOK /\ TypeOK'
      /\ step[c] = "pop" /\ prev' = prev /\ consumed' = consumed /\ total' = total
      /\ i' = i /\ joined' = joined
      /\ \/ /\ buf_ # <<>> /\ buf_' = Tail(buf_)
            /\ got' = [got EXCEPT ![c] = Append(@, Head(buf_))]
            /\ step' = [step EXCEPT ![c] = "add"]
         \/ buf_' = buf_ /\ got' = got /\ step' = step
  BY PopOutcome DEF PopItem, MInv, IInv
<1>1. CASE buf_' = buf_ /\ got' = got /\ step' = step
  <2>1. MainTypeOK'
    BY <1>0, <1>1 DEF MainTypeOK
  <2>2. Loops'
    BY <1>0, <1>1 DEF Loops
  <2>3. OnePlace'
    BY <1>0, <1>1 DEF OnePlace
  <2>4. CountsAgree'
    <3>1. /\ Popping' = Popping /\ Adding' = Adding
          /\ Lens' = Lens /\ LastValues' = LastValues /\ Popped' = Popped
      BY <1>1 DEF Popping, Adding, Lens, LastValues, Popped
    <3> QED  BY <1>0, <3>1 DEF CountsAgree, Values
  <2> QED  BY <2>1, <2>2, <2>3, <2>4 DEF MInv
<1>2. CASE /\ buf_ # <<>> /\ buf_' = Tail(buf_)
           /\ got' = [got EXCEPT ![c] = Append(@, Head(buf_))]
           /\ step' = [step EXCEPT ![c] = "add"]
  <2> DEFINE x == Head(buf_)  m == Len(got[c])  n == Len(buf_)
  <2>1. /\ step \in [Threads -> {"push", "load", "cas", "pop", "add", "done"}]
        /\ got \in [Consumers -> Seq(Items)] /\ got[c] \in Seq(Items) /\ m \in Nat
        /\ c \in Threads /\ c \notin Producers
    BY <1>0, ItemsFacts, LenProperties DEF MainTypeOK, Threads
  <2>2. /\ n \in Nat \ {0} /\ x = buf_[1] /\ x \in Items /\ Len(buf_') = n - 1
        /\ \A k \in 1 .. n - 1 : buf_'[k] = buf_[k + 1]
    <3>1. buf_ \in Seq(Items) /\ n \in Nat \ {0}
      BY <1>0, <1>2, EmptySeq DEF TypeOK
    <3>2. Head(buf_) \in Items /\ Head(buf_) = buf_[1]
      BY <1>2, <3>1, HeadTailProperties
    <3>3. Len(buf_') = n - 1 /\ \A k \in 1 .. n - 1 : buf_'[k] = buf_[k + 1]
      BY <1>2, <3>1, HeadTailProperties
    <3> QED  BY <3>1, <3>2, <3>3
  <2> HIDE DEF x, n
  <2>3. /\ got'[c] \in Seq(Items) /\ Len(got'[c]) = m + 1 /\ got'[c][m + 1] = x
        /\ \A k \in 1 .. m : got'[c][k] = got[c][k]
    <3>1. got'[c] = Append(got[c], x)
      BY <1>2, <2>1 DEF x
    <3> QED  BY <2>1, <2>2, <3>1, AppendProperties
  <2>4. /\ got' \in [Consumers -> Seq(Items)] /\ \A d \in Consumers : d # c => got'[d] = got[d]
    <3>1. got' = [got EXCEPT ![c] = got'[c]]
      BY <1>2, <2>1
    <3>2. DOMAIN got' = Consumers /\ \A d \in Consumers : d # c => got'[d] = got[d]
      BY <1>2, <2>1
    <3> QED  BY <2>1, <2>3, <3>1, <3>2
  <2> HIDE DEF m
  <2>5. step'[c] = "add" /\ \A t \in Threads : t # c => step'[t] = step[t]
    BY <1>2, <2>1
  <2>6. step' \in [Threads -> {"push", "load", "cas", "pop", "add", "done"}]
    BY <1>2, <2>1
  <2>7. MainTypeOK'
    BY <1>0, <2>4, <2>6 DEF MainTypeOK
  <2>8. Loops'
    <3>1. ~ joined
      BY <1>0, <2>1 DEF Loops
    <3>2. \A p \in Producers : step'[p] = step[p]
      BY <2>1, <2>5 DEF Threads
    <3>3. \A d \in Consumers : d # c => step'[d] = step[d]
      BY <2>5 DEF Threads
    <3>4. got'[c] # <<>>
      BY <2>1, <2>3
    <3> QED  BY <1>0, <2>4, <2>5, <3>1, <3>2, <3>3, <3>4 DEF Loops
  <2>9. OnePlace'
    <3>1. /\ \A k \in 1 .. Len(got'[c]) : k \in 1 .. m \/ k = m + 1
          /\ 1 .. m \subseteq 1 .. Len(got'[c]) /\ m + 1 \in 1 .. Len(got'[c])
      BY <2>1, <2>3
    <3>2. \A k \in 1 .. Len(buf_') : k \in 1 .. n - 1 /\ k + 1 \in 1 .. n /\ k + 1 # 1
      BY <2>2
    <3>3. /\ 1 \in 1 .. n /\ x = buf_[1]
          /\ \A k \in 1 .. n : k = 1 \/ (k - 1 \in 1 .. Len(buf_') /\ buf_'[k - 1] = buf_[k])
      <4>1. \A k \in 1 .. n : k # 1 => k - 1 \in 1 .. n - 1 /\ (k - 1) + 1 = k
        BY <2>2
      <4> QED  BY <2>2, <4>1
    <3>4. /\ \A d \in Consumers : \A k \in 1 .. Len(got[d]) : got[d][k] # x
          /\ \A k \in 1 .. Len(buf_') : buf_'[k] # x
      <4>1. \A d \in Consumers : \A k \in 1 .. Len(got[d]) : got[d][k] # x
        BY <1>0, <3>3 DEF OnePlace, n
      <4>2. \A k \in 1 .. Len(buf_') : buf_'[k] # x
        <5>1. \A j, k \in 1 .. n : buf_[j] = buf_[k] => j = k
          BY <1>0 DEF OnePlace, n
        <5> QED  BY <2>2, <3>2, <3>3, <5>1
      <4> QED  BY <4>1, <4>2
    <3>5. \A j, k \in 1 .. Len(buf_') : buf_'[j] = buf_'[k] => j = k
      <4>1. \A j, k \in 1 .. n : buf_[j] = buf_[k] => j = k
        BY <1>0 DEF OnePlace, n
      <4>2. ASSUME NEW j \in 1 .. Len(buf_'), NEW k \in 1 .. Len(buf_'), buf_'[j] = buf_'[k]
            PROVE  j = k
        <5>1. buf_[j + 1] = buf_[k + 1] /\ j + 1 \in 1 .. n /\ k + 1 \in 1 .. n
          BY <2>2, <3>2, <4>2
        <5>2. j + 1 = k + 1
          BY <4>1, <5>1
        <5> QED  BY <5>2
      <4> QED  BY <4>2
    <3>6. ASSUME NEW d \in Consumers
          PROVE  \A j, k \in 1 .. Len(got'[d]) : got'[d][j] = got'[d][k] => j = k
      <4>1. \A j, k \in 1 .. Len(got[d]) : got[d][j] = got[d][k] => j = k
        BY <1>0 DEF OnePlace
      <4>2. CASE d # c
        BY <2>4, <4>1, <4>2
      <4>3. CASE d = c
        BY <2>3, <3>1, <3>4, <4>1, <4>3 DEF m
      <4> QED  BY <4>2, <4>3
    <3>7. ASSUME NEW d \in Consumers
          PROVE  \A j \in 1 .. Len(got'[d]), k \in 1 .. Len(buf_') : got'[d][j] # buf_'[k]
      <4>1. \A j \in 1 .. Len(got[d]), k \in 1 .. n : got[d][j] # buf_[k]
        BY <1>0 DEF OnePlace, n
      <4>2. \A j \in 1 .. Len(got[d]), k \in 1 .. Len(buf_') : got[d][j] # buf_'[k]
        BY <2>2, <3>2, <4>1
      <4>3. CASE d # c
        BY <2>4, <4>2, <4>3
      <4>4. CASE d = c
        BY <2>3, <3>1, <3>4, <4>2, <4>4 DEF m
      <4> QED  BY <4>3, <4>4
    <3>8. ASSUME NEW d \in Consumers, NEW e \in Consumers, d # e
          PROVE  \A j \in 1 .. Len(got'[d]), k \in 1 .. Len(got'[e]) : got'[d][j] # got'[e][k]
      <4>1. \A j \in 1 .. Len(got[d]), k \in 1 .. Len(got[e]) : got[d][j] # got[e][k]
        BY <1>0, <3>8 DEF OnePlace
      <4>2. CASE d # c /\ e # c
        BY <2>4, <4>1, <4>2
      <4>3. CASE d = c
        BY <2>3, <2>4, <3>1, <3>4, <3>8, <4>1, <4>3 DEF m
      <4>4. CASE e = c
        BY <2>3, <2>4, <3>1, <3>4, <3>8, <4>1, <4>4 DEF m
      <4> QED  BY <4>2, <4>3, <4>4
    <3>9. ASSUME NEW y \in Items
          PROVE  /\ (\E k \in 1 .. n : buf_[k] = y) <=> (\E k \in 1 .. Len(buf_') : buf_'[k] = y) \/ y = x
                 /\ (\E d \in Consumers : \E k \in 1 .. Len(got'[d]) : got'[d][k] = y)
                      <=> (\E d \in Consumers : \E k \in 1 .. Len(got[d]) : got[d][k] = y) \/ y = x
      <4>1. (\E k \in 1 .. n : buf_[k] = y) <=> (\E k \in 1 .. Len(buf_') : buf_'[k] = y) \/ y = x
        BY <2>2, <3>2, <3>3
      <4>2. (\E k \in 1 .. Len(got'[c]) : got'[c][k] = y)
              <=> (\E k \in 1 .. Len(got[c]) : got[c][k] = y) \/ y = x
        BY <2>3, <3>1 DEF m
      <4> QED  BY <2>4, <4>1, <4>2
    <3>10. ASSUME NEW y \in Items
           PROVE  y[2] < i'[y[1]] <=>
                    \/ \E k \in 1 .. Len(buf_') : buf_'[k] = y
                    \/ \E d \in Consumers : \E k \in 1 .. Len(got'[d]) : got'[d][k] = y
      <4>1. y[2] < i[y[1]] <=>
              \/ \E k \in 1 .. n : buf_[k] = y
              \/ \E d \in Consumers : \E k \in 1 .. Len(got[d]) : got[d][k] = y
        BY <1>0 DEF OnePlace, n
      <4> QED  BY <1>0, <3>9, <4>1
    <3> QED  BY <3>5, <3>6, <3>7, <3>8, <3>10 DEF OnePlace
  <2>10. CountsAgree'
    <3>1. /\ Total(Lens, Consumers) \in Int
          /\ Total(Lens', Consumers) = Total(Lens, Consumers) + 1
      <4>1. Lens[c] = m /\ Lens'[c] = m + 1 /\ \A d \in Consumers \ {c} : Lens[d] = Lens'[d]
        BY <2>3, <2>4 DEF Lens, m
      <4>2. \A d \in Consumers : Lens[d] \in Int /\ Lens'[d] \in Int
        BY <2>1, <2>4, LenProperties DEF Lens
      <4> HIDE DEF m
      <4>3. /\ Total(Lens, Consumers) \in Int
            /\ Total(Lens', Consumers) = Total(Lens, Consumers) - Lens[c] + Lens'[c]
        BY <4>1, <4>2, TotalChanged, ItemsFacts
      <4> QED  BY <2>1, <4>1, <4>3 DEF m
    <3>2. /\ Cardinality(Popping) \in Nat /\ Cardinality(Popping') = Cardinality(Popping) - 1
      <4>1. Popping' = Popping \ {c} /\ c \in Popping
        BY <1>0, <2>5 DEF Popping, Threads
      <4>2. IsFiniteSet(Popping)
        BY ItemsFacts, FS_Subset DEF Popping
      <4> QED  BY <4>1, <4>2, FS_RemoveElement, FS_CardinalityType
    <3>3. Adding' = Adding \cup {c} /\ c \notin Adding
      BY <1>0, <2>5 DEF Adding, Threads
    <3>4. LastValues'[c] = Value(x) /\ Value(x) \in Nat
      <4>1. got'[c] # <<>> /\ Last(got'[c]) = x
        BY <2>1, <2>3 DEF Last
      <4> QED  BY <2>2, <4>1, ItemsFacts DEF LastValues
    <3>5. \A d \in Adding : LastValues'[d] = LastValues[d]
      BY <2>4, <3>3 DEF LastValues, Adding
    <3>6. /\ Total(LastValues, Adding) \in Int
          /\ Total(LastValues', Adding') = Total(LastValues, Adding) + Value(x)
      <4>1. \A d \in Adding \cup {c} : LastValues'[d] \in Int
        <5>1. \A d \in Adding : LastValues[d] \in Int
          BY <1>0, LastValuesFacts DEF Adding
        <5> QED  BY <3>4, <3>5, <5>1
      <4>2. IsFiniteSet(Adding)
        BY ItemsFacts, FS_Subset DEF Adding
      <4>3. /\ Total(LastValues', Adding) \in Int
            /\ Total(LastValues', Adding \cup {c}) = Total(LastValues', Adding) + LastValues'[c]
        BY <3>3, <4>1, <4>2, TotalAdd
      <4>4. Total(LastValues', Adding) = Total(LastValues, Adding)
        BY <3>5, TotalAlike
      <4> QED  BY <3>3, <3>4, <4>3, <4>4
    <3>7. Popped' = Popped \cup {x} /\ x \notin Popped
      <4>1. \A y : y \in Popped <=> \E d \in Consumers : \E k \in 1 .. Len(got[d]) : got[d][k] = y
        BY <1>0, PoppedItems
      <4>2. \A y : y \in Popped' <=> \E d \in Consumers : \E k \in 1 .. Len(got'[d]) : got'[d][k] = y
        <5>1. \A d \in Consumers : DOMAIN got'[d] = 1 .. Len(got'[d])
          BY <2>4, LenProperties
        <5> QED  BY <5>1 DEF Popped, ToSet
      <4>3. \A y : (\E k \in 1 .. Len(got'[c]) : got'[c][k] = y)
              <=> (\E k \in 1 .. Len(got[c]) : got[c][k] = y) \/ y = x
        <5>1. /\ \A k \in 1 .. Len(got'[c]) : k \in 1 .. m \/ k = m + 1
              /\ 1 .. m \subseteq 1 .. Len(got'[c]) /\ m + 1 \in 1 .. Len(got'[c])
          BY <2>1, <2>3
        <5> QED  BY <2>3, <5>1 DEF m
      <4>4. x \notin Popped
        BY <1>0, <2>2, <4>1 DEF OnePlace, n
      <4>5. \A y : y \in Popped' <=> y \in Popped \/ y = x
        <5>1. \A d \in Consumers \ {c} : got'[d] = got[d]
          BY <2>4
        <5> DEFINE Has(d, y) == \E k \in 1 .. Len(got[d]) : got[d][k] = y
                   HasNow(d, y) == \E k \in 1 .. Len(got'[d]) : got'[d][k] = y
        <5>2. \A d \in Consumers \ {c} : \A y : HasNow(d, y) <=> Has(d, y)
          BY <5>1
        <5>3. \A y : HasNow(c, y) <=> Has(c, y) \/ y = x
          BY <4>3
        <5>4. /\ \A y : y \in Popped <=> \E d \in Consumers : Has(d, y)
              /\ \A y : y \in Popped' <=> \E d \in Consumers : HasNow(d, y)
          BY <4>1, <4>2
        <5> HIDE DEF Has, HasNow
        <5> QED  BY <5>2, <5>3, <5>4, c \in Consumers
      <4> QED  BY <4>4, <4>5
    <3>8. /\ Total(Values, Popped) \in Int
          /\ Total(Values, Popped') = Total(Values, Popped) + Value(x)
      <4>1. /\ IsFiniteSet(Popped) /\ \A y \in Popped : Values[y] \in Int
        BY <1>0, PoppedItems
      <4>2. Values[x] = Value(x) /\ Values[x] \in Int
        BY <2>2, ItemsFacts DEF Values
      <4>3. \A y \in Popped \cup {x} : Values[y] \in Int
        BY <4>1, <4>2
      <4> QED  BY <3>7, <4>1, <4>2, <4>3, TotalAdd
    <3>9. total \in Nat
      BY <1>0 DEF MainTypeOK
    <3>10. consumed' = Total(Lens', Consumers) + Cardinality(Popping')
      BY <1>0, <3>1, <3>2 DEF CountsAgree
    <3>11. total' + Total(LastValues', Adding') = Total(Values, Popped')
      BY <1>0, <3>4, <3>6, <3>8, <3>9 DEF CountsAgree
    <3> QED  BY <3>10, <3>11 DEF CountsAgree, Values
  <2> QED  BY <2>7, <2>8, <2>9, <2>10 DEF MInv
<1> QED  BY <1>0, <1>1, <1>2

LEMMA StepAddToTotal ==
  ASSUME MInv, NEW c \in Consumers, AddToTotal(c), IInv'
  PROVE  MInv'
<1>0. /\ MainTypeOK /\ Loops /\ OnePlace /\ CountsAgree
      /\ step[c] = "add" /\ prev' = prev /\ step' = [step EXCEPT ![c] = "load"]
      /\ total' = total + Value(Last(got[c]))
      /\ consumed' = consumed /\ i' = i /\ got' = got /\ joined' = joined /\ buf_' = buf_
  BY DEF AddToTotal, Goto, MInv, bufferVars
<1>1. /\ step \in [Threads -> {"push", "load", "cas", "pop", "add", "done"}]
      /\ c \in Threads /\ c \notin Producers /\ total \in Nat /\ got[c] # <<>>
  BY <1>0, ItemsFacts DEF MainTypeOK, Threads, Loops
<1>2. LastValues[c] = Value(Last(got[c])) /\ Value(Last(got[c])) \in Nat
  <2>1. LastValues[c] = Value(Last(got[c])) /\ Last(got[c]) \in Items
    BY <1>0, <1>1, LastValuesFacts
  <2> QED  BY <2>1, ItemsFacts
<1>3. MainTypeOK'
  <2>1. total' \in Nat /\ step' \in [Threads -> {"push", "load", "cas", "pop", "add", "done"}]
    BY <1>0, <1>1, <1>2
  <2> QED  BY <1>0, <2>1 DEF MainTypeOK, IInv
<1>4. Loops'
  <2>1. \A t \in Threads : t # c => step'[t] = step[t]
    BY <1>0, <1>1
  <2>2. ~ joined /\ step'[c] = "load"
    BY <1>0, <1>1 DEF Loops
  <2>3. \A p \in Producers : step'[p] = step[p]
    BY <1>1, <2>1 DEF Threads
  <2>4. \A d \in Consumers : d # c => step'[d] = step[d]
    BY <2>1 DEF Threads
  <2> QED  BY <1>0, <2>2, <2>3, <2>4 DEF Loops
<1>5. OnePlace'
  <2>1. OnePlace /\ buf_' = buf_ /\ got' = got /\ i' = i
    BY <1>0
  <2> QED  BY <2>1 DEF OnePlace
<1>6. CountsAgree'
  <2>1. Popping' = Popping
    BY <1>0, <1>1 DEF Popping, Threads
  <2>2. Lens' = Lens /\ LastValues' = LastValues /\ Popped' = Popped
    BY <1>0 DEF Lens, LastValues, Popped
  <2>3. Adding = Adding' \cup {c} /\ c \notin Adding'
    BY <1>0, <1>1 DEF Adding, Threads
  <2>4. /\ Total(LastValues, Adding') \in Int
        /\ Total(LastValues, Adding) = Total(LastValues, Adding') + LastValues[c]
    <3> DEFINE E == Adding \ {c}
    <3>1. IsFiniteSet(E) /\ c \notin E /\ E \cup {c} = Adding /\ E = Adding'
      BY <2>3, ItemsFacts, FS_Subset DEF Adding
    <3>2. \A d \in E \cup {c} : LastValues[d] \in Int
      BY <1>0, LastValuesFacts, <2>3 DEF Adding
    <3> HIDE DEF E
    <3>3. /\ Total(LastValues, E) \in Int
          /\ Total(LastValues, E \cup {c}) = Total(LastValues, E) + LastValues[c]
      BY <3>1, <3>2, TotalAdd
    <3> QED  BY <3>1, <3>3
  <2>5. consumed' = Total(Lens', Consumers) + Cardinality(Popping')
    BY <1>0, <2>1, <2>2 DEF CountsAgree
  <2>6. total' + Total(LastValues', Adding') = Total(Values, Popped')
    BY <1>0, <1>1, <1>2, <2>2, <2>4 DEF CountsAgree
  <2> QED  BY <2>5, <2>6 DEF CountsAgree, Values
<1> QED  BY <1>3, <1>4, <1>5, <1>6 DEF MInv

LEMMA StepWithoutCalls ==
  ASSUME MInv, IInv', buf_' = buf_, consumed' = consumed, total' = total, step' = step, i' = i,
         prev' = prev, got' = got, joined' = joined \/ Join
  PROVE  MInv'
<1>1. joined' \in BOOLEAN /\ (joined' => joined \/ \A t \in Threads : step[t] = "done")
  <2>0. joined \in BOOLEAN
    BY DEF MInv, MainTypeOK
  <2>1. CASE joined' = joined
    BY <2>0, <2>1
  <2>2. CASE Join
    <3>1. joined' = TRUE /\ \A t \in Threads : step[t] = "done"
      BY <2>2 DEF Join
    <3> QED  BY <3>1
  <2> QED  BY <2>1, <2>2
<1>2. MainTypeOK'
  BY <1>1 DEF MInv, MainTypeOK, IInv
<1>3. Loops'
  BY <1>1 DEF MInv, Loops
<1>4. OnePlace'
  BY DEF MInv, OnePlace
<1>5. CountsAgree'
  <2>1. /\ Popping' = Popping /\ Adding' = Adding
        /\ Lens' = Lens /\ LastValues' = LastValues /\ Popped' = Popped
    BY DEF Popping, Adding, Lens, LastValues, Popped
  <2> QED  BY <2>1 DEF MInv, CountsAgree, Values
<1> QED  BY <1>2, <1>3, <1>4, <1>5 DEF MInv

LEMMA MainNextInv == MInv /\ [MainNext]_vars => MInv'
<1> SUFFICES ASSUME MInv, [MainNext]_vars PROVE MInv'
  OBVIOUS
<1>0. IInv'
  BY MainBuffer
<1>1. ASSUME NEW p \in Producers, PushNext(p) PROVE MInv'
  BY <1>0, <1>1, StepPushNext
<1>2. ASSUME NEW c \in Consumers, Consume(c) PROVE MInv'
  BY <1>0, <1>2, StepLoadTicket, StepTakeTicket, StepPopItem, StepAddToTotal DEF Consume
<1>3. ASSUME NEW t \in Threads, Wakeup(t) PROVE MInv'
  BY <1>0, <1>3, StepWithoutCalls DEF Wakeup, SpuriousWakeup, mainVars
<1>4. CASE Join
  BY <1>0, <1>4, StepWithoutCalls DEF Join, bufferVars
<1>5. CASE UNCHANGED vars
  BY <1>0, <1>5, StepWithoutCalls DEF vars, bufferVars, mainVars
<1> QED  BY <1>1, <1>2, <1>3, <1>4, <1>5 DEF MainNext, Returned

LEMMA MainAlwaysInv == MainSpec => []MInv
BY MainInitInv, MainNextInv, PTL DEF MainSpec

-----------------------------------------------------------------------------
(* Together the consumers have popped what they have, each item once.      *)
LEMMA PoppedCounted == MInv => IsFiniteSet(Popped) /\ Cardinality(Popped) = Total(Lens, Consumers)
<1> SUFFICES ASSUME MInv PROVE IsFiniteSet(Popped) /\ Cardinality(Popped) = Total(Lens, Consumers)
  OBVIOUS
<1> DEFINE Of(D) == {got[v[1]][v[2]] : v \in {u \in Consumers \X Nat :
                       u[1] \in D /\ u[2] \in 1 .. Len(got[u[1]])}}
           S == {D \in SUBSET Consumers : /\ IsFiniteSet(Of(D))
                                          /\ Cardinality(Of(D)) = Total(Lens, D)}
<1>0. MainTypeOK /\ OnePlace
  BY DEF MInv
<1>1. \A c \in Consumers : got[c] \in Seq(Items) /\ Len(got[c]) \in Nat /\ Lens[c] = Len(got[c])
  BY <1>0, LenProperties DEF MainTypeOK, Lens
<1>2. {} \in S
  <2>1. Of({}) = {}
    OBVIOUS
  <2> HIDE DEF Of
  <2> QED  BY <2>1, FS_EmptySet, TotalOfNone
<1>3. ASSUME NEW D \in SUBSET Consumers, D # {}, \A c \in D : D \ {c} \in S PROVE D \in S
  <2>1. PICK c : c \in D
    BY <1>3
  <2> DEFINE E == D \ {c}  Q == {got[c][k] : k \in 1 .. Len(got[c])}  P == Of(E)
  <2>2. E \cup {c} = D /\ c \notin E /\ E \in S /\ IsFiniteSet(E)
    <3>1. IsFiniteSet(Consumers) /\ E \in SUBSET Consumers
      BY ItemsFacts
    <3>2. E \in S
      <4> HIDE DEF S
      <4> QED  BY <1>3, <2>1
    <3>3. E \cup {c} = D /\ c \notin E
      BY <2>1
    <3>4. IsFiniteSet(E)
      <4> HIDE DEF E
      <4> QED  BY <3>1, FS_Subset
    <3> QED  BY <3>2, <3>3, <3>4
  <2>3. IsFiniteSet(P) /\ Cardinality(P) = Total(Lens, E)
    BY <2>2
  <2>4. IsFiniteSet(Q) /\ Cardinality(Q) = Len(got[c])
    <3>1. \A j, k \in 1 .. Len(got[c]) : got[c][j] = got[c][k] => j = k
      BY <1>0, <2>1 DEF OnePlace
    <3>2. got[c] \in Seq(Items) /\ IsFiniteSet(Items)
      BY <1>1, <2>1, ItemsFacts
    <3> QED  BY <3>1, <3>2, ChainIsShort
  <2>5. P \cap Q = {}
    BY <1>0, <2>1 DEF OnePlace
  <2>6. Of(D) = P \cup Q
    <3>1. ASSUME NEW y \in Of(D) PROVE y \in P \cup Q
      BY <2>1
    <3>2. P \subseteq Of(D)
      OBVIOUS
    <3>3. ASSUME NEW k \in 1 .. Len(got[c]) PROVE got[c][k] \in Of(D)
      <4>1. c \in Consumers /\ k \in Nat
        BY <1>1, <2>1
      <4>2. <<c, k>> \in {u \in Consumers \X Nat : u[1] \in D /\ u[2] \in 1 .. Len(got[u[1]])}
        BY <2>1, <4>1
      <4> QED  BY <4>2
    <3> QED  BY <3>1, <3>2, <3>3
  <2>7. Total(Lens, D) = Total(Lens, E) + Len(got[c]) /\ Total(Lens, E) \in Int
    <3>1. \A d \in E \cup {c} : Lens[d] \in Int
      BY <1>1, <2>2
    <3> HIDE DEF E
    <3>2. Total(Lens, E \cup {c}) = Total(Lens, E) + Lens[c] /\ Total(Lens, E) \in Int
      BY <2>2, <3>1, TotalAdd
    <3> QED  BY <1>1, <2>1, <2>2, <3>2
  <2> HIDE DEF P, Q, E, Of
  <2>8. IsFiniteSet(P \cup Q) /\ Cardinality(P \cup Q) = Cardinality(P) + Cardinality(Q) - 0
    <3>1. Cardinality(P \cap Q) = 0
      BY <2>5, FS_EmptySet
    <3> QED  BY <2>3, <2>4, <3>1, FS_Union
  <2>9. Cardinality(Of(D)) = Total(Lens, D) /\ IsFiniteSet(Of(D))
    <3>1. Cardinality(Of(D)) = Cardinality(P) + Cardinality(Q) - 0
      BY <2>6, <2>8
    <3> QED  BY <1>1, <2>1, <2>3, <2>4, <2>6, <2>7, <2>8, <3>1
  <2> QED  BY <2>9
<1>4. Consumers \in S
  <2>1. IsFiniteSet(Consumers)
    BY ItemsFacts
  <2> HIDE DEF S
  <2>2. \A D \in SUBSET Consumers : D \in S
    BY <1>2, <1>3, <2>1, SubsetInduction
  <2> QED  BY <2>2
<1>5. Of(Consumers) = Popped
  <2>1. \A y : y \in Popped <=> \E c \in Consumers : \E k \in 1 .. Len(got[c]) : got[c][k] = y
    BY <1>0, PoppedItems
  <2>2. ASSUME NEW c \in Consumers, NEW k \in 1 .. Len(got[c]) PROVE got[c][k] \in Of(Consumers)
    <3>1. k \in Nat
      BY <1>1
    <3>2. <<c, k>> \in {u \in Consumers \X Nat : u[1] \in Consumers /\ u[2] \in 1 .. Len(got[u[1]])}
      BY <3>1
    <3> QED  BY <3>2
  <2>3. Of(Consumers) \subseteq Popped
    BY <2>1
  <2> QED  BY <2>1, <2>2, <2>3
<1> HIDE DEF Of
<1> QED  BY <1>4, <1>5

LEMMA BufferCounted ==
  MInv => IsFiniteSet(ToSet(buf_)) /\ Cardinality(ToSet(buf_)) = Len(buf_) /\ ToSet(buf_) \cap Popped = {}
<1> SUFFICES ASSUME MInv
             PROVE  IsFiniteSet(ToSet(buf_)) /\ Cardinality(ToSet(buf_)) = Len(buf_) /\ ToSet(buf_) \cap Popped = {}
  OBVIOUS
<1>1. buf_ \in Seq(Items) /\ MainTypeOK /\ OnePlace
  BY DEF MInv, IInv, TypeOK
<1>2. ToSet(buf_) = {buf_[k] : k \in 1 .. Len(buf_)}
  BY <1>1, LenProperties DEF ToSet
<1>3. \A j, k \in 1 .. Len(buf_) : buf_[j] = buf_[k] => j = k
  BY <1>1 DEF OnePlace
<1>4. IsFiniteSet(ToSet(buf_)) /\ Cardinality(ToSet(buf_)) = Len(buf_)
  <2>1. IsFiniteSet(Items) /\ buf_ \in Seq(Items)
    BY <1>1, ItemsFacts
  <2>2. /\ IsFiniteSet({buf_[k] : k \in 1 .. Len(buf_)})
        /\ Cardinality({buf_[k] : k \in 1 .. Len(buf_)}) = Len(buf_)
    BY <1>3, <2>1, ChainIsShort
  <2> QED  BY <1>2, <2>2
<1>5. ToSet(buf_) \cap Popped = {}
  BY <1>1, <1>2, PoppedItems DEF OnePlace
<1> QED  BY <1>4, <1>5

-----------------------------------------------------------------------------
(* The program uses the class as it is meant to be used, so what is proved *)
(* of the class holds of it: no wakeup is lost.                            *)
THEOREM ProgramLosesNoWakeup == MainSpec => []NoLostWakeup
<1>1. MInv => NoLostWakeup
  BY DEF MInv, IInv
<1> QED  BY MainAlwaysInv, <1>1, PTL

(* The consumers that hold a ticket and have not popped yet are exactly as *)
(* many as the tickets are ahead of the pops.                              *)
THEOREM TicketsArePops == MainSpec => []TicketsMatchPops
<1>1. MInv => TicketsMatchPops
  BY LensTotal DEF MInv, CountsAgree, TicketsMatchPops, Popping
<1> QED  BY MainAlwaysInv, <1>1, PTL

(* Every pushed item is in one place, the total is the sum of what was     *)
(* popped, and when main has joined everything has been popped.            *)
THEOREM ItemsPoppedOnce == MainSpec => []NothingLostOrDoubled
<1>1. MInv => NothingLostOrDoubled
  <2> SUFFICES ASSUME MInv PROVE NothingLostOrDoubled
    OBVIOUS
  <2> DEFINE Pushed == {x \in Items : x[2] < i[x[1]]}
  <2>0. MainTypeOK /\ Loops /\ OnePlace /\ CountsAgree /\ TypeOK
    BY DEF MInv, IInv
  <2>1. \A x : x \in Popped <=> \E c \in Consumers : \E k \in 1 .. Len(got[c]) : got[c][k] = x
    BY <2>0, PoppedItems
  <2>2. ToSet(buf_) = {buf_[k] : k \in 1 .. Len(buf_)} /\ ToSet(buf_) \subseteq Items
    BY <2>0, LenProperties DEF ToSet, TypeOK
  <2>3. Popped \subseteq Items /\ PoppedCount = Total(Lens, Consumers)
    BY <2>0, PoppedItems, LensTotal
  <2>4. Pushed = ToSet(buf_) \cup Popped
    BY <2>0, <2>1, <2>2, <2>3 DEF OnePlace
  <2>5. Cardinality(Pushed) = Len(buf_) + PoppedCount
    <3> HIDE DEF Pushed
    <3>1. /\ IsFiniteSet(ToSet(buf_)) /\ Cardinality(ToSet(buf_)) = Len(buf_)
          /\ IsFiniteSet(Popped) /\ Cardinality(Popped) = PoppedCount
          /\ Cardinality(ToSet(buf_) \cap Popped) = 0
      BY <2>3, PoppedCounted, BufferCounted, FS_EmptySet
    <3>2. Cardinality(ToSet(buf_)) \in Nat /\ Cardinality(Popped) \in Nat
      BY <3>1, FS_CardinalityType
    <3>3. Cardinality(ToSet(buf_) \cup Popped)
            = Cardinality(ToSet(buf_)) + Cardinality(Popped) - Cardinality(ToSet(buf_) \cap Popped)
      BY <3>1, FS_Union
    <3> QED  BY <2>4, <3>1, <3>2, <3>3
  <2>6. total + MapThenSumSet(LAMBDA c : Value(Last(got[c])), Adding)
          = MapThenSumSet(Value, Popped)
    BY <2>0, LastValuesTotal, ValuesTotal DEF CountsAgree
  <2>7. joined => Popped = Items
    <3> SUFFICES ASSUME joined PROVE Popped = Items
      OBVIOUS
    <3>1. PICK c : c \in Consumers
      BY MainAssumption
    <3>2. consumed >= kTotal /\ Popping = {} /\ consumed \in 0 .. kTotal
      BY <2>0, <3>1 DEF Loops, Threads, MainTypeOK, Popping
    <3>3. consumed = Cardinality(Popped)
      BY <2>0, <2>3, <3>2, PoppedCounted, LensTotal, FS_EmptySet DEF CountsAgree
    <3>4. Cardinality(Popped) = Cardinality(Items)
      BY <3>2, <3>3, ItemsFacts
    <3> QED  BY <2>3, <3>4, ItemsFacts, FS_Subset
  <2> QED  BY <2>4, <2>5, <2>6, <2>7 DEF NothingLostOrDoubled, Adding
<1> QED  BY MainAlwaysInv, <1>1, PTL

(* And the program's queue is a first-in first-out channel.                *)
THEOREM ProgramImplements == MainSpec => ImplementsChannel
<1>1. MainInit => Channel!Init
  BY DEF MainInit, Channel!Init
<1>2. MInv /\ [MainNext]_vars => [Channel!Next]_buf_
  <2> SUFFICES ASSUME MInv, [MainNext]_vars PROVE [Channel!Next]_buf_
    OBVIOUS
  <2>1. [Next]_bufferVars
    BY BufferSteps
  <2> QED  BY <2>1, BufferStepIsChannelStep
<1> QED  BY <1>1, <1>2, MainAlwaysInv, PTL DEF MainSpec, ImplementsChannel, Channel!Spec
=============================================================================
