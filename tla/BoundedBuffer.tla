--------------------------- MODULE BoundedBuffer ---------------------------
(***************************************************************************)
(* The class BoundedBuffer of concurrency/bounded_buffer.cpp: a queue, one *)
(* mutex and two condition variables, not_full_ where pushers sleep and    *)
(* not_empty_ where poppers sleep.                                         *)
(*                                                                         *)
(* push and pop hold mu_ throughout except while asleep, so each attempt   *)
(* to finish one of them (from the call, or after a wakeup) is one action. *)
(* notify_one wakes one sleeper, any of them, or is lost if nobody sleeps; *)
(* the woken thread still has to get mu_, and a thread that has just       *)
(* called may get it first and take the slot or the item it was woken for. *)
(***************************************************************************)
EXTENDS Integers, Sequences, FiniteSets

CONSTANTS Producers, Consumers,   \* the threads that push and that pop
          Items,                  \* what is pushed
          capacity_

ASSUME BufferAssumption == /\ IsFiniteSet(Producers) /\ IsFiniteSet(Consumers)
                           /\ Producers \cap Consumers = {}
                           /\ capacity_ \in Nat

Threads == Producers \cup Consumers

VARIABLES buf_,
          pc,        \* per thread: "out" of the calls, "asleep" on its
                     \* condition variable, "woken" and waiting for mu_
          item       \* per producer: the argument of its sleeping push

bufferVars == <<buf_, pc, item>>

BufferInit == /\ buf_ = <<>>
              /\ pc = [t \in Threads |-> "out"]
              /\ item \in [Producers -> Items]

Asleep(p, S) == {t \in S : p[t] = "asleep"}

-----------------------------------------------------------------------------
(* Mistakes the checks are tested with: room for one item too many, one    *)
(* notification for both kinds of thread.                                  *)
MayPushOneMore == Len(buf_) <= capacity_
NotifyEither(p, S) == \E s \in Asleep(p, Threads) \cup {t \in Threads : Asleep(p, Threads) = {}} :
                        pc' = IF p[s] = "asleep" THEN [p EXCEPT ![s] = "woken"] ELSE p

-----------------------------------------------------------------------------
MayPush == Len(buf_) < capacity_
MayPop == buf_ # <<>>

(* notify_one on the condition variable where the threads S sleep, with p  *)
(* the other changes of the step.                                          *)
NotifyOne(p, S) ==
  \/ Asleep(p, S) = {} /\ pc' = p
  \/ \E s \in Asleep(p, S) : pc' = [p EXCEPT ![s] = "woken"]

Leave(t) == [pc EXCEPT ![t] = "out"]
Sleep(t) == pc' = [pc EXCEPT ![t] = "asleep"]

(* push(x): a first attempt, or the attempt of a woken thread whose x is   *)
(* the argument it slept with.                                             *)
Push(p, x) ==
  /\ \/ pc[p] = "out"
     \/ pc[p] = "woken" /\ x = item[p]
  /\ \/ /\ MayPush
        /\ buf_' = Append(buf_, x)
        /\ NotifyOne(Leave(p), Consumers)
        /\ UNCHANGED item
     \/ /\ ~MayPush
        /\ Sleep(p)
        /\ item' = [item EXCEPT ![p] = x]
        /\ UNCHANGED buf_

(* pop(): returns Head(buf_) when the thread is "out" again.               *)
Pop(c) ==
  /\ pc[c] \in {"out", "woken"}
  /\ \/ /\ MayPop
        /\ buf_' = Tail(buf_)
        /\ NotifyOne(Leave(c), Producers)
     \/ /\ ~MayPop
        /\ Sleep(c)
        /\ UNCHANGED buf_
  /\ UNCHANGED item

SpuriousWakeup(t) ==
  /\ pc[t] = "asleep"
  /\ pc' = [pc EXCEPT ![t] = "woken"]
  /\ UNCHANGED <<buf_, item>>

-----------------------------------------------------------------------------
(* The class under every legal use: any thread may call at any time.       *)
Init == BufferInit

Next == \/ \E p \in Producers, x \in Items : Push(p, x)
        \/ \E c \in Consumers : Pop(c)
        \/ \E t \in Threads : SpuriousWakeup(t)

Spec == Init /\ [][Next]_bufferVars

-----------------------------------------------------------------------------
(* Types; the buffer never holds more than its capacity.                   *)
TypeOK == /\ buf_ \in Seq(Items) /\ Len(buf_) <= capacity_
          /\ pc \in [Threads -> {"out", "asleep", "woken"}]
          /\ item \in [Producers -> Items]

Woken(S) == {t \in S : pc[t] = "woken"}

(* No wakeup is lost although push and pop notify only one sleeper, and    *)
(* although what it was woken for can be stolen before it runs: while some *)
(* thread sleeps, every slot (every item) is matched by a thread that is   *)
(* awake and will take it.  Waking nobody, or waking a thread of the other *)
(* kind, would break this long before anything blocks.                     *)
NoLostWakeup ==
  /\ Asleep(pc, Producers) # {} => capacity_ - Len(buf_) <= Cardinality(Woken(Producers))
  /\ Asleep(pc, Consumers) # {} => Len(buf_) <= Cardinality(Woken(Consumers))

(* So the two sides are never all asleep at once: with room for one item   *)
(* or more, the threads cannot wait on one another for ever.               *)
NotAllAsleep ==
  capacity_ > 0 => ~ (/\ Threads # {}
                      /\ \A t \in Threads : pc[t] = "asleep"
                      /\ Producers # {} /\ Consumers # {})

(* Items leave in the order in which they arrived, none is made up, and    *)
(* no push overfills the queue: the class implements BoundedChannel.       *)
Channel == INSTANCE BoundedChannel WITH queue <- buf_
ImplementsChannel == Channel!Spec
=============================================================================
