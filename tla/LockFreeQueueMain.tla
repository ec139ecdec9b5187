------------------------- MODULE LockFreeQueueMain -------------------------
(***************************************************************************)
(* The program of concurrency/lockfree_queue.cpp.  Producers enqueue kOps  *)
(* items each and are joined; main enqueues one stop value per consumer;   *)
(* consumers dequeue until they get a stop value and are joined; the       *)
(* destructor dequeues the rest and deletes the dummy node.  No thread     *)
(* enqueues while another one dequeues: that is what keeps this program    *)
(* clear of the reuse that LockFreeQueue alone allows.                     *)
(*                                                                         *)
(* Every item is the int 1 and every stop value -1 in the code; they are   *)
(* told apart here so that one lost and one doubled do not cancel out.     *)
(***************************************************************************)
EXTENDS LockFreeQueue

CONSTANTS Producers, Consumers, main, kOps

Items == Producers \X (1 .. kOps)
Stops == {main} \X Consumers

ASSUME MainAssumption ==
  /\ Threads = Producers \cup Consumers \cup {main}
  /\ Producers \cap Consumers = {} /\ main \notin Producers \cup Consumers
  /\ IsFiniteSet(Producers) /\ IsFiniteSet(Consumers) /\ Consumers # {}
  /\ kOps \in Nat
  /\ Values = Items \cup Stops
  /\ IsFiniteSet(Addr)
  /\ Cardinality(Addr) = Cardinality(Values) + 1   \* so that `new` succeeds

VARIABLES stage,     \* where main is: "produce", "stop", "consume",
                     \* "destroy", "end"
          produced, consumed, total,   \* the atomic counters
          finished   \* consumers whose loop has returned

mainVars == <<stage, produced, consumed, total, finished>>
vars == <<queueVars, mainVars>>

MainInit == /\ QueueInit
            /\ stage = "produce"
            /\ produced = 0 /\ consumed = 0 /\ total = 0
            /\ finished = {}

Begun(t) == {v \in Values : v[1] = t} \cap Used

-----------------------------------------------------------------------------
(* Mistakes the checks are tested with: one stop value for all consumers,  *)
(* stop values that are counted as items.                                  *)
StopOneConsumer ==
  \/ /\ stage = "stop" /\ Begun(main) = {}
     /\ \E c \in Consumers : EnqueueStart(main, <<main, c>>)
     /\ UNCHANGED mainVars
  \/ InEnqueue(main) /\ UNCHANGED mainVars
  \/ /\ stage = "stop" /\ pc[main] = "out" /\ Begun(main) # {}
     /\ stage' = "consume"
     /\ UNCHANGED <<queueVars, produced, consumed, total, finished>>

-----------------------------------------------------------------------------
ConsumeCountingStops(c) ==
  /\ stage = "consume" /\ c \notin finished
  /\ (pc[c] = "out" /\ DequeueLoadHead(c)) \/ InDequeue(c)
  /\ IF taken' = taken THEN UNCHANGED <<consumed, total, finished>>
     ELSE /\ consumed' = consumed + 1 /\ total' = total + 1
          /\ finished' = finished \cup (IF val[c] \in Stops THEN {c} ELSE {})
  /\ UNCHANGED <<stage, produced>>

(* queue.enqueue(1); ++produced                                            *)
Produce(p) ==
  \/ /\ stage = "produce" /\ Cardinality(Begun(p)) < kOps
     /\ EnqueueStart(p, <<p, Cardinality(Begun(p)) + 1>>)
     /\ UNCHANGED mainVars
  \/ /\ InEnqueue(p)
     /\ produced' = IF pc'[p] = "out" THEN produced + 1 ELSE produced
     /\ UNCHANGED <<stage, consumed, total, finished>>

JoinProducers ==
  /\ stage = "produce"
  /\ \A p \in Producers : pc[p] = "out" /\ Cardinality(Begun(p)) = kOps
  /\ stage' = "stop"
  /\ UNCHANGED <<queueVars, produced, consumed, total, finished>>

(* queue.enqueue(-1) once per consumer, then start the consumers.          *)
Stop ==
  \/ /\ stage = "stop"
     /\ \E c \in Consumers : <<main, c>> \notin Used /\ EnqueueStart(main, <<main, c>>)
     /\ UNCHANGED mainVars
  \/ InEnqueue(main) /\ UNCHANGED mainVars
  \/ /\ stage = "stop" /\ pc[main] = "out" /\ Stops \subseteq Used
     /\ stage' = "consume"
     /\ UNCHANGED <<queueVars, produced, consumed, total, finished>>

(* The consumer's loop: on nullopt it just tries again.                    *)
Consume(c) ==
  /\ stage = "consume" /\ c \notin finished
  /\ (pc[c] = "out" /\ DequeueLoadHead(c)) \/ InDequeue(c)
  /\ IF taken' = taken THEN UNCHANGED <<consumed, total, finished>>
     ELSE IF val[c] \in Stops
       THEN finished' = finished \cup {c} /\ UNCHANGED <<consumed, total>>
       ELSE consumed' = consumed + 1 /\ total' = total + 1 /\ UNCHANGED finished
  /\ UNCHANGED <<stage, produced>>

JoinConsumers ==
  /\ stage = "consume" /\ finished = Consumers
  /\ stage' = "destroy"
  /\ UNCHANGED <<queueVars, produced, consumed, total, finished>>

(* while (dequeue()) {} and delete head_.load()                            *)
Destroy ==
  /\ stage = "destroy"
  /\ \/ pc[main] = "out" /\ DequeueLoadHead(main) /\ UNCHANGED stage
     \/ InDequeue(main) /\ pc[main] # "dEmpty" /\ UNCHANGED stage
     \/ /\ pc[main] = "dEmpty" /\ Return(main) /\ Delete(head_)
        /\ stage' = "end"
        /\ UNCHANGED <<head_, tail_, historyVars>>
  /\ UNCHANGED <<produced, consumed, total, finished>>

Returned == stage = "end" /\ UNCHANGED vars

(* A step of the thread t inside its part of the program.                  *)
Work(t) == \/ t \in Producers /\ Produce(t)
           \/ t \in Consumers /\ Consume(t)
           \/ t = main /\ (Stop \/ Destroy)

MainNext == \/ \E t \in Threads : Work(t)
            \/ JoinProducers \/ JoinConsumers \/ Returned

MainSpec == MainInit /\ [][MainNext]_vars

-----------------------------------------------------------------------------
MainTypeOK == /\ TypeOK
              /\ stage \in {"produce", "stop", "consume", "destroy", "end"}
              /\ {produced, consumed, total} \subseteq 0 .. Cardinality(Items)
              /\ finished \subseteq Consumers

(* The queue is first-in first-out: the list behind the dummy changes only *)
(* by a value appended at its end or taken from its front.                 *)
Fifo == INSTANCE BoundedChannel
          WITH queue <- Contents, Items <- Values, capacity_ <- Cardinality(Addr)
ImplementsFifo == Fifo!Spec

(* What dequeue returns was read from next before the exchange, when the   *)
(* node could already be somebody else's dummy, or deleted: if the         *)
(* exchange succeeds it is nevertheless the value at the front.            *)
ReturnsFront ==
  [][Len(taken') > Len(taken) => taken' = Append(taken, Head(Contents))]_vars

(* The pointers never leave the list: tail_ is the dummy or a node behind  *)
(* it, and never more than one node from the end, so that whoever finds it *)
(* behind can help; no deleted node is on the list.                        *)
TailOnList ==
  stage # "end" =>
    LET list == <<head_>> \o Nodes
    IN  /\ {list[n] : n \in DOMAIN list} \subseteq live
        /\ \E n \in DOMAIN list : list[n] = tail_ /\ n >= Len(list) - 1

(* No consumer that is still running ever finds the queue empty: the stop  *)
(* values behind the items see to it.                                      *)
NeverEmptyWhileConsuming ==
  \A c \in Consumers : pc[c] # "dEmpty"

(* What main says it expects (lockfree_queue.cpp:125-127), item by item:   *)
(* every one dequeued, none twice; and the destructor frees every node,    *)
(* the last dummy included.                                                *)
FinalTotal ==
  /\ stage \in {"destroy", "end"} =>
       /\ produced = Cardinality(Items) /\ consumed = produced /\ total = produced
       /\ {taken[n] : n \in DOMAIN taken} = Values /\ Len(taken) = Cardinality(Values)
  /\ stage = "end" => live = {}

=============================================================================
