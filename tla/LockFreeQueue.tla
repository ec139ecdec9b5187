--------------------------- MODULE LockFreeQueue ---------------------------
(***************************************************************************)
(* The class LockFreeQueue of concurrency/lockfree_queue.cpp, the Michael- *)
(* Scott queue: a linked list behind a dummy node, head_ at the dummy,     *)
(* tail_ at the last node or one behind it.                                *)
(*                                                                         *)
(* One action is one access to memory that threads share.  dequeue deletes *)
(* the node it has passed although other threads may still hold pointers   *)
(* to it, and there is neither a tag nor a hazard pointer.  A read from a  *)
(* deleted node returns anything; a compare-and-swap on its next may fail, *)
(* or succeed with no effect on the queue; and `new` may hand the address  *)
(* out again.  The delete is part of the exchange that takes the node off: *)
(* whatever a late reader could find in a node not yet deleted, it may     *)
(* also find in a deleted one.                                             *)
(***************************************************************************)
EXTENDS LinkedLists

CONSTANTS Threads,
          Values,     \* what is enqueued, each value at most once
          Addr,       \* addresses of nodes
          nullptr,
          Nothing     \* std::nullopt, and the value of a node without one

ASSUME QueueAssumption == nullptr \notin Addr /\ Nothing \notin Values

VARIABLES head_, tail_,
          live,          \* the addresses allocated now
          value, next,   \* the fields of the nodes
          pc,            \* per thread: "out", or the line it is about to run
          at,            \* per thread: prev_tail (enqueue), head (dequeue)
          tail,          \* per thread: dequeue's tail
          after,         \* per thread: the next pointer it has read
          node,          \* per thread: enqueue's node
          val,           \* per thread: the value dequeue has read
          entered,       \* the values whose enqueue has returned
          taken          \* the values returned by dequeue, in order

heapVars == <<live, value, next>>
localVars == <<at, tail, after, node, val>>
historyVars == <<entered, taken>>
queueVars == <<head_, tail_, heapVars, pc, localVars, historyVars>>

NoLocal == [t \in Threads |-> nullptr]

(* The constructor: one dummy node.                                        *)
QueueInit ==
  /\ head_ \in Addr /\ tail_ = head_ /\ live = {head_}
  /\ value = [a \in Addr |-> Nothing] /\ next = [a \in Addr |-> nullptr]
  /\ pc = [t \in Threads |-> "out"]
  /\ at = NoLocal /\ tail = NoLocal /\ after = NoLocal /\ node = NoLocal
  /\ val = [t \in Threads |-> Nothing]
  /\ entered = {} /\ taken = <<>>

Goto(t, here, there) == pc[t] = here /\ pc' = [pc EXCEPT ![t] = there]
Let(x, t, v) == [x EXCEPT ![t] = v]

(* A return drops the call's local variables.                              *)
Return(t) == /\ pc' = Let(pc, t, "out") /\ val' = Let(val, t, Nothing)
             /\ at' = Let(at, t, nullptr) /\ tail' = Let(tail, t, nullptr)
             /\ after' = Let(after, t, nullptr) /\ node' = Let(node, t, nullptr)

(* What reading the next pointer of a node may return.                     *)
NextOf(a) == IF a \in live THEN {next[a]} ELSE Addr \cup {nullptr}
ValueOf(a) == IF a \in live THEN {value[a]} ELSE Values \cup {Nothing}

-----------------------------------------------------------------------------
(* Mistakes the checks are tested with: a dequeue that does not look       *)
(* whether the tail is behind, a value read from the node that is about to *)
(* go, a link made by a plain store.                                       *)
NeverBehind(t) == FALSE

ReadOldValue(t) ==
  /\ Goto(t, "dValue", "dSwap")
  /\ val' = Let(val, t, value[at[t]])
  /\ UNCHANGED <<head_, tail_, heapVars, at, tail, after, node, historyVars>>

LinkByStore(t) ==
  /\ Goto(t, "eLink", "eSwing")
  /\ next' = IF at[t] \in live THEN Let(next, at[t], node[t]) ELSE next
  /\ UNCHANGED <<head_, tail_, live, value, localVars, historyVars>>

-----------------------------------------------------------------------------
(* tail_.compare_exchange_weak(from, to), whose result nobody looks at.    *)
SwingTail(t, here, there, from, to) ==
  /\ Goto(t, here, there)
  /\ (tail_ = from /\ tail_' = to) \/ UNCHANGED tail_
  /\ UNCHANGED <<head_, heapVars, localVars, historyVars>>

(* enqueue(v): new Node(v)                                                 *)
EnqueueStart(t, v) ==
  /\ Goto(t, "out", "eTail")
  /\ \E a \in Addr \ live : /\ live' = live \cup {a}
                            /\ value' = Let(value, a, v)
                            /\ next' = Let(next, a, nullptr)
                            /\ node' = Let(node, t, a)
  /\ UNCHANGED <<head_, tail_, at, tail, after, val, historyVars>>

EnqueueLoadTail(t) ==
  /\ Goto(t, "eTail", "eNext")
  /\ at' = Let(at, t, tail_)
  /\ UNCHANGED <<head_, tail_, heapVars, tail, after, node, val, historyVars>>

EnqueueLoadNext(t) ==
  /\ Goto(t, "eNext", "eCheck")
  /\ \E a \in NextOf(at[t]) : after' = Let(after, t, a)
  /\ UNCHANGED <<head_, tail_, heapVars, at, tail, node, val, historyVars>>

EnqueueCheck(t) ==
  /\ Goto(t, "eCheck", IF at[t] # tail_ THEN "eTail"
                       ELSE IF after[t] = nullptr THEN "eLink" ELSE "eHelp")
  /\ UNCHANGED <<head_, tail_, heapVars, localVars, historyVars>>

(* prev_tail->next.compare_exchange_weak(nullptr, node)                    *)
EnqueueLink(t) ==
  /\ \/ /\ Goto(t, "eLink", "eSwing")
        /\ nullptr \in NextOf(at[t])
        /\ next' = IF at[t] \in live THEN Let(next, at[t], node[t]) ELSE next
     \/ Goto(t, "eLink", "eTail") /\ UNCHANGED next
  /\ UNCHANGED <<head_, tail_, live, value, localVars, historyVars>>

(* The best-effort advance of the tail, and the return.                    *)
EnqueueSwing(t) ==
  /\ pc[t] = "eSwing"
  /\ (tail_ = at[t] /\ tail_' = node[t]) \/ UNCHANGED tail_
  /\ entered' = entered \cup {value[node[t]]}
  /\ Return(t)
  /\ UNCHANGED <<head_, heapVars, taken>>

EnqueueHelp(t) == SwingTail(t, "eHelp", "eTail", at[t], after[t])

(* dequeue()                                                               *)
DequeueLoadHead(t) ==
  /\ pc[t] \in {"out", "dHead"} /\ pc' = Let(pc, t, "dTail")
  /\ at' = Let(at, t, head_)
  /\ UNCHANGED <<head_, tail_, heapVars, tail, after, node, val, historyVars>>

DequeueLoadTail(t) ==
  /\ Goto(t, "dTail", "dNext")
  /\ tail' = Let(tail, t, tail_)
  /\ UNCHANGED <<head_, tail_, heapVars, at, after, node, val, historyVars>>

DequeueLoadNext(t) ==
  /\ Goto(t, "dNext", "dCheck")
  /\ \E a \in NextOf(at[t]) : after' = Let(after, t, a)
  /\ UNCHANGED <<head_, tail_, heapVars, at, tail, node, val, historyVars>>

TailBehind(t) == at[t] = tail[t]

DequeueCheck(t) ==
  /\ Goto(t, "dCheck", IF at[t] # head_ THEN "dHead"
                       ELSE IF ~TailBehind(t) THEN "dValue"
                       ELSE IF after[t] = nullptr THEN "dEmpty" ELSE "dHelp")
  /\ UNCHANGED <<head_, tail_, heapVars, localVars, historyVars>>

DequeueHelp(t) == SwingTail(t, "dHelp", "dHead", tail[t], after[t])

DequeueEmpty(t) == /\ pc[t] = "dEmpty" /\ Return(t)
                   /\ UNCHANGED <<head_, tail_, heapVars, historyVars>>

(* Read value before CAS                                                   *)
DequeueReadValue(t) ==
  /\ Goto(t, "dValue", "dSwap")
  /\ \E v \in ValueOf(after[t]) : val' = Let(val, t, v)
  /\ UNCHANGED <<head_, tail_, heapVars, at, tail, after, node, historyVars>>

Delete(a) == /\ live' = live \ {a}
             /\ value' = Let(value, a, Nothing) /\ next' = Let(next, a, nullptr)

DequeueSwap(t) ==
  \/ /\ pc[t] = "dSwap" /\ head_ = at[t]
     /\ head_' = after[t]
     /\ Delete(at[t])
     /\ taken' = Append(taken, val[t])
     /\ Return(t)
     /\ UNCHANGED <<tail_, entered>>
  \/ /\ Goto(t, "dSwap", "dHead")
     /\ UNCHANGED <<head_, tail_, heapVars, localVars, historyVars>>

InEnqueue(t) == \/ EnqueueLoadTail(t) \/ EnqueueLoadNext(t) \/ EnqueueCheck(t)
                \/ EnqueueLink(t) \/ EnqueueSwing(t) \/ EnqueueHelp(t)
InDequeue(t) == \/ pc[t] = "dHead" /\ DequeueLoadHead(t)
                \/ DequeueLoadTail(t) \/ DequeueLoadNext(t) \/ DequeueCheck(t)
                \/ DequeueHelp(t) \/ DequeueEmpty(t)
                \/ DequeueReadValue(t) \/ DequeueSwap(t)

-----------------------------------------------------------------------------
(* The class used by many producers and consumers at once.                 *)
Used == entered \cup {value[a] : a \in live}
                \cup {taken[n] : n \in DOMAIN taken}

Init == QueueInit

Next == \E t \in Threads :
          \/ \E v \in Values \ Used : EnqueueStart(t, v)
          \/ pc[t] = "out" /\ DequeueLoadHead(t)
          \/ InEnqueue(t) \/ InDequeue(t)

Spec == Init /\ [][Next]_queueVars

-----------------------------------------------------------------------------
(* The nodes behind the dummy, in order.                                   *)
Nodes == IF head_ = nullptr THEN <<>> ELSE Chain(Addr, nullptr, next, next[head_])
Contents == [n \in DOMAIN Nodes |-> value[Nodes[n]]]
Queued == {Contents[n] : n \in DOMAIN Contents}

TypeOK ==
  /\ head_ \in Addr \cup {nullptr} /\ tail_ \in Addr \cup {nullptr}
  /\ live \subseteq Addr
  /\ value \in [Addr -> Values \cup {Nothing}]
  /\ next \in [Addr -> Addr \cup {nullptr}]
  /\ pc \in [Threads -> {"out", "eTail", "eNext", "eCheck", "eLink", "eSwing",
                         "eHelp", "dHead", "dTail", "dNext", "dCheck", "dHelp",
                         "dEmpty", "dValue", "dSwap"}]
  /\ \A x \in {at, tail, after, node} : x \in [Threads -> Addr \cup {nullptr}]
  /\ val \in [Threads -> Values \cup {Nothing}]
  /\ entered \subseteq Values
  /\ taken \in Seq(Values \cup {Nothing})

(* A value whose enqueue has returned is in the queue until a dequeue      *)
(* returns it.  The file offers the class for "multi-producer multi-       *)
(* consumer pipelines" (lockfree_queue.cpp:3); this is what they need.     *)
NothingLost == \A v \in entered : v \in Queued \/ \E n \in DOMAIN taken : taken[n] = v

(* The comment at lockfree_queue.cpp:73 has the value read before the      *)
(* exchange because next may be freed once an exchange has succeeded: so   *)
(* the read is meant to be of a node that is not freed.                    *)
ValueReadIsLive == \A t \in Threads : pc[t] = "dValue" => after[t] \in live
=============================================================================
