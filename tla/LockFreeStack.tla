--------------------------- MODULE LockFreeStack ---------------------------
(***************************************************************************)
(* The class LockFreeStack of concurrency/lockfree_stack.cpp: a linked     *)
(* list whose head is a pointer and a tag, both changed by one compare-    *)
(* and-swap.                                                               *)
(*                                                                         *)
(* One action is one access to memory that threads share: a load or a      *)
(* compare-and-swap of head_, a read or a write of some node's next.       *)
(* Nodes live at addresses that `new` hands out again after `delete`.      *)
(* pop reads old_head.ptr->next although another thread may have deleted   *)
(* that node: such a read returns anything.                                *)
(*                                                                         *)
(* Allocation is part of the step that first loads head_: nobody else can  *)
(* tell an address just allocated from a free one, except by a read of a   *)
(* freed node, which returns anything already.                             *)
(***************************************************************************)
EXTENDS LinkedLists

CONSTANTS Threads, Values,
          Addr,      \* addresses of nodes
          nullptr,
          Nothing,   \* std::nullopt
          MaxCalls   \* bound: calls of each thread

ASSUME StackAssumption == /\ nullptr \notin Addr /\ Nothing \notin Values
                          /\ MaxCalls \in Nat /\ IsFiniteSet(Addr)

VARIABLES head_,     \* [ptr, tag]
          live,      \* the addresses allocated now
          value, next,   \* the fields of the nodes
          pc,        \* per thread: "out"; "link", "swapIn" in push;
                     \* "load", "read", "swapOut", "take" in pop;
                     \* "empty" when pop returns nullopt
          old,       \* per thread: old_head
          node,      \* per thread: push's node
          following, \* per thread: the next pointer that pop has read
          calls      \* per thread: calls begun, for the bound

heapVars == <<live, value, next>>
stackVars == <<head_, heapVars, pc, old, node, following, calls>>

Null == [ptr |-> nullptr, tag |-> 0]

StackInit ==
  /\ head_ = Null
  /\ live = {}
  /\ value = [a \in Addr |-> Nothing]
  /\ next = [a \in Addr |-> nullptr]
  /\ pc = [t \in Threads |-> "out"]
  /\ old = [t \in Threads |-> Null]
  /\ node = [t \in Threads |-> nullptr]
  /\ following = [t \in Threads |-> nullptr]
  /\ calls = [t \in Threads |-> 0]

Call(t) == /\ pc[t] = "out" /\ calls[t] < MaxCalls
           /\ calls' = [calls EXCEPT ![t] = @ + 1]
Step(t, here, there) == /\ pc[t] = here /\ pc' = [pc EXCEPT ![t] = there]
                        /\ UNCHANGED calls
Keep(t, h) == old' = [old EXCEPT ![t] = h]

(* A return drops the call's local variables.                              *)
Return(t) == /\ pc' = [pc EXCEPT ![t] = "out"]
             /\ old' = [old EXCEPT ![t] = Null]
             /\ node' = [node EXCEPT ![t] = nullptr]
             /\ following' = [following EXCEPT ![t] = nullptr]
             /\ UNCHANGED calls

-----------------------------------------------------------------------------
(* Mistakes the checks are tested with: a comparison of the pointers alone *)
(* (no version), an exchange that leaves the tag as it was, a node that is *)
(* never deleted, a failed exchange that keeps the stale head.             *)
SwapHeadComparingPointers(t, new) ==
  /\ head_.ptr = old[t].ptr
  /\ head_' = [ptr |-> new, tag |-> old[t].tag + 1]

SwapHeadKeepingTag(t, new) ==
  /\ head_ = old[t]
  /\ head_' = [ptr |-> new, tag |-> old[t].tag]

DeleteNothing(a) == UNCHANGED heapVars

RetryWithStaleHead(t, here) ==
  LET h == IF here = "load" THEN head_ ELSE old[t]
  IN  /\ Step(t, here, IF h.ptr = nullptr THEN "empty" ELSE "read")
      /\ Keep(t, h)
      /\ UNCHANGED <<head_, heapVars, node, following>>

-----------------------------------------------------------------------------
(* compare_exchange_weak succeeds only if pointer and tag are unchanged,   *)
(* and then advances the tag.  It may fail even so.                        *)
SwapHead(t, new) ==
  /\ head_ = old[t]
  /\ head_' = [ptr |-> new, tag |-> old[t].tag + 1]

(* new Node(v) at any free address                                         *)
New(t, v) == \E a \in Addr \ live :
               /\ live' = live \cup {a}
               /\ value' = [value EXCEPT ![a] = v]
               /\ node' = [node EXCEPT ![t] = a]

Delete(a) == /\ live' = live \ {a}
             /\ value' = [value EXCEPT ![a] = Nothing]
             /\ next' = [next EXCEPT ![a] = nullptr]

(* push(v): new Node, load head_                                           *)
PushStart(t, v) ==
  /\ Call(t) /\ New(t, v) /\ Keep(t, head_)
  /\ pc' = [pc EXCEPT ![t] = "link"]
  /\ UNCHANGED <<head_, next, following>>

(* node->next = old_head.ptr                                               *)
PushLink(t) ==
  /\ Step(t, "link", "swapIn")
  /\ next' = [next EXCEPT ![node[t]] = old[t].ptr]
  /\ UNCHANGED <<head_, live, value, old, node, following>>

(* The exchange; a failed one leaves what it found in old_head.            *)
PushSwap(t) ==
  \/ pc[t] = "swapIn" /\ SwapHead(t, node[t]) /\ Return(t) /\ UNCHANGED heapVars
  \/ /\ Step(t, "swapIn", "link") /\ Keep(t, head_)
     /\ UNCHANGED <<head_, heapVars, node, following>>

PopStart(t) ==
  /\ Call(t)
  /\ pc' = [pc EXCEPT ![t] = "load"]
  /\ UNCHANGED <<head_, heapVars, old, node, following>>

(* With a head in old_head pop returns nullopt or goes on to read next.    *)
Proceed(t, here) ==
  /\ Step(t, here, IF head_.ptr = nullptr THEN "empty" ELSE "read")
  /\ Keep(t, head_)
  /\ UNCHANGED <<head_, heapVars, node, following>>

PopLoad(t) == Proceed(t, "load")

(* old_head.ptr->next, of a node that may have been deleted meanwhile.     *)
PopReadNext(t) ==
  /\ Step(t, "read", "swapOut")
  /\ \E a \in IF old[t].ptr \in live THEN {next[old[t].ptr]} ELSE Addr \cup {nullptr} :
       following' = [following EXCEPT ![t] = a]
  /\ UNCHANGED <<head_, heapVars, old, node>>

PopSwap(t) ==
  \/ /\ Step(t, "swapOut", "take") /\ SwapHead(t, following[t])
     /\ UNCHANGED <<heapVars, old, node, following>>
  \/ Proceed(t, "swapOut")

(* val = old_head.ptr->value; delete old_head.ptr; return val              *)
PopTake(t) ==
  /\ pc[t] = "take" /\ Delete(old[t].ptr) /\ Return(t)
  /\ UNCHANGED head_

PopEmpty(t) == pc[t] = "empty" /\ Return(t) /\ UNCHANGED <<head_, heapVars>>

InPush(t) == PushLink(t) \/ PushSwap(t)
InPop(t) == PopLoad(t) \/ PopReadNext(t) \/ PopSwap(t) \/ PopTake(t) \/ PopEmpty(t)

-----------------------------------------------------------------------------
Init == StackInit

Next == \E t \in Threads : \/ \E v \in Values : PushStart(t, v)
                           \/ PopStart(t) \/ InPush(t) \/ InPop(t)

Spec == Init /\ [][Next]_stackVars

(* A thread inside a call is scheduled, and an exchange that is tried      *)
(* again and again with nobody interfering succeeds some time.             *)
FairSpec == /\ Spec
            /\ \A t \in Threads : /\ WF_stackVars(InPush(t) \/ InPop(t))
                                  /\ SF_stackVars(InPush(t) /\ pc'[t] = "out")
                                  /\ SF_stackVars(InPop(t) /\ pc'[t] = "take")

-----------------------------------------------------------------------------
List == Chain(Addr, nullptr, next, head_.ptr)
Linked == {List[n] : n \in DOMAIN List}

(* Types; a thread writes, reads the value of, or deletes live nodes only. *)
TypeOK ==
  /\ head_ \in [ptr : Addr \cup {nullptr}, tag : Nat]
  /\ live \subseteq Addr
  /\ value \in [Addr -> Values \cup {Nothing}]
  /\ next \in [Addr -> Addr \cup {nullptr}]
  /\ pc \in [Threads -> {"out", "link", "swapIn", "load", "read", "swapOut",
                         "take", "empty"}]
  /\ old \in [Threads -> [ptr : Addr \cup {nullptr}, tag : Nat]]
  /\ node \in [Threads -> Addr \cup {nullptr}]
  /\ following \in [Threads -> Addr \cup {nullptr}]
  /\ calls \in [Threads -> 0 .. MaxCalls]
  /\ \A t \in Threads : /\ pc[t] \in {"link", "swapIn"} => node[t] \in live
                        /\ pc[t] = "take" => old[t].ptr \in live

(* Every allocated node has one owner: the list, the push that made it, or *)
(* the pop that took it off.  So no node is deleted twice, none is leaked, *)
(* and none is deleted while it is on the list.                            *)
Pushing == {t \in Threads : pc[t] \in {"link", "swapIn"}}
Taking == {t \in Threads : pc[t] = "take"}

OneOwner ==
  LET owned == {node[t] : t \in Pushing} \cup {old[t].ptr : t \in Taking}
  IN  /\ live = Linked \cup owned /\ Linked \cap owned = {}
      /\ Cardinality(owned) = Cardinality(Pushing) + Cardinality(Taking)
      /\ Len(List) = Cardinality(Linked)

(* The tag defeats ABA (lockfree_stack.cpp:21-23): if pop's exchange can   *)
(* succeed, the node it read is still the head and what it read is still   *)
(* that node's next, although the node may have been popped, deleted and   *)
(* pushed again in between.  What was read from a deleted node is thrown   *)
(* away.                                                                   *)
SwapOutIsCurrent ==
  \A t \in Threads : pc[t] = "swapOut" /\ head_ = old[t] =>
     old[t].ptr \in live /\ following[t] = next[old[t].ptr]

(* The class is a linearizable stack: a push takes effect at its exchange, *)
(* a pop at its exchange or when it loads a null head.                     *)
Phase(t) == CASE pc[t] = "out" -> "idle"
              [] pc[t] \in {"link", "swapIn"} -> "push"
              [] pc[t] \in {"load", "read", "swapOut"} -> "pop"
              [] pc[t] \in {"take", "empty"} -> "done"

Datum(t) == CASE pc[t] \in {"link", "swapIn"} -> value[node[t]]
              [] pc[t] = "take" -> value[old[t].ptr]
              [] OTHER -> Nothing

Atomic == INSTANCE AtomicStack
            WITH stack <- [n \in DOMAIN List |-> value[List[n]]],
                 phase <- [t \in Threads |-> Phase(t)],
                 datum <- [t \in Threads |-> Datum(t)]
Linearizable == Atomic!Spec

(* Lock-freedom: with a bounded number of calls every call returns, though *)
(* exchanges fail under contention and for no reason.                      *)
CallsReturn == \A t \in Threads : pc[t] # "out" ~> pc[t] = "out"
=============================================================================
