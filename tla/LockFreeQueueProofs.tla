------------------------ MODULE LockFreeQueueProofs ------------------------
(***************************************************************************)
(* The program around the lock-free queue, for any number of producers,    *)
(* consumers and items: the queue is first-in first-out, its tail never    *)
(* leaves it, and every item is dequeued once.                             *)
(***************************************************************************)
EXTENDS LockFreeQueueMain, DataFacts

Pointers == Addr \cup {nullptr}

(* The list from the dummy on, and its nodes.                              *)
List == <<head_>> \o Nodes
Linked == {List[i] : i \in 1 .. Len(List)}
Before(a, b) == \E i, j \in 1 .. Len(List) : i <= j /\ List[i] = a /\ List[j] = b

ListOK == head_ \in Addr /\ IsChain(Addr, nullptr, next, head_, List)
TailOK == \E n \in 1 .. Len(List) : List[n] = tail_ /\ n >= Len(List) - 1

-----------------------------------------------------------------------------
(* Where threads are.                                                      *)
EnqueuePcs == {"eTail", "eNext", "eCheck", "eLink", "eSwing", "eHelp"}
DequeuePcs == {"dHead", "dTail", "dNext", "dCheck", "dHelp", "dValue", "dSwap"}

PcOK(t) ==
  CASE stage = "produce" -> pc[t] \in (IF t \in Producers THEN EnqueuePcs ELSE {}) \cup {"out"}
    [] stage = "stop"    -> pc[t] \in (IF t = main THEN EnqueuePcs ELSE {}) \cup {"out"}
    [] stage = "consume" -> pc[t] \in (IF t \in Consumers \ finished THEN DequeuePcs ELSE {}) \cup {"out"}
    [] stage = "destroy" -> pc[t] \in (IF t = main THEN DequeuePcs \cup {"dEmpty"} ELSE {}) \cup {"out"}
    [] stage = "end"     -> pc[t] = "out"

(* A thread in enqueue holds a node, which is not on the list before it is *)
(* linked; the tail it has read is not behind the tail.                    *)
Enqueuing == {t \in Threads : pc[t] \in EnqueuePcs}
Adding == {t \in Enqueuing : pc[t] # "eSwing"}

HeapOK == live = IF stage = "end" THEN {} ELSE Linked \cup {node[t] : t \in Adding}

NodesOK == /\ \A t \in Enqueuing : node[t] \in live /\ node[t] # head_
           /\ \A t \in Adding : node[t] \notin Linked /\ next[node[t]] = nullptr
           /\ \A t, u \in Enqueuing : node[t] = node[u] => t = u

EnqueuerOK(t) ==
  /\ pc[t] \in EnqueuePcs \ {"eTail"} => Before(at[t], tail_)
  /\ pc[t] = "eCheck" => after[t] \in {nullptr, next[at[t]]}
  /\ pc[t] = "eHelp" => after[t] = next[at[t]] /\ after[t] # nullptr
  /\ pc[t] = "eSwing" => node[t] = next[at[t]]

(* A thread in dequeue has read the head that is still the head, and what  *)
(* it has read since then is still so; or that node has been deleted.      *)
DequeuerOK(t) ==
  /\ pc[t] \in {"dTail", "dNext", "dCheck", "dHelp", "dEmpty", "dValue", "dSwap"} =>
       at[t] = head_ \/ at[t] \notin live
  /\ pc[t] = "dHelp" => tail[t] = at[t]
  /\ at[t] = head_ =>
       /\ pc[t] \in {"dNext", "dCheck", "dHelp", "dEmpty", "dValue", "dSwap"} => Before(tail[t], tail_)
       /\ pc[t] \in {"dCheck", "dHelp", "dEmpty", "dValue", "dSwap"} => after[t] = next[head_]
       /\ pc[t] = "dHelp" => after[t] # nullptr
       /\ pc[t] \in {"dValue", "dSwap"} => tail[t] # head_
       /\ pc[t] = "dSwap" => val[t] = value[after[t]]

PointersOK == /\ ListOK /\ TailOK /\ HeapOK /\ NodesOK
              /\ \A t \in Threads : PcOK(t) /\ EnqueuerOK(t) /\ DequeuerOK(t)

-----------------------------------------------------------------------------
(* The values in the queue, or about to be; those that have left it.       *)
Held == {value[a] : a \in live \ {head_}}
Gone == {taken[n] : n \in DOMAIN taken}

ValuesOK ==
  /\ Held \subseteq Values /\ Gone \subseteq Values /\ Held \cap Gone = {}
  /\ \A a, b \in live \ {head_} : value[a] = value[b] => a = b
  /\ \A m, n \in DOMAIN taken : taken[m] = taken[n] => m = n

(* Stop values come last.                                                  *)
OrderOK ==
  /\ \A i, j \in 2 .. Len(List) : i <= j /\ value[List[i]] \in Stops => value[List[j]] \in Stops
  /\ Gone \cap Stops # {} => \A i \in 2 .. Len(List) : value[List[i]] \in Stops

FillOK ==
  stage \in {"produce", "stop"} =>
    /\ taken = <<>> /\ value[head_] = Nothing
    /\ consumed = 0 /\ total = 0 /\ finished = {}
    /\ Held = entered \cup {value[node[t]] : t \in Enqueuing}
    /\ \A t \in Enqueuing : value[node[t]] \notin entered
    /\ \A p \in Producers : \E k \in 0 .. kOps : {v \in Held : v[1] = p} = {p} \X (1 .. k)
    /\ stage = "produce" => Held \subseteq Items
    /\ stage = "stop" => Items \subseteq entered

DrainOK ==
  /\ produced = Cardinality(entered \cap Items)
  /\ stage \in {"consume", "destroy", "end"} => Held \cup Gone = Values /\ Items \subseteq entered
  /\ consumed = Cardinality(Gone \cap Items) /\ total = consumed
  /\ finished \subseteq Consumers
  /\ Cardinality(finished) = Cardinality(Gone \cap Stops)
  /\ stage \in {"destroy", "end"} => Gone = Values

IInv == TypeOK /\ stage \in {"produce", "stop", "consume", "destroy", "end"}
        /\ PointersOK /\ ValuesOK /\ OrderOK /\ FillOK /\ DrainOK

-----------------------------------------------------------------------------
LEMMA Given ==
  /\ IsFiniteSet(Addr) /\ nullptr \notin Addr /\ Nothing \notin Values
  /\ Threads = Producers \cup Consumers \cup {main} /\ Values = Items \cup Stops
  /\ Producers \cap Consumers = {} /\ main \notin Producers /\ main \notin Consumers
  /\ Consumers # {} /\ IsFiniteSet(Producers) /\ IsFiniteSet(Consumers) /\ kOps \in Nat
BY QueueAssumption, MainAssumption

LEMMA ItemsAndStops ==
  /\ Items \cap Stops = {}
  /\ \A p \in Producers, k \in 1 .. kOps : <<p, k>> \in Items
  /\ \A v \in Items : v[1] \in Producers /\ v[2] \in 1 .. kOps /\ v = <<v[1], v[2]>>
  /\ \A v \in Stops : v[1] = main /\ v[2] \in Consumers /\ v = <<main, v[2]>>
BY Given DEF Items, Stops

PcValues == {"out", "eTail", "eNext", "eCheck", "eLink", "eSwing", "eHelp", "dHead", "dTail", "dNext",
             "dCheck", "dHelp", "dEmpty", "dValue", "dSwap"}

LEMMA TypesOf ==
  ASSUME TypeOK
  PROVE  /\ head_ \in Pointers /\ tail_ \in Pointers /\ live \subseteq Addr
         /\ next \in [Addr -> Pointers] /\ value \in [Addr -> Values \cup {Nothing}]
         /\ pc \in [Threads -> PcValues]
         /\ at \in [Threads -> Pointers] /\ tail \in [Threads -> Pointers]
         /\ after \in [Threads -> Pointers] /\ node \in [Threads -> Pointers]
         /\ val \in [Threads -> Values \cup {Nothing}]
         /\ entered \subseteq Values /\ taken \in Seq(Values \cup {Nothing})
BY DEF TypeOK, Pointers, PcValues

(* A chain from the dummy on is the list.                                  *)
LEMMA ChainIsList ==
  ASSUME head_ \in Addr, next \in [Addr -> Pointers],
         NEW s, IsChain(Addr, nullptr, next, head_, s)
  PROVE  List = s /\ Nodes = Tail(s)
<1>1. s \in Seq(Addr) /\ s # <<>> /\ head_ # nullptr
  BY Given, EmptySeq DEF IsChain, Nth
<1>2. /\ IsChain(Addr, nullptr, next, next[head_], Tail(s))
      /\ head_ = s[1] /\ Head(s) = s[1]
  BY <1>1, ChainPopped
<1>3. Nodes = Tail(s)
  <2>1. next[head_] \in Addr \cup {nullptr}
    BY DEF Pointers
  <2>2. Chain(Addr, nullptr, next, next[head_]) = Tail(s)
    BY <1>2, <2>1, ChainIs, Given DEF Pointers
  <2> QED  BY <1>1, <2>2 DEF Nodes
<1>4. <<Head(s)>> \o Tail(s) = s
  BY <1>1, HeadTailProperties
<1> QED  BY <1>2, <1>3, <1>4 DEF List

LEMMA NewListIs ==
  ASSUME head_' \in Addr, next' \in [Addr -> Pointers],
         NEW s, IsChain(Addr, nullptr, next', head_', s)
  PROVE  List' = s /\ Nodes' = Tail(s) /\ ListOK'
<1>1. List' = s /\ Nodes' = Tail(s)
  <2>1. s \in Seq(Addr) /\ s # <<>> /\ head_' # nullptr
    BY Given, EmptySeq DEF IsChain, Nth
  <2>2. /\ IsChain(Addr, nullptr, next', next'[head_'], Tail(s))
        /\ head_' = s[1] /\ Head(s) = s[1]
    BY <2>1, ChainPopped
  <2>3. Nodes' = Tail(s)
    <3>1. next'[head_'] \in Addr \cup {nullptr}
      BY DEF Pointers
    <3>2. Chain(Addr, nullptr, next', next'[head_']) = Tail(s)
      BY <2>2, <3>1, ChainIs, Given DEF Pointers
    <3> QED  BY <2>1, <3>2 DEF Nodes
  <2>4. <<Head(s)>> \o Tail(s) = s
    BY <2>1, HeadTailProperties
  <2> QED  BY <2>2, <2>3, <2>4 DEF List
<1> QED  BY <1>1 DEF ListOK

LEMMA ListFacts ==
  ASSUME TypeOK, ListOK
  PROVE  /\ List \in Seq(Addr) /\ Len(List) \in Nat \ {0} /\ List[1] = head_ /\ head_ \in Addr
         /\ \A i \in 1 .. Len(List) : List[i] \in Addr
         /\ head_ \in Linked /\ Linked \subseteq Addr
         /\ \A i, j \in 1 .. Len(List) : List[i] = List[j] => i = j
         /\ \A i \in 1 .. Len(List) : next[List[i]] = Nth(List, i + 1, nullptr)
         /\ Nodes = Tail(List) /\ Nodes \in Seq(Addr) /\ Len(Nodes) = Len(List) - 1
         /\ \A i \in 1 .. Len(List) - 1 : Nodes[i] = List[i + 1]
<1>1. /\ List \in Seq(Addr) /\ head_ \in Addr /\ next \in [Addr -> Pointers]
      /\ IsChain(Addr, nullptr, next, head_, List)
      /\ head_ = Nth(List, 1, nullptr)
      /\ \A i, j \in 1 .. Len(List) : List[i] = List[j] => i = j
      /\ \A i \in 1 .. Len(List) : next[List[i]] = Nth(List, i + 1, nullptr)
  BY TypesOf DEF ListOK, IsChain
<1>2. Len(List) \in Nat \ {0} /\ List[1] = head_ /\ 1 \in 1 .. Len(List) /\ List # <<>>
  BY <1>1, Given, EmptySeq, LenProperties DEF Nth
<1>3. \A i \in 1 .. Len(List) : List[i] \in Addr
  BY <1>1, ElementOfSeq
<1>4. head_ \in Linked /\ Linked \subseteq Addr
  BY <1>2, <1>3 DEF Linked
<1>5. Nodes = Tail(List)
  BY <1>1, ChainIsList
<1>6. /\ Tail(List) \in Seq(Addr) /\ Len(Tail(List)) = Len(List) - 1
      /\ \A i \in 1 .. Len(List) - 1 : Tail(List)[i] = List[i + 1]
  BY <1>1, <1>2, HeadTailProperties
<1> QED  BY <1>1, <1>2, <1>3, <1>4, <1>5, <1>6

LEMMA LinkedIsLive ==
  ASSUME IInv, stage # "end" PROVE Linked \subseteq live /\ tail_ \in Linked /\ tail_ \in live
BY DEF IInv, PointersOK, TailOK, HeapOK, Linked

LEMMA ListKept ==
  ASSUME TypeOK, ListOK, head_' = head_, next' \in [Addr -> Pointers],
         \A a \in Linked : next'[a] = next[a]
  PROVE  List' = List /\ Nodes' = Nodes /\ ListOK' /\ Linked' = Linked
<1> DEFINE s == List
<1>1. \A i \in 1 .. Len(s) : next'[s[i]] = next[s[i]]
  BY DEF Linked
<1>2. IsChain(Addr, nullptr, next, head_, s) /\ head_' \in Addr /\ Nodes = Tail(s)
  BY ListFacts DEF ListOK
<1> HIDE DEF s
<1>3. IsChain(Addr, nullptr, next', head_', s)
  BY <1>1, <1>2, ChainKept
<1>4. List' = s /\ Nodes' = Tail(s) /\ ListOK'
  BY <1>2, <1>3, NewListIs
<1> QED  BY <1>2, <1>4 DEF s, Linked

-----------------------------------------------------------------------------
(* Steps that keep the list, the heap and the history, and move at most    *)
(* the tail, forward: they leave the other threads as they were.           *)
LEMMA BeforeTrans ==
  ASSUME TypeOK, ListOK, NEW a, NEW b, NEW c, Before(a, b), Before(b, c) PROVE Before(a, c)
<1>1. PICK i, j \in 1 .. Len(List) : i <= j /\ List[i] = a /\ List[j] = b
  BY DEF Before
<1>2. PICK k, l \in 1 .. Len(List) : k <= l /\ List[k] = b /\ List[l] = c
  BY DEF Before
<1>3. j = k /\ Len(List) \in Nat
  BY <1>1, <1>2, ListFacts
<1>4. i <= l
  BY <1>1, <1>2, <1>3
<1> QED  BY <1>1, <1>2, <1>4 DEF Before

LEMMA BeforeSelf ==
  ASSUME TypeOK, ListOK, NEW a \in Linked PROVE Before(a, a)
<1>1. PICK i \in 1 .. Len(List) : List[i] = a
  BY DEF Linked
<1> QED  BY <1>1, ListFacts DEF Before

LEMMA ContentsKept ==
  ASSUME Nodes' = Nodes, value' = value PROVE Contents' = Contents
BY DEF Contents

LEMMA MoveStep ==
  ASSUME IInv, NEW t \in Threads, UNCHANGED <<head_, heapVars, historyVars, mainVars, node>>,
         TailOK', Before(tail_, tail_'),
         NEW p \in PcValues, pc' = [pc EXCEPT ![t] = p],
         NEW a \in Pointers, at' = [at EXCEPT ![t] = a],
         NEW l \in Pointers, tail' = [tail EXCEPT ![t] = l],
         NEW f \in Pointers, after' = [after EXCEPT ![t] = f],
         NEW d \in Values \cup {Nothing}, val' = [val EXCEPT ![t] = d],
         p \in EnqueuePcs <=> pc[t] \in EnqueuePcs,
         p \in EnqueuePcs \ {"eSwing"} <=> pc[t] \in EnqueuePcs \ {"eSwing"},
         PcOK(t)', EnqueuerOK(t)', DequeuerOK(t)'
  PROVE  IInv' /\ List' = List /\ Contents' = Contents
<1>1. /\ head_' = head_ /\ live' = live /\ value' = value /\ next' = next /\ node' = node
      /\ entered' = entered /\ taken' = taken /\ stage' = stage /\ produced' = produced
      /\ consumed' = consumed /\ total' = total /\ finished' = finished
  BY DEF heapVars, historyVars, mainVars
<1>2. TypeOK /\ ListOK /\ PointersOK /\ ValuesOK /\ OrderOK /\ FillOK /\ DrainOK /\ TailOK
  BY DEF IInv, PointersOK
<1>3. List' = List /\ Nodes' = Nodes /\ ListOK' /\ Linked' = Linked
  BY <1>1, <1>2, TypesOf, ListKept
<1>4. Contents' = Contents
  BY <1>1, <1>3, ContentsKept
<1>5. /\ \A u \in Threads \ {t} : /\ pc'[u] = pc[u] /\ at'[u] = at[u] /\ tail'[u] = tail[u]
                                  /\ after'[u] = after[u] /\ val'[u] = val[u]
      /\ pc'[t] = p
  BY <1>2, TypesOf
<1>6. Enqueuing' = Enqueuing /\ Adding' = Adding
  BY <1>5 DEF Enqueuing, Adding
<1>7. TypeOK'
  <2>1. tail_' \in Addr
    BY <1>2, ListFacts DEF Before
  <2>2. /\ pc' \in [Threads -> PcValues] /\ at' \in [Threads -> Pointers]
        /\ tail' \in [Threads -> Pointers] /\ after' \in [Threads -> Pointers]
        /\ val' \in [Threads -> Values \cup {Nothing}]
    BY <1>2, TypesOf
  <2> QED  BY <1>1, <1>2, <2>1, <2>2 DEF TypeOK, Pointers, PcValues
<1>8. \A b, c : Before(b, c)' <=> Before(b, c)
  BY <1>3 DEF Before
<1>9. ASSUME NEW u \in Threads \ {t} PROVE PcOK(u)' /\ EnqueuerOK(u)' /\ DequeuerOK(u)'
  <2>1. PcOK(u) /\ EnqueuerOK(u) /\ DequeuerOK(u)
    BY <1>2 DEF PointersOK
  <2>2. ASSUME NEW b, Before(b, tail_) PROVE Before(b, tail_)'
    <3>1. Before(b, tail_')
      BY <1>2, <2>2, BeforeTrans
    <3>2. PICK i, j \in 1 .. Len(List) : i <= j /\ List[i] = b /\ List[j] = tail_'
      BY <3>1 DEF Before
    <3> QED  BY <1>3, <3>2 DEF Before
  <2>3. PcOK(u)'
    BY <1>1, <1>5, <2>1 DEF PcOK
  <2>4. EnqueuerOK(u)'
    BY <1>1, <1>5, <2>1, <2>2 DEF EnqueuerOK
  <2>5. DequeuerOK(u)'
    BY <1>1, <1>5, <2>1, <2>2 DEF DequeuerOK
  <2> QED  BY <2>3, <2>4, <2>5
<1>10. HeapOK' /\ NodesOK'
  BY <1>1, <1>2, <1>3, <1>6 DEF PointersOK, HeapOK, NodesOK
<1>11. PointersOK'
  BY <1>3, <1>9, <1>10 DEF PointersOK
<1>12. ValuesOK' /\ OrderOK' /\ FillOK' /\ DrainOK'
  <2>1. Held' = Held /\ Gone' = Gone
    BY <1>1 DEF Held, Gone
  <2> QED  BY <1>1, <1>2, <1>3, <1>6, <2>1 DEF ValuesOK, OrderOK, FillOK, DrainOK
<1> QED  BY <1>1, <1>3, <1>4, <1>7, <1>11, <1>12 DEF IInv

(* The same of a thread in enqueue.                                        *)
LEMMA InEnqueueFacts ==
  ASSUME IInv, NEW t \in Threads, pc[t] \in EnqueuePcs
  PROVE  /\ stage \in {"produce", "stop"} /\ t \in Enqueuing
         /\ pc[t] # "eTail" => at[t] \in Linked /\ at[t] \in live /\ Before(at[t], tail_) /\ at[t] \in Addr
<1>1. PcOK(t) /\ EnqueuerOK(t)
  BY DEF IInv, PointersOK
<1>2. stage \in {"produce", "stop"}
  BY <1>1 DEF PcOK, IInv, EnqueuePcs, DequeuePcs
<1>3. pc[t] # "eTail" => Before(at[t], tail_) /\ at[t] \in Linked
  BY <1>1 DEF EnqueuerOK, Before, Linked
<1> QED  BY <1>2, <1>3, LinkedIsLive, TypesOf DEF Enqueuing, IInv

LEMMA TailKept ==
  ASSUME IInv, head_' = head_, next' = next, tail_' = tail_
  PROVE  TailOK' /\ Before(tail_, tail_')
<1>1. TypeOK /\ ListOK /\ TailOK /\ tail_ \in Linked
  BY DEF IInv, PointersOK, TailOK, Linked
<1>2. List' = List
  BY <1>1, TypesOf, ListKept
<1>3. TailOK'
  BY <1>1, <1>2 DEF TailOK
<1> QED  BY <1>1, <1>3, BeforeSelf

LEMMA EnqueueMove ==
  ASSUME IInv, NEW t \in Threads,
         UNCHANGED <<head_, heapVars, historyVars, mainVars, node, tail, val>>,
         TailOK', Before(tail_, tail_'), pc[t] \in EnqueuePcs \ {"eSwing"},
         NEW p \in EnqueuePcs \ {"eSwing"}, pc' = [pc EXCEPT ![t] = p],
         NEW a \in Pointers, at' = [at EXCEPT ![t] = a],
         NEW f \in Pointers, after' = [after EXCEPT ![t] = f],
         EnqueuerOK(t)'
  PROVE  IInv' /\ List' = List /\ Contents' = Contents
<1>1. TypeOK /\ PcOK(t)
  BY DEF IInv, PointersOK
<1>2. p \in PcValues /\ pc'[t] = p
  BY <1>1, TypesOf DEF PcValues, EnqueuePcs
<1>3. /\ tail' = [tail EXCEPT ![t] = tail[t]] /\ tail[t] \in Pointers
      /\ val' = [val EXCEPT ![t] = val[t]] /\ val[t] \in Values \cup {Nothing}
      /\ UNCHANGED <<head_, heapVars, historyVars, mainVars, node>>
  BY <1>1, TypesOf
<1>4. PcOK(t)'
  BY <1>1, <1>2, InEnqueueFacts DEF PcOK, mainVars, EnqueuePcs, DequeuePcs
<1>5. DequeuerOK(t)'
  BY <1>2 DEF DequeuerOK, EnqueuePcs
<1>6. /\ p \in EnqueuePcs <=> pc[t] \in EnqueuePcs
      /\ p \in EnqueuePcs \ {"eSwing"} <=> pc[t] \in EnqueuePcs \ {"eSwing"}
  OBVIOUS
<1> QED  BY <1>2, <1>3, <1>4, <1>5, <1>6, MoveStep

LEMMA EnqueueLoadTailKeeps ==
  ASSUME IInv, NEW t \in Threads, EnqueueLoadTail(t), UNCHANGED mainVars
  PROVE  IInv' /\ List' = List /\ Contents' = Contents
<1>1. /\ pc[t] = "eTail" /\ pc' = [pc EXCEPT ![t] = "eNext"] /\ at' = [at EXCEPT ![t] = tail_]
      /\ after' = [after EXCEPT ![t] = after[t]]
      /\ UNCHANGED <<head_, tail_, heapVars, historyVars, mainVars, node, tail, val>>
  BY TypesOf DEF EnqueueLoadTail, Goto, Let, IInv
<1>2. tail_ \in Pointers /\ after[t] \in Pointers /\ TailOK' /\ Before(tail_, tail_')
  BY <1>1, TypesOf, TailKept DEF IInv, heapVars
<1>3. EnqueuerOK(t)'
  <2>1. pc'[t] = "eNext" /\ at'[t] = tail_
    BY <1>1, TypesOf DEF IInv
  <2>2. List' = List
    BY <1>1, TypesOf, ListKept DEF IInv, PointersOK, heapVars
  <2> QED  BY <1>1, <1>2, <2>1, <2>2 DEF EnqueuerOK, Before
<1> QED  BY <1>1, <1>2, <1>3, EnqueueMove DEF EnqueuePcs

LEMMA EnqueueLoadNextKeeps ==
  ASSUME IInv, NEW t \in Threads, EnqueueLoadNext(t), UNCHANGED mainVars
  PROVE  IInv' /\ List' = List /\ Contents' = Contents
<1>0. pc[t] = "eNext" /\ at[t] \in live /\ Before(at[t], tail_) /\ at[t] \in Addr
  BY InEnqueueFacts DEF EnqueueLoadNext, Goto, EnqueuePcs
<1>1. /\ pc' = [pc EXCEPT ![t] = "eCheck"] /\ at' = [at EXCEPT ![t] = at[t]]
      /\ after' = [after EXCEPT ![t] = next[at[t]]]
      /\ UNCHANGED <<head_, tail_, heapVars, historyVars, mainVars, node, tail, val>>
  BY <1>0, TypesOf DEF EnqueueLoadNext, Goto, Let, IInv, NextOf
<1>2. at[t] \in Pointers /\ next[at[t]] \in Pointers /\ TailOK' /\ Before(tail_, tail_')
  BY <1>0, <1>1, TypesOf, TailKept DEF IInv, heapVars
<1>3. EnqueuerOK(t)'
  <2>1. pc'[t] = "eCheck" /\ at'[t] = at[t] /\ after'[t] = next[at[t]]
    BY <1>1, TypesOf DEF IInv
  <2>2. List' = List
    BY <1>1, TypesOf, ListKept DEF IInv, PointersOK, heapVars
  <2> QED  BY <1>0, <1>1, <1>2, <2>1, <2>2 DEF EnqueuerOK, Before, heapVars
<1> QED  BY <1>0, <1>1, <1>2, <1>3, EnqueueMove DEF EnqueuePcs

LEMMA EnqueueCheckKeeps ==
  ASSUME IInv, NEW t \in Threads, EnqueueCheck(t), UNCHANGED mainVars
  PROVE  IInv' /\ List' = List /\ Contents' = Contents
<1> DEFINE p == IF at[t] # tail_ THEN "eTail" ELSE IF after[t] = nullptr THEN "eLink" ELSE "eHelp"
<1>0. pc[t] = "eCheck" /\ at[t] \in live /\ Before(at[t], tail_) /\ at[t] \in Addr /\ EnqueuerOK(t)
  BY InEnqueueFacts DEF EnqueueCheck, Goto, EnqueuePcs, IInv, PointersOK
<1>1. /\ pc' = [pc EXCEPT ![t] = p] /\ at' = [at EXCEPT ![t] = at[t]]
      /\ after' = [after EXCEPT ![t] = after[t]]
      /\ UNCHANGED <<head_, tail_, heapVars, historyVars, mainVars, node, tail, val, localVars>>
  BY <1>0, TypesOf DEF EnqueueCheck, Goto, IInv, localVars
<1>2. at[t] \in Pointers /\ after[t] \in Pointers /\ TailOK' /\ Before(tail_, tail_')
  BY <1>0, <1>1, TypesOf, TailKept DEF IInv, heapVars
<1>3. p \in EnqueuePcs \ {"eSwing"}
  BY DEF EnqueuePcs
<1>4. EnqueuerOK(t)'
  <2>1. pc'[t] = p /\ at'[t] = at[t] /\ after'[t] = after[t]
    BY <1>1, TypesOf DEF IInv
  <2>2. List' = List
    BY <1>1, TypesOf, ListKept DEF IInv, PointersOK, heapVars
  <2> QED  BY <1>0, <1>1, <1>2, <2>1, <2>2 DEF EnqueuerOK, Before, heapVars
<1> HIDE DEF p
<1> QED  BY <1>0, <1>1, <1>2, <1>3, <1>4, EnqueueMove DEF EnqueuePcs

(* A link that fails.                                                      *)
LEMMA EnqueueRetryKeeps ==
  ASSUME IInv, NEW t \in Threads, Goto(t, "eLink", "eTail"),
         UNCHANGED <<head_, tail_, heapVars, localVars, historyVars, mainVars>>
  PROVE  IInv' /\ List' = List /\ Contents' = Contents
<1>1. /\ pc[t] = "eLink" /\ pc' = [pc EXCEPT ![t] = "eTail"] /\ at' = [at EXCEPT ![t] = at[t]]
      /\ after' = [after EXCEPT ![t] = after[t]]
      /\ UNCHANGED <<head_, tail_, heapVars, historyVars, mainVars, node, tail, val>>
  BY TypesOf DEF Goto, IInv, localVars
<1>2. at[t] \in Pointers /\ after[t] \in Pointers /\ TailOK' /\ Before(tail_, tail_')
  BY <1>1, TypesOf, TailKept DEF IInv, heapVars
<1>3. EnqueuerOK(t)'
  BY <1>1, TypesOf DEF IInv, EnqueuerOK
<1> QED  BY <1>1, <1>2, <1>3, EnqueueMove DEF EnqueuePcs

(* The tail goes to the node behind it.                                    *)
LEMMA TailForward ==
  ASSUME IInv, head_' = head_, next' = next, next[tail_] # nullptr, tail_' = next[tail_]
  PROVE  TailOK' /\ Before(tail_, tail_')
<1>1. TypeOK /\ ListOK /\ TailOK
  BY DEF IInv, PointersOK
<1>2. List' = List
  BY <1>1, TypesOf, ListKept
<1>3. PICK n \in 1 .. Len(List) : List[n] = tail_ /\ n >= Len(List) - 1
  BY <1>1 DEF TailOK
<1>4. n + 1 \in 1 .. Len(List) /\ List[n + 1] = tail_' /\ n <= n + 1 /\ n + 1 >= Len(List) - 1
  BY <1>1, <1>3, ListFacts DEF Nth
<1>5. Before(tail_, tail_')
  BY <1>3, <1>4 DEF Before
<1> QED  BY <1>2, <1>4, <1>5 DEF TailOK

LEMMA EnqueueHelpKeeps ==
  ASSUME IInv, NEW t \in Threads, EnqueueHelp(t), UNCHANGED mainVars
  PROVE  IInv' /\ List' = List /\ Contents' = Contents
<1>0. pc[t] = "eHelp" /\ at[t] \in live /\ Before(at[t], tail_) /\ at[t] \in Addr
      /\ after[t] = next[at[t]] /\ after[t] # nullptr
  BY InEnqueueFacts DEF EnqueueHelp, SwingTail, Goto, EnqueuePcs, IInv, PointersOK, EnqueuerOK
<1>1. /\ pc' = [pc EXCEPT ![t] = "eTail"] /\ at' = [at EXCEPT ![t] = at[t]]
      /\ after' = [after EXCEPT ![t] = after[t]]
      /\ UNCHANGED <<head_, heapVars, historyVars, mainVars, node, tail, val, next>>
      /\ (tail_ = at[t] /\ tail_' = after[t]) \/ tail_' = tail_
  BY <1>0, TypesOf DEF EnqueueHelp, SwingTail, Goto, IInv, localVars, heapVars
<1>2. TailOK' /\ Before(tail_, tail_')
  BY <1>0, <1>1, TailKept, TailForward
<1>3. at[t] \in Pointers /\ after[t] \in Pointers
  BY TypesOf DEF IInv
<1>4. EnqueuerOK(t)'
  BY <1>1, TypesOf DEF IInv, EnqueuerOK
<1> QED  BY <1>0, <1>1, <1>2, <1>3, <1>4, EnqueueMove DEF EnqueuePcs

LEMMA FillingPcs ==
  ASSUME IInv, stage \in {"produce", "stop"}, NEW u \in Threads
  PROVE  pc[u] \in EnqueuePcs \cup {"out"}
<1>1. PcOK(u)
  BY DEF IInv, PointersOK
<1> QED  BY <1>1 DEF PcOK

(* new Node(v): an address that nobody holds.                              *)
LEMMA EnqueueStartKeeps ==
  ASSUME IInv, NEW t \in Threads, NEW v \in Values \ Used, EnqueueStart(t, v), UNCHANGED mainVars,
         stage \in {"produce", "stop"}, PcOK(t)',
         stage = "produce" => v \in Items,
         \A p \in Producers : \E k \in 0 .. kOps : {w \in Held \cup {v} : w[1] = p} = {p} \X (1 .. k)
  PROVE  IInv' /\ List' = List /\ Contents' = Contents
<1>1. PICK a \in Addr \ live : /\ live' = live \cup {a} /\ value' = [value EXCEPT ![a] = v]
                               /\ next' = [next EXCEPT ![a] = nullptr]
                               /\ node' = [node EXCEPT ![t] = a]
  BY DEF EnqueueStart, Let
<1>2. /\ pc[t] = "out" /\ pc' = [pc EXCEPT ![t] = "eTail"]
      /\ head_' = head_ /\ tail_' = tail_ /\ at' = at /\ tail' = tail /\ after' = after /\ val' = val
      /\ entered' = entered /\ taken' = taken /\ stage' = stage /\ produced' = produced
      /\ consumed' = consumed /\ total' = total /\ finished' = finished
  BY DEF EnqueueStart, Goto, historyVars, mainVars
<1>3. TypeOK /\ ListOK /\ TailOK /\ HeapOK /\ NodesOK /\ PointersOK /\ ValuesOK /\ OrderOK /\ FillOK /\ DrainOK
  BY DEF IInv, PointersOK
<1>4. /\ Linked \subseteq live /\ tail_ \in live /\ head_ \in live /\ head_ \in Addr /\ head_ # a
      /\ a \notin Linked /\ a \in Addr /\ v \in Values
  BY <1>1, <1>3, LinkedIsLive, ListFacts
<1>5. /\ next' \in [Addr -> Pointers] /\ next'[a] = nullptr /\ value'[a] = v
      /\ value' \in [Addr -> Values \cup {Nothing}]
      /\ \A b \in Addr \ {a} : next'[b] = next[b] /\ value'[b] = value[b]
      /\ pc' \in [Threads -> PcValues] /\ node' \in [Threads -> Pointers]
      /\ pc'[t] = "eTail" /\ node'[t] = a
      /\ \A u \in Threads \ {t} : pc'[u] = pc[u] /\ node'[u] = node[u]
  BY <1>1, <1>2, <1>3, TypesOf DEF Pointers, PcValues
<1>6. List' = List /\ Nodes' = Nodes /\ ListOK' /\ Linked' = Linked
  <2>1. \A b \in Linked : next'[b] = next[b]
    BY <1>3, <1>4, <1>5, ListFacts
  <2> QED  BY <1>2, <1>3, <1>5, <2>1, ListKept
<1>7. Contents' = Contents
  <2>1. \A n \in DOMAIN Nodes : value'[Nodes[n]] = value[Nodes[n]]
    <3>1. \A n \in 1 .. Len(List) - 1 : Nodes[n] \in Linked
      BY <1>3, ListFacts DEF Linked
    <3>2. DOMAIN Nodes = 1 .. Len(List) - 1
      BY <1>3, ListFacts, LenProperties
    <3> QED  BY <1>3, <1>4, <1>5, <3>1, <3>2, ListFacts
  <2> QED  BY <1>6, <2>1 DEF Contents
<1>8. TypeOK'
  BY <1>1, <1>2, <1>3, <1>5 DEF TypeOK, Pointers, PcValues
<1>9. Enqueuing' = Enqueuing \cup {t} /\ Adding' = Adding \cup {t} /\ t \notin Enqueuing /\ t \notin Adding
  BY <1>2, <1>5 DEF Enqueuing, Adding, EnqueuePcs
<1>10. /\ \A u \in Enqueuing : node'[u] = node[u] /\ node[u] \in live /\ node[u] # a /\ u \in Threads
                               /\ node[u] \in Addr
       /\ Adding \subseteq Enqueuing
  BY <1>3, <1>5, <1>9, TypesOf DEF Enqueuing, Adding, NodesOK
<1>11. HeapOK'
  BY <1>1, <1>2, <1>3, <1>5, <1>6, <1>9, <1>10 DEF HeapOK
<1>12. NodesOK'
  <2>1. \A u \in Enqueuing' : node'[u] \in live' /\ node'[u] # head_'
    BY <1>1, <1>2, <1>3, <1>4, <1>5, <1>9, <1>10 DEF NodesOK
  <2>2. \A u \in Adding' : node'[u] \notin Linked' /\ next'[node'[u]] = nullptr
    BY <1>3, <1>4, <1>5, <1>6, <1>9, <1>10 DEF NodesOK
  <2>3. \A u, w \in Enqueuing' : node'[u] = node'[w] => u = w
    BY <1>3, <1>5, <1>9, <1>10 DEF NodesOK
  <2> QED  BY <2>1, <2>2, <2>3 DEF NodesOK
<1>13. TailOK' /\ \A b, c : Before(b, c)' <=> Before(b, c)
  BY <1>2, <1>3, <1>6 DEF TailOK, Before
<1>14. ASSUME NEW u \in Threads PROVE PcOK(u)' /\ EnqueuerOK(u)' /\ DequeuerOK(u)'
  <2>1. pc'[u] \in EnqueuePcs \cup {"out"}
    BY <1>2, <1>5, FillingPcs DEF EnqueuePcs
  <2>2. DequeuerOK(u)'
    BY <2>1 DEF DequeuerOK, EnqueuePcs
  <2>3. CASE u = t
    BY <1>5, <2>2, <2>3 DEF EnqueuerOK
  <2>4. CASE u # t
    <3>1. PcOK(u) /\ EnqueuerOK(u)
      BY <1>3 DEF PointersOK
    <3>2. PcOK(u)'
      BY <1>2, <1>5, <2>4, <3>1 DEF PcOK
    <3>3. pc[u] \in EnqueuePcs \ {"eTail"} => next'[at[u]] = next[at[u]]
      BY <1>4, <1>5, InEnqueueFacts
    <3>4. Before(at[u], tail_)' <=> Before(at[u], tail_)
      BY <1>2, <1>6 DEF Before
    <3>5. EnqueuerOK(u)'
      BY <1>2, <1>5, <2>4, <3>1, <3>3, <3>4 DEF EnqueuerOK, EnqueuePcs
    <3> QED  BY <2>2, <3>2, <3>5
  <2> QED  BY <2>3, <2>4
<1>15. PointersOK'
  BY <1>6, <1>11, <1>12, <1>13, <1>14 DEF PointersOK
<1>16. Held' = Held \cup {v} /\ v \notin Held /\ v \notin entered
  <2>1. \A b \in live \ {head_} : value'[b] = value[b] /\ b \in live' \ {head_'}
    BY <1>1, <1>2, <1>3, <1>5, TypesOf
  <2>2. live' \ {head_'} = (live \ {head_}) \cup {a}
    BY <1>1, <1>2, <1>4
  <2>3. v \notin Held
    BY DEF Held, Used
  <2> QED  BY <1>5, <2>1, <2>2, <2>3 DEF Held, Used
<1>17. taken = <<>> /\ Gone = {} /\ Gone' = {}
  BY <1>2, <1>3 DEF FillOK, Gone
<1>18. ValuesOK'
  <2>1. \A b, c \in live' \ {head_'} : value'[b] = value'[c] => b = c
    <3> SUFFICES ASSUME NEW b \in live' \ {head_'}, NEW c \in live' \ {head_'}, value'[b] = value'[c]
                 PROVE  b = c
      OBVIOUS
    <3>1. b \in live \ {head_} /\ c \in live \ {head_} => b = c
      <4>1. b # a /\ c # a /\ b \in Addr /\ c \in Addr => value[b] = value[c]
        BY <1>5
      <4> QED  BY <1>1, <1>3, <4>1, TypesOf DEF ValuesOK
    <3>2. \A x \in live \ {head_} : value'[x] \in Held /\ value'[x] # v
      BY <1>3, <1>5, <1>16, TypesOf DEF Held
    <3> QED  BY <1>1, <1>2, <1>5, <3>1, <3>2
  <2>2. Held' \subseteq Values /\ Gone' \subseteq Values /\ Held' \cap Gone' = {}
    BY <1>3, <1>4, <1>16, <1>17 DEF ValuesOK
  <2>3. \A m, n \in DOMAIN taken' : taken'[m] = taken'[n] => m = n
    BY <1>2, <1>3 DEF ValuesOK
  <2> QED  BY <2>1, <2>2, <2>3 DEF ValuesOK
<1>19. OrderOK'
  <2>1. \A i \in 2 .. Len(List) : value'[List[i]] = value[List[i]]
    BY <1>3, <1>4, <1>5, ListFacts DEF Linked
  <2> QED  BY <1>3, <1>6, <1>17, <2>1 DEF OrderOK
<1>20. FillOK'
  <2>1. \A u \in Enqueuing : value'[node'[u]] = value[node[u]]
    BY <1>5, <1>10
  <2>2. value'[node'[t]] = v /\ value'[head_'] = value[head_]
    BY <1>2, <1>4, <1>5
  <2>3. Held' = entered' \cup {value'[node'[u]] : u \in Enqueuing'}
    BY <1>2, <1>3, <1>9, <1>16, <2>1, <2>2 DEF FillOK
  <2>4. \A u \in Enqueuing' : value'[node'[u]] \notin entered'
    BY <1>2, <1>3, <1>9, <1>16, <2>1, <2>2 DEF FillOK
  <2> QED  BY <1>2, <1>3, <1>16, <2>2, <2>3, <2>4 DEF FillOK
<1>21. DrainOK'
  BY <1>2, <1>3, <1>17 DEF DrainOK
<1> QED  BY <1>2, <1>6, <1>7, <1>8, <1>15, <1>18, <1>19, <1>20, <1>21 DEF IInv

ContentsAre ==
  /\ DOMAIN Contents = 1 .. Len(List) - 1 /\ Contents \in Seq(Values \cup {Nothing})
  /\ Len(Contents) = Len(List) - 1
  /\ \A i \in 1 .. Len(List) - 1 : Contents[i] = value[List[i + 1]]

LEMMA ContentsFacts ==
  ASSUME TypeOK, ListOK
  PROVE  ContentsAre
<1>1. /\ Nodes \in Seq(Addr) /\ Len(Nodes) = Len(List) - 1 /\ Len(List) \in Nat \ {0}
      /\ \A i \in 1 .. Len(List) - 1 : Nodes[i] = List[i + 1] /\ List[i + 1] \in Addr
      /\ value \in [Addr -> Values \cup {Nothing}]
  <2>1. \A i \in 1 .. Len(List) - 1 : i + 1 \in 1 .. Len(List)
    BY ListFacts
  <2>2. value \in [Addr -> Values \cup {Nothing}]
    BY TypesOf
  <2>3. Nodes \in Seq(Addr) /\ Len(Nodes) = Len(List) - 1 /\ Len(List) \in Nat \ {0}
    BY ListFacts
  <2>4. \A i \in 1 .. Len(List) - 1 : Nodes[i] = List[i + 1]
    BY ListFacts
  <2>5. \A i \in 1 .. Len(List) : List[i] \in Addr
    BY ListFacts
  <2> QED  BY <2>1, <2>2, <2>3, <2>4, <2>5
<1>2. DOMAIN Nodes = 1 .. Len(List) - 1
  BY <1>1, LenProperties
<1>3. Contents = [i \in 1 .. Len(List) - 1 |-> value[List[i + 1]]]
  BY <1>1, <1>2 DEF Contents
<1>4. \A i \in 1 .. Len(List) - 1 : value[List[i + 1]] \in Values \cup {Nothing}
  BY <1>1
<1> HIDE DEF Contents
<1>5. Contents \in Seq(Values \cup {Nothing}) /\ Len(Contents) = Len(List) - 1
  BY <1>1, <1>3, <1>4
<1> QED  BY <1>3, <1>5 DEF ContentsAre

LEMMA NewContentsFacts == TypeOK' /\ ListOK' => ContentsAre'
<1>1. TypeOK /\ ListOK => ContentsAre
  BY ContentsFacts
<1> QED  BY <1>1, PTL

(* prev_tail->next.compare_exchange: the node is on the list, at its end.  *)
LEMMA EnqueueLinkKeeps ==
  ASSUME IInv, NEW t \in Threads, Goto(t, "eLink", "eSwing"), nullptr \in NextOf(at[t]),
         next' = IF at[t] \in live THEN Let(next, at[t], node[t]) ELSE next,
         UNCHANGED <<head_, tail_, live, value, localVars, historyVars, mainVars>>
  PROVE  /\ IInv' /\ taken' = taken
         /\ Contents' = Append(Contents, value[node[t]]) /\ value[node[t]] \in Values
         /\ Len(Contents) < Cardinality(Addr)
<1> DEFINE b == node[t]  last == Len(List)
<1>1. /\ pc[t] = "eLink" /\ pc' = [pc EXCEPT ![t] = "eSwing"]
      /\ head_' = head_ /\ tail_' = tail_ /\ live' = live /\ value' = value
      /\ at' = at /\ tail' = tail /\ after' = after /\ val' = val /\ node' = node
      /\ entered' = entered /\ taken' = taken /\ stage' = stage /\ produced' = produced
      /\ consumed' = consumed /\ total' = total /\ finished' = finished
  BY DEF Goto, historyVars, mainVars, localVars
<1>2. TypeOK /\ ListOK /\ TailOK /\ HeapOK /\ NodesOK /\ PointersOK /\ ValuesOK /\ OrderOK /\ FillOK /\ DrainOK
  BY DEF IInv, PointersOK
<1>3. /\ stage \in {"produce", "stop"} /\ t \in Enqueuing /\ t \in Adding
      /\ at[t] \in Linked /\ at[t] \in live /\ Before(at[t], tail_) /\ at[t] \in Addr
  BY <1>1, InEnqueueFacts DEF EnqueuePcs, Adding
<1>4. /\ b \in live /\ b \in Addr /\ b \notin Linked /\ b # head_ /\ next[b] = nullptr /\ b # at[t]
  BY <1>2, <1>3, TypesOf DEF NodesOK
<1>5. next[at[t]] = nullptr /\ next' = [next EXCEPT ![at[t]] = b]
  BY <1>3 DEF NextOf, Let
<1>6. /\ next' \in [Addr -> Pointers] /\ next'[at[t]] = b
      /\ \A a \in Addr \ {at[t]} : next'[a] = next[a]
  BY <1>2, <1>3, <1>4, <1>5, TypesOf DEF Pointers
<1>7. List[last] = at[t] /\ tail_ = at[t] /\ last \in 1 .. last /\ last \in Nat \ {0}
  <2>1. PICK i, j \in 1 .. last : i <= j /\ List[i] = at[t] /\ List[j] = tail_
    BY <1>3 DEF Before
  <2>2. Nth(List, i + 1, nullptr) = nullptr
    BY <1>2, <1>5, <2>1, ListFacts
  <2>3. i + 1 \notin 1 .. last
    BY <1>2, <2>2, ListFacts, Given DEF Nth
  <2>4. last \in Nat \ {0}
    BY <1>2, ListFacts
  <2>5. i = last /\ j = last
    <3> HIDE DEF last
    <3> QED  BY <2>1, <2>3, <2>4
  <2> QED  BY <2>1, <2>4, <2>5
<1>8. List' = Append(List, b) /\ Nodes' = Tail(Append(List, b)) /\ ListOK'
  <2> DEFINE s == List
  <2>1. /\ IsChain(Addr, nullptr, next, head_, s) /\ head_ \in Addr /\ s # <<>>
        /\ \A i \in 1 .. Len(s) : s[i] # b
        /\ next'[s[Len(s)]] = b /\ next'[b] = nullptr
        /\ \A i \in 1 .. Len(s) - 1 : next'[s[i]] = next[s[i]]
    <3>1. \A i \in 1 .. Len(s) - 1 : s[i] \in Addr \ {at[t]}
      BY <1>2, <1>7, ListFacts
    <3>2. IsChain(Addr, nullptr, next, head_, s) /\ head_ \in Addr /\ s # <<>>
      BY <1>2, ListFacts, EmptySeq DEF ListOK
    <3> QED  BY <1>4, <1>6, <1>7, <3>1, <3>2 DEF Linked
  <2> HIDE DEF s, b
  <2>2. IsChain(Addr, nullptr, next', head_, Append(s, b))
    BY <1>4, <2>1, ChainAppended
  <2>3. head_' \in Addr /\ IsChain(Addr, nullptr, next', head_', Append(s, b))
    BY <1>1, <2>1, <2>2
  <2>4. List' = Append(s, b) /\ Nodes' = Tail(Append(s, b)) /\ ListOK'
    BY <1>6, <2>3, NewListIs
  <2> QED  BY <2>4 DEF s
<1>9. /\ List' \in Seq(Addr) /\ Len(List') = last + 1 /\ List'[last + 1] = b
      /\ \A i \in 1 .. last : List'[i] = List[i]
  <2>1. List \in Seq(Addr)
    BY <1>2, ListFacts
  <2> QED  BY <1>4, <1>8, <2>1, AppendProperties
<1>10. Linked' = Linked \cup {b}
  <2>1. \A i \in 1 .. last + 1 : i \in 1 .. last \/ i = last + 1
    BY <1>7
  <2>2. 1 .. last \subseteq 1 .. last + 1 /\ last + 1 \in 1 .. last + 1
    BY <1>7
  <2> HIDE DEF b, last
  <2>3. Linked' = {List'[i] : i \in 1 .. last + 1}
    BY <1>9 DEF Linked
  <2>4. Linked = {List[i] : i \in 1 .. last}
    BY DEF Linked, last
  <2> QED  BY <1>9, <2>1, <2>2, <2>3, <2>4
<1> HIDE DEF b, last
<1>12. TailOK'
  BY <1>1, <1>7, <1>9 DEF TailOK
<1>13. /\ pc' \in [Threads -> PcValues] /\ pc'[t] = "eSwing"
       /\ \A u \in Threads \ {t} : pc'[u] = pc[u]
  BY <1>1, <1>2, TypesOf DEF PcValues
<1>14. Enqueuing' = Enqueuing /\ Adding' = Adding \ {t} /\ Adding \subseteq Enqueuing
  BY <1>1, <1>13 DEF Enqueuing, Adding, EnqueuePcs
<1>15. TypeOK'
  BY <1>1, <1>2, <1>6, <1>13 DEF TypeOK, Pointers, PcValues
<1>16. HeapOK'
  BY <1>1, <1>2, <1>3, <1>10, <1>14 DEF HeapOK, b
<1>17. NodesOK'
  <2>1. \A u \in Adding' : node[u] # b /\ node[u] \in Addr /\ node[u] \notin Linked
    BY <1>2, <1>3, <1>14, TypesOf DEF NodesOK, b
  <2>2. \A u \in Adding' : node'[u] \notin Linked' /\ next'[node'[u]] = nullptr
    BY <1>1, <1>2, <1>3, <1>6, <1>10, <1>14, <2>1 DEF NodesOK
  <2> QED  BY <1>1, <1>2, <1>14, <2>2 DEF NodesOK
<1>18. ASSUME NEW u \in Threads PROVE PcOK(u)' /\ EnqueuerOK(u)' /\ DequeuerOK(u)'
  <2>0. PcOK(u) /\ EnqueuerOK(u)
    BY <1>2 DEF PointersOK
  <2>1. pc'[u] \in EnqueuePcs \cup {"out"}
    BY <1>3, <1>13, FillingPcs DEF EnqueuePcs
  <2>2. DequeuerOK(u)'
    BY <2>1 DEF DequeuerOK, EnqueuePcs
  <2>3. Before(at[u], tail_) => Before(at[u], tail_)'
    <3> SUFFICES ASSUME Before(at[u], tail_) PROVE Before(at[u], tail_)'
      OBVIOUS
    <3>1. PICK i, j \in 1 .. last : i <= j /\ List[i] = at[u] /\ List[j] = tail_
      BY DEF Before, last
    <3>2. i \in 1 .. Len(List') /\ j \in 1 .. Len(List') /\ List'[i] = at'[u] /\ List'[j] = tail_'
      BY <1>1, <1>7, <1>9, <3>1
    <3> QED  BY <3>1, <3>2 DEF Before
  <2>4. CASE u = t
    <3>1. PcOK(t)'
      <4>1. PcOK(t)
        BY <2>0, <2>4
      <4> QED  BY <1>1, <1>3, <1>13, <4>1 DEF PcOK, EnqueuePcs, DequeuePcs
    <3>2. EnqueuerOK(t)'
      BY <1>1, <1>3, <1>6, <1>13, <2>3, <2>4 DEF EnqueuerOK, b
    <3> QED  BY <2>2, <2>4, <3>1, <3>2
  <2>5. CASE u # t
    <3>1. PcOK(u)'
      BY <1>1, <1>13, <2>0, <2>5 DEF PcOK
    <3>2. pc[u] \in EnqueuePcs \ {"eTail"} => at[u] \in Addr
      BY InEnqueueFacts
    <3>3. pc[u] \in EnqueuePcs \ {"eTail"} /\ at[u] # at[t] => next'[at[u]] = next[at[u]]
      BY <1>6, <3>2
    <3>4. pc[u] = "eSwing" => node[u] \in Addr
      BY <1>2, TypesOf DEF NodesOK, Enqueuing, EnqueuePcs
    <3>5. EnqueuerOK(u)'
      BY <1>1, <1>5, <1>13, <2>0, <2>3, <2>5, <3>3, <3>4, Given DEF EnqueuerOK, EnqueuePcs
    <3> QED  BY <2>2, <3>1, <3>5
  <2> QED  BY <2>4, <2>5
<1>19. PointersOK'
  BY <1>8, <1>12, <1>16, <1>17, <1>18 DEF PointersOK
<1>20. Held' = Held /\ Gone' = Gone /\ value[b] \in Held /\ value[b] \in Values
       /\ value[b] \notin entered /\ Gone = {}
  BY <1>1, <1>2, <1>3, <1>4 DEF Held, Gone, ValuesOK, FillOK, b
<1>21. ValuesOK' /\ FillOK' /\ DrainOK'
  BY <1>1, <1>2, <1>14, <1>20 DEF ValuesOK, FillOK, DrainOK
<1>22. OrderOK'
  <2>1. \A i \in 2 .. last : List[i] \in live \ {head_} /\ value[List[i]] \in Held
    BY <1>2, <1>3, <1>7, LinkedIsLive, ListFacts DEF Linked, Held, last
  <2>2. (\E i \in 2 .. last : value[List[i]] \in Stops) => value[b] \in Stops
    <3>1. stage = "produce" => \A i \in 2 .. last : value[List[i]] \notin Stops
      BY <1>2, <2>1, ItemsAndStops DEF FillOK
    <3>2. stage = "stop" => value[b] \in Stops
      BY <1>2, <1>20, Given DEF FillOK
    <3> QED  BY <1>3, <3>1, <3>2
  <2>3. \A i \in 2 .. last + 1 : i \in 2 .. last \/ i = last + 1
    BY <1>7
  <2>4. \A i \in 2 .. last : List'[i] = List[i]
    BY <1>7, <1>9
  <2>5. ASSUME NEW i \in 2 .. last + 1, NEW j \in 2 .. last + 1, i <= j, value[List'[i]] \in Stops
        PROVE  value[List'[j]] \in Stops
    <3>1. CASE j = last + 1
      BY <1>9, <2>2, <2>3, <2>4, <2>5, <3>1
    <3>2. CASE j # last + 1
      <4>1. i \in 2 .. last /\ j \in 2 .. last
        BY <1>7, <2>5, <3>2
      <4> QED  BY <1>2, <2>4, <2>5, <4>1 DEF OrderOK, last
    <3> QED  BY <3>1, <3>2
  <2> QED  BY <1>1, <1>9, <1>20, <2>5 DEF OrderOK
<1>23. IInv'
  BY <1>1, <1>15, <1>19, <1>21, <1>22 DEF IInv
<1>24. Contents' = Append(Contents, value[b])
  <2>1. /\ DOMAIN Contents' = 1 .. last /\ Contents' \in Seq(Values \cup {Nothing}) /\ Len(Contents') = last
        /\ \A i \in 1 .. last : Contents'[i] = value'[List'[i + 1]]
    <3>1. /\ DOMAIN Contents' = 1 .. Len(List') - 1 /\ Contents' \in Seq(Values \cup {Nothing})
          /\ Len(Contents') = Len(List') - 1
          /\ \A i \in 1 .. Len(List') - 1 : Contents'[i] = value'[List'[i + 1]]
      BY <1>8, <1>15, NewContentsFacts DEF ContentsAre
    <3> QED  BY <1>7, <1>9, <3>1
  <2>2. /\ Contents \in Seq(Values \cup {Nothing}) /\ Len(Contents) = last - 1
        /\ \A i \in 1 .. last - 1 : Contents[i] = value[List[i + 1]]
    BY <1>2, ContentsFacts DEF last, ContentsAre
  <2> DEFINE r == Append(Contents, value[b])
  <2>3. /\ r \in Seq(Values \cup {Nothing}) /\ Len(r) = last
        /\ \A i \in 1 .. last - 1 : r[i] = Contents[i]
        /\ r[last] = value[b]
    <3> HIDE DEF Contents
    <3>1. value[b] \in Values \cup {Nothing} /\ Len(Contents) + 1 = last
      BY <1>7, <1>20, <2>2
    <3> QED  BY <2>2, <3>1, AppendProperties
  <2>4. ASSUME NEW i \in 1 .. last PROVE Contents'[i] = r[i]
    <3>1. CASE i = last
      BY <1>1, <1>9, <2>1, <2>3, <3>1
    <3>2. CASE i # last
      <4>1. i \in 1 .. last - 1 /\ i + 1 \in 1 .. last
        BY <1>7, <3>2
      <4> QED  BY <1>1, <1>9, <2>1, <2>2, <2>3, <4>1
    <3> QED  BY <3>1, <3>2
  <2>5. r = [i \in 1 .. last |-> r[i]]
    <3> HIDE DEF r
    <3> QED  BY <2>3
  <2>6. Contents' = [i \in 1 .. last |-> Contents'[i]]
    <3> HIDE DEF Contents
    <3> QED  BY <2>1
  <2> HIDE DEF r, Contents
  <2>7. Contents' = r
    BY <2>4, <2>5, <2>6
  <2> QED  BY <2>7 DEF r
<1>25. Len(Contents) < Cardinality(Addr)
  <2> DEFINE s == List
  <2>1. s \in Seq(Addr) /\ \A i, j \in 1 .. Len(s) : s[i] = s[j] => i = j
    BY <1>2, ListFacts
  <2> HIDE DEF s
  <2>2. Len(s) <= Cardinality(Addr)
    BY <2>1, Given, ChainIsShort
  <2>3. Cardinality(Addr) \in Nat
    BY Given, FS_CardinalityType
  <2> QED  BY <1>2, <1>7, <2>2, <2>3, ContentsFacts DEF s, last, ContentsAre
<1> QED  BY <1>1, <1>20, <1>23, <1>24, <1>25 DEF b

LEMMA FiniteValues ==
  /\ IsFiniteSet(Items) /\ IsFiniteSet(Stops) /\ IsFiniteSet(Values)
  /\ Cardinality(Stops) = Cardinality(Consumers)
<1>1. IsFiniteSet({main}) /\ Cardinality({main}) = 1
  BY FS_Singleton
<1>2. IsFiniteSet(1 .. kOps)
  <2>1. 1 \in Int /\ kOps \in Int
    BY Given
  <2> QED  BY <2>1, FS_Interval
<1>3. IsFiniteSet(Items) /\ IsFiniteSet(Stops)
  BY <1>1, <1>2, Given, FS_Product DEF Items, Stops
<1>4. Cardinality(Stops) = Cardinality(Consumers)
  <2>1. Cardinality(Stops) = 1 * Cardinality(Consumers)
    BY <1>1, Given, FS_Product DEF Stops
  <2>2. Cardinality(Consumers) \in Nat
    BY Given, FS_CardinalityType
  <2> QED  BY <2>1, <2>2
<1>5. IsFiniteSet(Values)
  <2>1. IsFiniteSet(Items \cup Stops)
    BY <1>3, FS_Union
  <2> QED  BY <2>1, Given
<1> QED  BY <1>3, <1>4, <1>5

(* The tail swung, or not, and the return.                                 *)
LEMMA EnqueueSwingKeeps ==
  ASSUME IInv, NEW t \in Threads, EnqueueSwing(t),
         UNCHANGED <<stage, consumed, total, finished>>,
         produced' = IF t = main THEN produced ELSE produced + 1
  PROVE  IInv' /\ List' = List /\ Contents' = Contents /\ taken' = taken
<1> DEFINE v == value[node[t]]
<1>1. /\ pc[t] = "eSwing" /\ pc' = [pc EXCEPT ![t] = "out"]
      /\ head_' = head_ /\ live' = live /\ value' = value /\ next' = next
      /\ at' = [at EXCEPT ![t] = nullptr] /\ tail' = [tail EXCEPT ![t] = nullptr]
      /\ after' = [after EXCEPT ![t] = nullptr] /\ node' = [node EXCEPT ![t] = nullptr]
      /\ val' = [val EXCEPT ![t] = Nothing]
      /\ entered' = entered \cup {v} /\ taken' = taken /\ stage' = stage
      /\ consumed' = consumed /\ total' = total /\ finished' = finished
      /\ (tail_ = at[t] /\ tail_' = node[t]) \/ tail_' = tail_
  BY DEF EnqueueSwing, Return, Let, heapVars
<1>2. TypeOK /\ ListOK /\ TailOK /\ HeapOK /\ NodesOK /\ PointersOK /\ ValuesOK /\ OrderOK /\ FillOK /\ DrainOK
  BY DEF IInv, PointersOK
<1>3. /\ stage \in {"produce", "stop"} /\ t \in Enqueuing /\ t \notin Adding
      /\ at[t] \in Addr /\ node[t] = next[at[t]] /\ node[t] \in live \ {head_} /\ node[t] # nullptr
      /\ v \notin entered /\ v \in Held /\ v \in Values
  <2>1. stage \in {"produce", "stop"} /\ t \in Enqueuing /\ t \notin Adding /\ at[t] \in Addr
    BY <1>1, InEnqueueFacts DEF EnqueuePcs, Adding
  <2>2. node[t] = next[at[t]]
    BY <1>1, <1>2 DEF PointersOK, EnqueuerOK
  <2>3. node[t] \in live \ {head_} /\ node[t] # nullptr
    BY <1>2, <2>1, Given, TypesOf DEF NodesOK
  <2> QED  BY <1>2, <2>1, <2>2, <2>3 DEF FillOK, Held, ValuesOK
<1> HIDE DEF v
<1>4. TailOK' /\ Before(tail_, tail_')
  BY <1>1, <1>3, TailKept, TailForward
<1>5. /\ pc' \in [Threads -> PcValues] /\ pc'[t] = "out"
      /\ at' \in [Threads -> Pointers] /\ tail' \in [Threads -> Pointers]
      /\ after' \in [Threads -> Pointers] /\ node' \in [Threads -> Pointers]
      /\ val' \in [Threads -> Values \cup {Nothing}]
      /\ \A u \in Threads \ {t} : /\ pc'[u] = pc[u] /\ at'[u] = at[u] /\ after'[u] = after[u]
                                  /\ node'[u] = node[u]
  BY <1>1, <1>2, TypesOf DEF PcValues, Pointers
<1>6. List' = List /\ Nodes' = Nodes /\ ListOK' /\ Linked' = Linked /\ Contents' = Contents
  <2>1. List' = List /\ Nodes' = Nodes /\ ListOK' /\ Linked' = Linked
    BY <1>1, <1>2, TypesOf, ListKept
  <2> QED  BY <1>1, <2>1, ContentsKept
<1>7. TypeOK'
  <2>1. tail_' \in Addr
    BY <1>2, <1>4, ListFacts DEF Before
  <2> QED  BY <1>1, <1>2, <1>3, <1>5, <2>1 DEF TypeOK, Pointers, PcValues
<1>8. Enqueuing' = Enqueuing \ {t} /\ Adding' = Adding /\ Adding \subseteq Enqueuing
  BY <1>1, <1>5 DEF Enqueuing, Adding, EnqueuePcs
<1>9. \A u \in Enqueuing' : node'[u] = node[u] /\ u # t
  BY <1>5, <1>8 DEF Enqueuing
<1>10. HeapOK' /\ NodesOK'
  <2>1. \A u \in Adding : node'[u] = node[u] /\ u \in Enqueuing'
    BY <1>3, <1>8, <1>9
  <2>2. HeapOK'
    BY <1>1, <1>2, <1>6, <1>8, <2>1 DEF HeapOK
  <2>3. NodesOK'
    BY <1>1, <1>2, <1>6, <1>8, <1>9, <2>1 DEF NodesOK
  <2> QED  BY <2>2, <2>3
<1>11. ASSUME NEW u \in Threads PROVE PcOK(u)' /\ EnqueuerOK(u)' /\ DequeuerOK(u)'
  <2>0. PcOK(u) /\ EnqueuerOK(u)
    BY <1>2 DEF PointersOK
  <2>1. pc'[u] \in EnqueuePcs \cup {"out"}
    BY <1>3, <1>5, FillingPcs
  <2>2. DequeuerOK(u)'
    BY <2>1 DEF DequeuerOK, EnqueuePcs
  <2>3. CASE u = t
    <3>1. PcOK(u)' /\ EnqueuerOK(u)'
      BY <1>1, <1>3, <1>5, <2>3 DEF PcOK, EnqueuerOK, EnqueuePcs
    <3> QED  BY <2>2, <3>1
  <2>4. CASE u # t
    <3>1. PcOK(u)'
      BY <1>1, <1>5, <2>0, <2>4 DEF PcOK
    <3>2. Before(at[u], tail_) => Before(at[u], tail_)'
      <4> SUFFICES ASSUME Before(at[u], tail_) PROVE Before(at[u], tail_)'
        OBVIOUS
      <4>1. Before(at[u], tail_')
        BY <1>2, <1>4, BeforeTrans
      <4>2. PICK i, j \in 1 .. Len(List) : i <= j /\ List[i] = at[u] /\ List[j] = tail_'
        BY <4>1 DEF Before
      <4> QED  BY <1>5, <1>6, <2>4, <4>2 DEF Before
    <3>3. EnqueuerOK(u)'
      BY <1>1, <1>5, <2>0, <2>4, <3>2 DEF EnqueuerOK
    <3> QED  BY <2>2, <3>1, <3>3
  <2> QED  BY <2>3, <2>4
<1>12. PointersOK'
  BY <1>4, <1>6, <1>10, <1>11 DEF PointersOK
<1>13. Held' = Held /\ Gone' = Gone
  BY <1>1 DEF Held, Gone
<1>14. ValuesOK' /\ OrderOK'
  BY <1>1, <1>2, <1>6, <1>13 DEF ValuesOK, OrderOK
<1>15. FillOK'
  <2>1. \A u \in Enqueuing' : value[node[u]] # v
    <3>1. \A u \in Enqueuing' : node[u] \in live \ {head_} /\ node[u] # node[t]
      BY <1>2, <1>3, <1>8, <1>9 DEF NodesOK
    <3> QED  BY <1>2, <1>3, <3>1 DEF ValuesOK, v
  <2>2. Held' = entered' \cup {value'[node'[u]] : u \in Enqueuing'}
    <3>1. {value'[node'[u]] : u \in Enqueuing'} \cup {v} = {value[node[u]] : u \in Enqueuing}
      BY <1>1, <1>3, <1>8, <1>9 DEF v
    <3>2. Held = entered \cup {value[node[u]] : u \in Enqueuing}
      BY <1>2, <1>3 DEF FillOK
    <3> QED  BY <1>1, <1>13, <3>1, <3>2
  <2>3. \A u \in Enqueuing' : value'[node'[u]] \notin entered'
    BY <1>1, <1>2, <1>3, <1>8, <1>9, <2>1 DEF FillOK
  <2> QED  BY <1>1, <1>2, <1>3, <1>13, <2>2, <2>3 DEF FillOK
<1>16. produced' = Cardinality(entered' \cap Items)
  <2>1. IsFiniteSet(entered \cap Items)
    BY FiniteValues, FS_Intersection
  <2>2. CASE v \in Items
    <3>1. t # main
      <4>1. t = main => stage = "stop"
        BY <1>1, <1>2, <1>3, Given DEF PointersOK, PcOK
      <4> QED  BY <1>2, <1>3, <2>2, <4>1 DEF FillOK
    <3>2. entered' \cap Items = (entered \cap Items) \cup {v} /\ v \notin entered \cap Items
      BY <1>1, <1>3, <2>2
    <3>3. Cardinality((entered \cap Items) \cup {v}) = Cardinality(entered \cap Items) + 1
      BY <2>1, <3>2, FS_AddElement
    <3> QED  BY <1>2, <3>1, <3>2, <3>3 DEF DrainOK
  <2>3. CASE v \notin Items
    <3>1. stage = "stop"
      BY <1>2, <1>3, <2>3 DEF FillOK
    <3>2. t = main
      BY <1>1, <1>2, <3>1 DEF PointersOK, PcOK
    <3>3. entered' \cap Items = entered \cap Items
      BY <1>1, <2>3
    <3> QED  BY <1>2, <3>2, <3>3 DEF DrainOK
  <2> QED  BY <2>2, <2>3
<1>17. DrainOK'
  BY <1>1, <1>2, <1>3, <1>13, <1>16 DEF DrainOK
<1> QED  BY <1>1, <1>6, <1>7, <1>12, <1>14, <1>15, <1>17 DEF IInv

-----------------------------------------------------------------------------
(* Steps of dequeue.                                                       *)
LEMMA InDequeueFacts ==
  ASSUME IInv, stage \in {"consume", "destroy"}
  PROVE  /\ Enqueuing = {} /\ Adding = {} /\ live = Linked /\ head_ \in live /\ head_ \in Addr
         /\ tail_ \in live /\ tail_ \in Linked /\ stage # "end"
<1>1. \A u \in Threads : pc[u] \notin EnqueuePcs
  <2>1. \A u \in Threads : PcOK(u)
    BY DEF IInv, PointersOK
  <2> QED  BY <2>1 DEF PcOK, EnqueuePcs, DequeuePcs
<1>2. Enqueuing = {} /\ Adding = {}
  BY <1>1 DEF Enqueuing, Adding
<1> QED  BY <1>2, LinkedIsLive, ListFacts DEF IInv, PointersOK, HeapOK

LEMMA DequeueStage ==
  ASSUME IInv, NEW t \in Threads, pc[t] \in DequeuePcs \cup {"dEmpty"}
  PROVE  /\ stage \in {"consume", "destroy"}
         /\ stage = "consume" => t \in Consumers \ finished
         /\ stage = "destroy" => t = main
<1>1. PcOK(t) /\ pc[t] \notin EnqueuePcs /\ pc[t] # "out"
  BY DEF IInv, PointersOK, EnqueuePcs, DequeuePcs
<1> QED  BY <1>1 DEF PcOK, IInv

LEMMA SecondNode ==
  ASSUME IInv, stage \in {"consume", "destroy"}
  PROVE  /\ (\E a \in Linked : a # head_) => next[head_] # nullptr
         /\ next[head_] # nullptr => /\ 2 \in 1 .. Len(List) /\ next[head_] = List[2]
                                     /\ List[2] \in live \ {head_} /\ List[2] \in Addr
<1>1. /\ TypeOK /\ ListOK /\ live = Linked
      /\ 1 \in 1 .. Len(List) /\ List[1] = head_ /\ Len(List) \in Nat \ {0}
  BY InDequeueFacts, ListFacts DEF IInv, PointersOK
<1>2. next[head_] = Nth(List, 2, nullptr)
  <2>1. next[List[1]] = Nth(List, 1 + 1, nullptr)
    BY <1>1, ListFacts
  <2> QED  BY <1>1, <2>1
<1>3. ASSUME NEW a \in Linked, a # head_ PROVE 2 \in 1 .. Len(List)
  <2>1. PICK i \in 1 .. Len(List) : List[i] = a
    BY DEF Linked
  <2>2. i # 1
    BY <1>1, <1>3, <2>1
  <2> QED  BY <1>1, <2>1, <2>2
<1>4. \A a \in Addr : a # nullptr
  BY Given
<1>5. 2 \in 1 .. Len(List) => /\ next[head_] = List[2] /\ List[2] \in Linked /\ List[2] # head_
                              /\ List[2] \in Addr /\ next[head_] # nullptr
  BY <1>1, <1>2, <1>4, ListFacts DEF Nth, Linked
<1>6. next[head_] # nullptr => 2 \in 1 .. Len(List)
  BY <1>2 DEF Nth
<1> QED  BY <1>1, <1>3, <1>5, <1>6

LEMMA DequeueMove ==
  ASSUME IInv, NEW t \in Threads,
         UNCHANGED <<head_, heapVars, historyVars, mainVars, node>>,
         TailOK', Before(tail_, tail_'),
         NEW p \in PcValues \ EnqueuePcs, pc' = [pc EXCEPT ![t] = p], pc[t] \notin EnqueuePcs,
         NEW a \in Pointers, at' = [at EXCEPT ![t] = a],
         NEW l \in Pointers, tail' = [tail EXCEPT ![t] = l],
         NEW f \in Pointers, after' = [after EXCEPT ![t] = f],
         NEW d \in Values \cup {Nothing}, val' = [val EXCEPT ![t] = d],
         PcOK(t)', DequeuerOK(t)'
  PROVE  IInv' /\ List' = List /\ Contents' = Contents
<1>1. EnqueuerOK(t)'
  <2>1. pc'[t] = p
    BY TypesOf DEF IInv
  <2> QED  BY <2>1 DEF EnqueuerOK, EnqueuePcs
<1> QED  BY <1>1, MoveStep

LEMMA PcStays ==
  ASSUME IInv, NEW t \in Threads, pc[t] \in DequeuePcs, pc'[t] \in DequeuePcs \cup {"out"},
         stage' = stage, finished' = finished
  PROVE  PcOK(t)'
<1>1. /\ stage' \in {"consume", "destroy"}
      /\ stage' = "consume" => t \in Consumers \ finished'
      /\ stage' = "destroy" => t = main
  BY DequeueStage
<1> HIDE DEF DequeuePcs
<1> QED  BY <1>1 DEF PcOK

LEMMA DequeueLoadHeadKeeps ==
  ASSUME IInv, NEW t \in Threads, DequeueLoadHead(t), UNCHANGED mainVars,
         stage \in {"consume", "destroy"},
         stage = "consume" => t \in Consumers \ finished, stage = "destroy" => t = main
  PROVE  IInv' /\ List' = List /\ Contents' = Contents
<1>1. /\ pc[t] \in {"out", "dHead"} /\ pc' = [pc EXCEPT ![t] = "dTail"] /\ at' = [at EXCEPT ![t] = head_]
      /\ tail' = [tail EXCEPT ![t] = tail[t]] /\ after' = [after EXCEPT ![t] = after[t]]
      /\ val' = [val EXCEPT ![t] = val[t]]
      /\ UNCHANGED <<head_, tail_, heapVars, historyVars, mainVars, node>>
  BY TypesOf DEF DequeueLoadHead, Let, IInv
<1>2. /\ head_ \in Pointers /\ tail[t] \in Pointers /\ after[t] \in Pointers
      /\ val[t] \in Values \cup {Nothing} /\ TailOK' /\ Before(tail_, tail_')
  BY <1>1, TypesOf, TailKept DEF IInv, heapVars
<1>3. pc'[t] = "dTail" /\ at'[t] = head_
  BY <1>1, TypesOf DEF IInv
<1>4. PcOK(t)'
  <2>1. stage' = stage /\ finished' = finished /\ pc'[t] \in DequeuePcs
    BY <1>1, <1>3 DEF DequeuePcs, mainVars
  <2> HIDE DEF DequeuePcs
  <2> QED  BY <2>1 DEF PcOK
<1>5. DequeuerOK(t)'
  BY <1>1, <1>3 DEF DequeuerOK
<1> QED  BY <1>1, <1>2, <1>4, <1>5, DequeueMove DEF PcValues, EnqueuePcs

LEMMA DequeueLoadTailKeeps ==
  ASSUME IInv, NEW t \in Threads, DequeueLoadTail(t), UNCHANGED mainVars
  PROVE  IInv' /\ List' = List /\ Contents' = Contents
<1>1. /\ pc[t] = "dTail" /\ pc' = [pc EXCEPT ![t] = "dNext"] /\ at' = [at EXCEPT ![t] = at[t]]
      /\ tail' = [tail EXCEPT ![t] = tail_] /\ after' = [after EXCEPT ![t] = after[t]]
      /\ val' = [val EXCEPT ![t] = val[t]]
      /\ UNCHANGED <<head_, tail_, heapVars, historyVars, mainVars, node>>
  BY TypesOf DEF DequeueLoadTail, Goto, Let, IInv
<1>2. /\ at[t] \in Pointers /\ tail_ \in Pointers /\ after[t] \in Pointers
      /\ val[t] \in Values \cup {Nothing} /\ TailOK' /\ Before(tail_, tail_')
  BY <1>1, TypesOf, TailKept DEF IInv, heapVars
<1>3. pc'[t] = "dNext" /\ at'[t] = at[t] /\ tail'[t] = tail_
  BY <1>1, TypesOf DEF IInv
<1>4. PcOK(t)'
  BY <1>1, <1>3, PcStays DEF DequeuePcs, mainVars
<1>5. DequeuerOK(t)'
  <2>1. List' = List
    BY <1>1, TypesOf, ListKept DEF IInv, PointersOK, heapVars
  <2>2. DequeuerOK(t)
    BY DEF IInv, PointersOK
  <2> QED  BY <1>1, <1>2, <1>3, <2>1, <2>2 DEF DequeuerOK, Before, heapVars
<1> QED  BY <1>1, <1>2, <1>4, <1>5, DequeueMove DEF PcValues, EnqueuePcs

LEMMA DequeueLoadNextKeeps ==
  ASSUME IInv, NEW t \in Threads, DequeueLoadNext(t), UNCHANGED mainVars
  PROVE  IInv' /\ List' = List /\ Contents' = Contents
<1>1. pc[t] = "dNext" /\ stage \in {"consume", "destroy"}
  BY DequeueStage DEF DequeueLoadNext, Goto, DequeuePcs
<1>2. PICK f \in NextOf(at[t]) : after' = [after EXCEPT ![t] = f]
  BY DEF DequeueLoadNext, Let
<1>3. f \in Pointers /\ (at[t] = head_ => f = next[head_])
  BY <1>1, <1>2, InDequeueFacts, TypesOf DEF NextOf, Pointers, IInv
<1>4. /\ pc' = [pc EXCEPT ![t] = "dCheck"] /\ at' = [at EXCEPT ![t] = at[t]]
      /\ tail' = [tail EXCEPT ![t] = tail[t]] /\ val' = [val EXCEPT ![t] = val[t]]
      /\ UNCHANGED <<head_, tail_, heapVars, historyVars, mainVars, node>>
  BY TypesOf DEF DequeueLoadNext, Goto, IInv
<1>5. /\ at[t] \in Pointers /\ tail[t] \in Pointers
      /\ val[t] \in Values \cup {Nothing} /\ TailOK' /\ Before(tail_, tail_')
  BY <1>4, TypesOf, TailKept DEF IInv, heapVars
<1>6. pc'[t] = "dCheck" /\ at'[t] = at[t] /\ tail'[t] = tail[t] /\ after'[t] = f
  BY <1>2, <1>4, TypesOf DEF IInv
<1>7. PcOK(t)'
  BY <1>1, <1>4, <1>6, PcStays DEF DequeuePcs, mainVars
<1>8. DequeuerOK(t)'
  <2>1. List' = List
    BY <1>4, TypesOf, ListKept DEF IInv, PointersOK, heapVars
  <2>2. DequeuerOK(t)
    BY DEF IInv, PointersOK
  <2> QED  BY <1>1, <1>3, <1>4, <1>6, <2>1, <2>2 DEF DequeuerOK, Before, heapVars
<1> QED  BY <1>1, <1>2, <1>3, <1>4, <1>5, <1>7, <1>8, DequeueMove DEF PcValues, EnqueuePcs

(* No consumer finds the queue empty: a stop value is still there for it.  *)
LEMMA StopIsLeft ==
  ASSUME IInv, stage = "consume", NEW c \in Consumers \ finished
  PROVE  next[head_] # nullptr
<1>1. /\ finished \subseteq Consumers /\ Cardinality(finished) = Cardinality(Gone \cap Stops)
      /\ Held \cup Gone = Values
  BY DEF IInv, DrainOK
<1>2. PICK v \in Stops : v \notin Gone
  <2> SUFFICES ASSUME Stops \subseteq Gone PROVE FALSE
    OBVIOUS
  <2>1. Gone \cap Stops = Stops
    OBVIOUS
  <2>2. Cardinality(finished) = Cardinality(Consumers)
    BY <1>1, <2>1, FiniteValues
  <2>3. finished = Consumers
    BY <1>1, <2>2, Given, FS_Subset
  <2> QED  BY <2>3
<1>3. v \in Held
  BY <1>1, <1>2, Given
<1>4. \E a \in Linked : a # head_
  BY <1>3, InDequeueFacts DEF Held
<1> QED  BY <1>4, SecondNode

LEMMA DequeueCheckKeeps ==
  ASSUME IInv, NEW t \in Threads, DequeueCheck(t), UNCHANGED mainVars
  PROVE  IInv' /\ List' = List /\ Contents' = Contents
<1> DEFINE p == IF at[t] # head_ THEN "dHead" ELSE IF ~ TailBehind(t) THEN "dValue"
                ELSE IF after[t] = nullptr THEN "dEmpty" ELSE "dHelp"
<1>1. /\ pc[t] = "dCheck" /\ stage \in {"consume", "destroy"}
      /\ stage = "consume" => t \in Consumers \ finished
      /\ stage = "destroy" => t = main
  BY DequeueStage DEF DequeueCheck, Goto, DequeuePcs
<1>2. /\ pc' = [pc EXCEPT ![t] = p] /\ at' = [at EXCEPT ![t] = at[t]]
      /\ tail' = [tail EXCEPT ![t] = tail[t]] /\ after' = [after EXCEPT ![t] = after[t]]
      /\ val' = [val EXCEPT ![t] = val[t]]
      /\ UNCHANGED <<head_, tail_, heapVars, historyVars, mainVars, node>>
  BY TypesOf DEF DequeueCheck, Goto, IInv, localVars
<1>3. /\ at[t] \in Pointers /\ tail[t] \in Pointers /\ after[t] \in Pointers
      /\ val[t] \in Values \cup {Nothing} /\ TailOK' /\ Before(tail_, tail_')
  BY <1>2, TypesOf, TailKept DEF IInv, heapVars
<1>4. pc'[t] = p /\ at'[t] = at[t] /\ tail'[t] = tail[t] /\ after'[t] = after[t]
  BY <1>2, TypesOf DEF IInv
<1>5. DequeuerOK(t) /\ (at[t] = head_ => after[t] = next[head_])
  BY <1>1 DEF IInv, PointersOK, DequeuerOK
<1>6. PcOK(t)'
  <2>1. stage = "consume" => p \in DequeuePcs
    BY <1>1, <1>5, StopIsLeft DEF DequeuePcs
  <2>2. p \in DequeuePcs \cup {"dEmpty"}
    BY DEF DequeuePcs
  <2>3. stage' = stage /\ finished' = finished
    BY <1>2 DEF mainVars
  <2> HIDE DEF p, DequeuePcs
  <2> QED  BY <1>1, <1>4, <2>1, <2>2, <2>3 DEF PcOK
<1>7. DequeuerOK(t)'
  <2>1. List' = List
    BY <1>2, TypesOf, ListKept DEF IInv, PointersOK, heapVars
  <2> QED  BY <1>1, <1>2, <1>4, <1>5, <2>1 DEF DequeuerOK, Before, heapVars, TailBehind
<1>8. p \in PcValues \ EnqueuePcs /\ pc[t] \notin EnqueuePcs
  BY <1>1 DEF PcValues, EnqueuePcs
<1> HIDE DEF p
<1> QED  BY <1>2, <1>3, <1>6, <1>7, <1>8, DequeueMove

LEMMA DequeueHelpKeeps ==
  ASSUME IInv, NEW t \in Threads, DequeueHelp(t), UNCHANGED mainVars
  PROVE  IInv' /\ List' = List /\ Contents' = Contents
<1>1. pc[t] = "dHelp" /\ stage \in {"consume", "destroy"} /\ DequeuerOK(t)
  BY DequeueStage DEF DequeueHelp, SwingTail, Goto, DequeuePcs, IInv, PointersOK
<1>2. /\ pc' = [pc EXCEPT ![t] = "dHead"] /\ at' = [at EXCEPT ![t] = at[t]]
      /\ tail' = [tail EXCEPT ![t] = tail[t]] /\ after' = [after EXCEPT ![t] = after[t]]
      /\ val' = [val EXCEPT ![t] = val[t]]
      /\ UNCHANGED <<head_, heapVars, historyVars, mainVars, node, next>>
      /\ (tail_ = tail[t] /\ tail_' = after[t]) \/ tail_' = tail_
  BY TypesOf DEF DequeueHelp, SwingTail, Goto, IInv, localVars, heapVars
<1>3. TailOK' /\ Before(tail_, tail_')
  <2>1. tail_ = tail[t] => at[t] = head_ /\ at[t] = tail[t] /\ after[t] = next[tail_] /\ after[t] # nullptr
    BY <1>1, InDequeueFacts DEF DequeuerOK
  <2> QED  BY <1>2, <2>1, TailKept, TailForward
<1>4. /\ at[t] \in Pointers /\ tail[t] \in Pointers /\ after[t] \in Pointers
      /\ val[t] \in Values \cup {Nothing} /\ pc'[t] = "dHead"
  BY <1>2, TypesOf DEF IInv
<1>5. PcOK(t)'
  BY <1>1, <1>2, <1>4, PcStays DEF DequeuePcs, mainVars
<1>6. DequeuerOK(t)'
  BY <1>4 DEF DequeuerOK
<1> QED  BY <1>1, <1>2, <1>3, <1>4, <1>5, <1>6, DequeueMove DEF PcValues, EnqueuePcs

LEMMA DequeueReadValueKeeps ==
  ASSUME IInv, NEW t \in Threads, DequeueReadValue(t), UNCHANGED mainVars
  PROVE  IInv' /\ List' = List /\ Contents' = Contents
<1>1. pc[t] = "dValue" /\ stage \in {"consume", "destroy"} /\ DequeuerOK(t)
  BY DequeueStage DEF DequeueReadValue, Goto, DequeuePcs, IInv, PointersOK
<1>2. PICK d \in ValueOf(after[t]) : val' = [val EXCEPT ![t] = d]
  BY DEF DequeueReadValue, Let
<1>3. at[t] = head_ => after[t] \in live
  <2> SUFFICES ASSUME at[t] = head_ PROVE after[t] \in live
    OBVIOUS
  <2>1. Before(tail[t], tail_) /\ tail[t] # head_ /\ after[t] = next[head_]
    BY <1>1 DEF DequeuerOK
  <2>2. tail[t] \in Linked
    BY <2>1 DEF Before, Linked
  <2> QED  BY <1>1, <2>1, <2>2, SecondNode
<1>4. d \in Values \cup {Nothing} /\ (at[t] = head_ => d = value[after[t]])
  BY <1>2, <1>3, TypesOf DEF ValueOf, IInv
<1>5. /\ pc' = [pc EXCEPT ![t] = "dSwap"] /\ at' = [at EXCEPT ![t] = at[t]]
      /\ tail' = [tail EXCEPT ![t] = tail[t]] /\ after' = [after EXCEPT ![t] = after[t]]
      /\ UNCHANGED <<head_, tail_, heapVars, historyVars, mainVars, node>>
  BY TypesOf DEF DequeueReadValue, Goto, IInv
<1>6. /\ at[t] \in Pointers /\ tail[t] \in Pointers /\ after[t] \in Pointers
      /\ TailOK' /\ Before(tail_, tail_')
  BY <1>5, TypesOf, TailKept DEF IInv, heapVars
<1>7. /\ pc'[t] = "dSwap" /\ at'[t] = at[t] /\ tail'[t] = tail[t] /\ after'[t] = after[t]
      /\ val'[t] = d
  BY <1>2, <1>5, TypesOf DEF IInv
<1>8. PcOK(t)'
  BY <1>1, <1>5, <1>7, PcStays DEF DequeuePcs, mainVars
<1>9. DequeuerOK(t)'
  <2>1. List' = List
    BY <1>5, TypesOf, ListKept DEF IInv, PointersOK, heapVars
  <2> QED  BY <1>1, <1>4, <1>5, <1>7, <2>1 DEF DequeuerOK, Before, heapVars
<1> QED  BY <1>1, <1>2, <1>4, <1>5, <1>6, <1>8, <1>9, DequeueMove DEF PcValues, EnqueuePcs

(* An exchange that fails.                                                 *)
LEMMA DequeueRetryKeeps ==
  ASSUME IInv, NEW t \in Threads, Goto(t, "dSwap", "dHead"),
         UNCHANGED <<head_, tail_, heapVars, localVars, historyVars, mainVars>>
  PROVE  IInv' /\ List' = List /\ Contents' = Contents
<1>1. /\ pc[t] = "dSwap" /\ pc' = [pc EXCEPT ![t] = "dHead"] /\ at' = [at EXCEPT ![t] = at[t]]
      /\ tail' = [tail EXCEPT ![t] = tail[t]] /\ after' = [after EXCEPT ![t] = after[t]]
      /\ val' = [val EXCEPT ![t] = val[t]]
      /\ UNCHANGED <<head_, tail_, heapVars, historyVars, mainVars, node>>
  BY TypesOf DEF Goto, IInv, localVars
<1>2. /\ at[t] \in Pointers /\ tail[t] \in Pointers /\ after[t] \in Pointers
      /\ val[t] \in Values \cup {Nothing} /\ TailOK' /\ Before(tail_, tail_') /\ pc'[t] = "dHead"
  BY <1>1, TypesOf, TailKept DEF IInv, heapVars
<1>3. PcOK(t)'
  BY <1>1, <1>2, PcStays DEF DequeuePcs, mainVars
<1>4. DequeuerOK(t)'
  BY <1>2 DEF DequeuerOK
<1> QED  BY <1>1, <1>2, <1>3, <1>4, DequeueMove DEF PcValues, EnqueuePcs

(* What the exchange that succeeds finds: the head it has read is still    *)
(* the head, and the value it has read is the one at the front.            *)
LEMMA SwapFinds ==
  ASSUME IInv, NEW t \in Threads, pc[t] = "dSwap", head_ = at[t]
  PROVE  /\ stage = "consume" /\ t \in Consumers \ finished
         /\ 2 \in 1 .. Len(List) /\ after[t] = List[2] /\ after[t] = next[head_]
         /\ List[2] \in live \ {head_} /\ List[2] \in Addr /\ val[t] = value[List[2]]
         /\ value[List[2]] \in Held /\ tail_ # head_
<1>1. /\ stage \in {"consume", "destroy"} /\ DequeuerOK(t)
      /\ stage = "consume" => t \in Consumers \ finished
      /\ TypeOK /\ ListOK
  BY DequeueStage DEF DequeuePcs, IInv, PointersOK
<1>2. /\ Before(tail[t], tail_) /\ tail[t] # head_ /\ after[t] = next[head_] /\ val[t] = value[after[t]]
  BY <1>1 DEF DequeuerOK
<1>3. tail[t] \in Linked
  BY <1>2 DEF Before, Linked
<1>4. /\ 2 \in 1 .. Len(List) /\ after[t] = List[2] /\ List[2] \in live \ {head_} /\ List[2] \in Addr
  BY <1>1, <1>2, <1>3, SecondNode
<1>5. value[List[2]] \in Held
  BY <1>4 DEF Held
<1>6. stage # "destroy"
  BY <1>5 DEF IInv, DrainOK, ValuesOK
<1>7. tail_ # head_
  <2>1. PICK i, j \in 1 .. Len(List) : i <= j /\ List[i] = tail[t] /\ List[j] = tail_
    BY <1>2 DEF Before
  <2>2. i # 1 /\ 1 \in 1 .. Len(List) /\ Len(List) \in Nat
    BY <1>1, <1>2, <2>1, ListFacts
  <2>3. j # 1
    BY <2>1, <2>2
  <2> QED  BY <1>1, <2>1, <2>2, <2>3, ListFacts
<1> QED  BY <1>1, <1>2, <1>4, <1>5, <1>6, <1>7

LEMMA DequeueSwapKeeps ==
  ASSUME IInv, NEW t \in Threads, pc[t] = "dSwap", head_ = at[t], head_' = after[t],
         Delete(at[t]), taken' = Append(taken, val[t]), Return(t),
         UNCHANGED <<tail_, entered, stage, produced>>,
         IF val[t] \in Stops
           THEN finished' = finished \cup {t} /\ UNCHANGED <<consumed, total>>
           ELSE consumed' = consumed + 1 /\ total' = total + 1 /\ UNCHANGED finished
  PROVE  /\ IInv' /\ Contents # <<>> /\ Contents' = Tail(Contents)
         /\ taken' = Append(taken, Head(Contents))
<1> DEFINE h == head_  b == List[2]  v == value[List[2]]  last == Len(List)
<1>1. /\ pc' = [pc EXCEPT ![t] = "out"] /\ val' = [val EXCEPT ![t] = Nothing]
      /\ at' = [at EXCEPT ![t] = nullptr] /\ tail' = [tail EXCEPT ![t] = nullptr]
      /\ after' = [after EXCEPT ![t] = nullptr] /\ node' = [node EXCEPT ![t] = nullptr]
      /\ live' = live \ {h} /\ value' = [value EXCEPT ![h] = Nothing]
      /\ next' = [next EXCEPT ![h] = nullptr]
      /\ tail_' = tail_ /\ entered' = entered /\ stage' = stage /\ produced' = produced
  BY DEF Return, Delete, Let
<1>2. /\ TypeOK /\ ListOK /\ TailOK /\ HeapOK /\ NodesOK /\ PointersOK /\ ValuesOK /\ OrderOK /\ DrainOK
  BY DEF IInv, PointersOK
<1>3. /\ stage = "consume" /\ t \in Consumers \ finished /\ head_' = b /\ b = next[h]
      /\ b \in live \ {h} /\ b \in Addr /\ taken' = Append(taken, v) /\ v \in Held
      /\ v \in Values /\ v \notin Gone /\ val[t] = v /\ tail_ # h
  BY <1>2, SwapFinds DEF ValuesOK
<1>4. /\ live = Linked /\ Enqueuing = {} /\ Adding = {} /\ h \in live /\ h \in Addr
      /\ last \in Nat /\ 2 \in 1 .. last /\ List[1] = h
  BY <1>2, <1>3, InDequeueFacts, SwapFinds, ListFacts
<1>5. /\ next' \in [Addr -> Pointers] /\ value' \in [Addr -> Values \cup {Nothing}]
      /\ \A a \in Addr \ {h} : next'[a] = next[a] /\ value'[a] = value[a]
      /\ pc' \in [Threads -> PcValues] /\ pc'[t] = "out"
      /\ at' \in [Threads -> Pointers] /\ tail' \in [Threads -> Pointers]
      /\ after' \in [Threads -> Pointers] /\ node' \in [Threads -> Pointers]
      /\ val' \in [Threads -> Values \cup {Nothing}]
      /\ \A u \in Threads \ {t} : /\ pc'[u] = pc[u] /\ at'[u] = at[u] /\ after'[u] = after[u]
                                  /\ tail'[u] = tail[u] /\ val'[u] = val[u]
  BY <1>1, <1>2, TypesOf DEF Pointers, PcValues
<1>6. /\ List' = Tail(List) /\ ListOK'
      /\ Len(List') = last - 1 /\ \A i \in 1 .. last - 1 : List'[i] = List[i + 1]
  <2> DEFINE s == List  r == Tail(List)
  <2>1. IsChain(Addr, nullptr, next, h, s) /\ s # <<>>
    BY <1>2, <1>4, EmptySeq DEF ListOK
  <2>2. \A i, j \in 1 .. Len(s) : s[i] = s[j] => i = j
    BY <1>2, ListFacts
  <2> HIDE DEF s
  <2>3. /\ IsChain(Addr, nullptr, next, next[h], Tail(s)) /\ Len(Tail(s)) = Len(s) - 1
        /\ \A i \in 1 .. Len(s) - 1 : Tail(s)[i] = s[i + 1]
    BY <2>1, ChainPopped
  <2>4. /\ IsChain(Addr, nullptr, next, b, r) /\ Len(r) = last - 1
        /\ \A i \in 1 .. last - 1 : r[i] = List[i + 1]
    BY <1>3, <2>3 DEF s
  <2> HIDE DEF r, b, h
  <2>5. \A i \in 1 .. Len(r) : next'[r[i]] = next[r[i]]
    <3>1. \A i \in 1 .. last - 1 : i + 1 \in 1 .. last /\ i + 1 # 1 /\ List[i + 1] \in Addr
      BY <1>2, <1>4, ListFacts
    <3>2. \A i \in 1 .. last - 1 : List[i + 1] # h
      BY <1>4, <2>2, <3>1 DEF s
    <3>3. ASSUME NEW i \in 1 .. last - 1 PROVE next'[r[i]] = next[r[i]]
      <4>1. r[i] = List[i + 1]
        BY <2>4
      <4>2. r[i] \in Addr \ {h}
        BY <3>1, <3>2, <4>1
      <4> HIDE DEF last
      <4> QED  BY <1>5, <4>2
    <3>4. 1 .. Len(r) = 1 .. last - 1
      BY <2>4
    <3> QED  BY <3>3, <3>4
  <2>6. IsChain(Addr, nullptr, next', b, r)
    BY <2>4, <2>5, ChainKept
  <2>7. head_' \in Addr /\ IsChain(Addr, nullptr, next', head_', r)
    BY <1>3, <2>6
  <2>8. List' = r /\ ListOK'
    BY <1>5, <2>7, NewListIs
  <2> QED  BY <2>4, <2>8 DEF r
<1>7. Linked' = Linked \ {h}
  <2>1. \A i, j \in 1 .. last : List[i] = List[j] => i = j
    BY <1>2, ListFacts
  <2>2. \A i \in 1 .. last - 1 : i + 1 \in 1 .. last /\ List'[i] = List[i + 1] /\ List[i + 1] # h
    <3>1. \A i \in 1 .. last - 1 : i + 1 \in 1 .. last /\ i + 1 # 1
      BY <1>4
    <3> QED  BY <1>4, <1>6, <2>1, <3>1
  <2>3. \A i \in 1 .. last : i # 1 => i - 1 \in 1 .. last - 1 /\ List'[i - 1] = List[i]
    <3>1. \A i \in 1 .. last : i # 1 => i - 1 \in 1 .. last - 1 /\ (i - 1) + 1 = i
      BY <1>4
    <3> QED  BY <1>6, <3>1
  <2>4. Linked' = {List'[i] : i \in 1 .. last - 1}
    BY <1>6 DEF Linked
  <2>5. Linked = {List[i] : i \in 1 .. last}
    BY DEF Linked
  <2> HIDE DEF last, h
  <2>6. Linked' \subseteq Linked \ {h}
    BY <2>2, <2>4, <2>5
  <2>7. Linked \ {h} \subseteq Linked'
    BY <1>4, <2>3, <2>4, <2>5
  <2> QED  BY <2>6, <2>7
<1>8. \A i \in 2 .. last : List[i] \in Addr \ {h} /\ value'[List[i]] = value[List[i]]
                          /\ i - 1 \in 1 .. last - 1 /\ List'[i - 1] = List[i]
  <2>1. \A i \in 2 .. last : i \in 1 .. last /\ i # 1 /\ 1 \in 1 .. last /\ i - 1 \in 1 .. last - 1 /\ (i - 1) + 1 = i
    BY <1>4
  <2>2. \A i, j \in 1 .. last : List[i] = List[j] => i = j
    BY <1>2, ListFacts
  <2>3. \A i \in 2 .. last : List[i] \in Addr \ {h}
    BY <1>2, <1>4, <2>1, <2>2, ListFacts
  <2> QED  BY <1>5, <1>6, <2>1, <2>3
<1> HIDE DEF h, b, v, last
<1>9. TypeOK'
  <2>1. v \in Values \cup {Nothing} /\ taken \in Seq(Values \cup {Nothing})
    BY <1>2, <1>3, TypesOf
  <2>2. taken' \in Seq(Values \cup {Nothing})
    BY <1>3, <2>1, AppendProperties
  <2> QED  BY <1>1, <1>2, <1>3, <1>5, <2>2 DEF TypeOK, Pointers, PcValues
<1>10. TailOK'
  <2>1. PICK n \in 1 .. last : List[n] = tail_ /\ n >= last - 1
    BY <1>2 DEF TailOK, last
  <2>2. n # 1
    BY <1>3, <1>4, <2>1
  <2>3. n - 1 \in 1 .. last - 1 /\ (n - 1) + 1 = n /\ n - 1 >= (last - 1) - 1
    BY <1>4, <2>1, <2>2
  <2> QED  BY <1>1, <1>6, <2>1, <2>3 DEF TailOK
<1>11. Enqueuing' = {} /\ Adding' = {}
  BY <1>4, <1>5 DEF Enqueuing, Adding, EnqueuePcs
<1>12. HeapOK' /\ NodesOK'
  BY <1>1, <1>3, <1>4, <1>7, <1>11 DEF HeapOK, NodesOK
<1>13. ASSUME NEW x, x # h, Before(x, tail_) PROVE Before(x, tail_)'
  <2>1. PICK i, j \in 1 .. last : i <= j /\ List[i] = x /\ List[j] = tail_
    BY <1>13 DEF Before, last
  <2>2. i # 1 /\ j # 1
    BY <1>3, <1>4, <1>13, <2>1
  <2>3. i - 1 \in 1 .. last - 1 /\ j - 1 \in 1 .. last - 1 /\ i - 1 <= j - 1 /\ i \in 2 .. last /\ j \in 2 .. last
    BY <1>4, <2>1, <2>2
  <2>4. List'[i - 1] = x /\ List'[j - 1] = tail_'
    BY <1>1, <1>8, <2>1, <2>3
  <2> QED  BY <1>6, <2>3, <2>4 DEF Before
<1>14. ASSUME NEW u \in Threads PROVE PcOK(u)' /\ EnqueuerOK(u)' /\ DequeuerOK(u)'
  <2>0. PcOK(u) /\ DequeuerOK(u)
    BY <1>2 DEF PointersOK
  <2>1. CASE u = t
    <3>1. PcOK(u)'
      BY <1>1, <1>3, <1>5, <2>1 DEF PcOK
    <3> QED  BY <1>5, <2>1, <3>1 DEF EnqueuerOK, DequeuerOK, EnqueuePcs
  <2>2. CASE u # t
    <3>1. stage' = "consume" /\ pc'[u] = pc[u] /\ u \in Consumers \ finished <=> u \in Consumers \ finished'
      BY <1>1, <1>3, <1>5, <2>2
    <3>2. PcOK(u)'
      <4>1. pc[u] \in (IF u \in Consumers \ finished THEN DequeuePcs ELSE {}) \cup {"out"}
        BY <1>3, <2>0 DEF PcOK
      <4>2. u \in Consumers \ finished <=> u \in Consumers \ finished'
        BY <2>2
      <4>3. stage' = "consume" /\ pc'[u] = pc[u]
        BY <1>1, <1>3, <1>5, <2>2
      <4> HIDE DEF DequeuePcs
      <4> QED  BY <4>1, <4>2, <4>3 DEF PcOK
    <3>3. pc[u] \notin EnqueuePcs
      BY <1>4 DEF Enqueuing
    <3>4. EnqueuerOK(u)'
      BY <1>5, <2>2, <3>3 DEF EnqueuerOK, EnqueuePcs
    <3>5. pc[u] \in {"dTail", "dNext", "dCheck", "dHelp", "dEmpty", "dValue", "dSwap"} =>
            at[u] \notin live' /\ at[u] # head_'
      BY <1>1, <1>3, <2>0 DEF DequeuerOK, h
    <3>6. DequeuerOK(u)'
      BY <1>5, <2>0, <2>2, <3>5 DEF DequeuerOK
    <3> QED  BY <3>2, <3>4, <3>6
  <2> QED  BY <2>1, <2>2
<1>15. PointersOK'
  BY <1>6, <1>10, <1>12, <1>14 DEF PointersOK
<1>16. Held' = Held \ {v} /\ Gone' = Gone \cup {v}
  <2>1. live' \ {head_'} = (live \ {h}) \ {b} /\ b \in live \ {h} /\ live \subseteq Addr
    BY <1>1, <1>2, <1>3, TypesOf
  <2>2. \A a \in live \ {h} : value'[a] = value[a]
    BY <1>5, <2>1
  <2>3. \A a \in live \ {h} : value[a] = v => a = b
    BY <1>2, <1>3 DEF ValuesOK, v, b, h
  <2>4. Held = {value[a] : a \in live \ {h}}
    BY DEF Held, h
  <2>5. Held' = {value'[a] : a \in live' \ {head_'}}
    BY DEF Held
  <2>6. Held' = Held \ {v}
    <3>1. Held' \subseteq Held \ {v}
      BY <2>1, <2>2, <2>3, <2>4, <2>5
    <3>2. Held \ {v} \subseteq Held'
      BY <2>1, <2>2, <2>4, <2>5 DEF v, b
    <3> QED  BY <3>1, <3>2
  <2>7. Gone' = Gone \cup {v}
    <3>1. taken \in Seq(Values \cup {Nothing}) /\ v \in Values \cup {Nothing} /\ Len(taken) \in Nat
      BY <1>2, <1>3, TypesOf, LenProperties
    <3>2. /\ taken' \in Seq(Values \cup {Nothing}) /\ Len(taken') = Len(taken) + 1
          /\ \A i \in 1 .. Len(taken) : taken'[i] = taken[i]
          /\ taken'[Len(taken) + 1] = v
      BY <1>3, <3>1, AppendProperties
    <3>3. DOMAIN taken = 1 .. Len(taken) /\ DOMAIN taken' = 1 .. Len(taken) + 1
      BY <3>1, <3>2, LenProperties
    <3>4. \A i \in 1 .. Len(taken) + 1 : i \in 1 .. Len(taken) \/ i = Len(taken) + 1
      BY <3>1
    <3>5. \A i \in 1 .. Len(taken) : i \in 1 .. Len(taken) + 1
      BY <3>1
    <3>6. Len(taken) + 1 \in 1 .. Len(taken) + 1
      BY <3>1
    <3>7. Gone' = {taken'[i] : i \in 1 .. Len(taken) + 1} /\ Gone = {taken[i] : i \in 1 .. Len(taken)}
      BY <3>3 DEF Gone
    <3> QED  BY <3>2, <3>4, <3>5, <3>6, <3>7
  <2> QED  BY <2>6, <2>7
<1>17. ValuesOK'
  <2>1. \A c, d \in live' \ {head_'} : value'[c] = value'[d] => c = d
    <3>1. \A c \in live' \ {head_'} : c \in live \ {h} /\ value'[c] = value[c]
      BY <1>1, <1>2, <1>3, <1>5, TypesOf
    <3> QED  BY <1>2, <3>1 DEF ValuesOK, h
  <2>2. \A m, n \in DOMAIN taken' : taken'[m] = taken'[n] => m = n
    <3>1. taken \in Seq(Values \cup {Nothing}) /\ v \in Values \cup {Nothing} /\ Len(taken) \in Nat
      BY <1>2, <1>3, TypesOf, LenProperties
    <3>2. /\ taken' \in Seq(Values \cup {Nothing}) /\ Len(taken') = Len(taken) + 1
          /\ \A i \in 1 .. Len(taken) : taken'[i] = taken[i]
          /\ taken'[Len(taken) + 1] = v
      BY <1>3, <3>1, AppendProperties
    <3>3. DOMAIN taken = 1 .. Len(taken) /\ DOMAIN taken' = 1 .. Len(taken) + 1
      BY <3>1, <3>2, LenProperties
    <3>4. \A i \in 1 .. Len(taken) : taken[i] \in Gone
      BY <3>3 DEF Gone
    <3>5. \A m, n \in 1 .. Len(taken) : taken[m] = taken[n] => m = n
      BY <1>2, <3>3 DEF ValuesOK
    <3>6. \A i \in 1 .. Len(taken) + 1 : i \in 1 .. Len(taken) \/ i = Len(taken) + 1
      BY <3>1
    <3> QED  BY <1>3, <3>2, <3>3, <3>4, <3>5, <3>6
  <2>3. Held' \subseteq Values /\ Gone' \subseteq Values /\ Held' \cap Gone' = {}
    BY <1>2, <1>3, <1>16 DEF ValuesOK
  <2> QED  BY <2>1, <2>2, <2>3 DEF ValuesOK
<1>18. OrderOK'
  <2>1. \A i, j \in 2 .. last : i <= j /\ value[List[i]] \in Stops => value[List[j]] \in Stops
    BY <1>2 DEF OrderOK, last
  <2>2. Gone' \cap Stops # {} => \A i \in 2 .. last : value[List[i]] \in Stops
    <3>1. Gone \cap Stops # {} => \A i \in 2 .. last : value[List[i]] \in Stops
      BY <1>2 DEF OrderOK, last
    <3>2. v \in Stops => \A i \in 2 .. last : value[List[i]] \in Stops
      <4>1. 2 \in 2 .. last /\ \A i \in 2 .. last : 2 <= i
        BY <1>4
      <4> QED  BY <2>1, <4>1 DEF v
    <3> QED  BY <1>16, <3>1, <3>2
  <2>3. \A i \in 2 .. last - 1 : i + 1 \in 2 .. last /\ value'[List'[i]] = value[List[i + 1]]
    <3>1. \A i \in 2 .. last - 1 : i + 1 \in 2 .. last /\ i \in 1 .. last - 1
      BY <1>4
    <3> QED  BY <1>6, <1>8, <3>1
  <2>4. ASSUME NEW i \in 2 .. last - 1, NEW j \in 2 .. last - 1, i <= j, value'[List'[i]] \in Stops
        PROVE  value'[List'[j]] \in Stops
    <3>1. i + 1 <= j + 1
      BY <1>4, <2>4
    <3> QED  BY <2>1, <2>3, <2>4, <3>1
  <2> QED  BY <1>6, <2>2, <2>3, <2>4 DEF OrderOK
<1>19. DrainOK'
  <2>1. IsFiniteSet(Gone \cap Items) /\ IsFiniteSet(Gone \cap Stops) /\ IsFiniteSet(finished)
    BY <1>2, Given, FiniteValues, FS_Intersection, FS_Subset DEF DrainOK
  <2>2. Held' \cup Gone' = Values
    BY <1>2, <1>3, <1>16 DEF DrainOK
  <2>3. CASE v \in Stops
    <3>1. finished' = finished \cup {t} /\ consumed' = consumed /\ total' = total
      BY <1>3, <2>3
    <3>2. Gone' \cap Items = Gone \cap Items
      BY <1>16, <2>3, ItemsAndStops
    <3>3. Gone' \cap Stops = (Gone \cap Stops) \cup {v} /\ v \notin Gone \cap Stops
      BY <1>3, <1>16, <2>3
    <3>4. Cardinality(Gone' \cap Stops) = Cardinality(Gone \cap Stops) + 1
      BY <2>1, <3>3, FS_AddElement
    <3>5. Cardinality(finished') = Cardinality(finished) + 1 /\ finished' \subseteq Consumers
      BY <1>2, <1>3, <2>1, <3>1, FS_AddElement DEF DrainOK
    <3> QED  BY <1>1, <1>2, <1>3, <2>2, <3>1, <3>2, <3>4, <3>5 DEF DrainOK
  <2>4. CASE v \notin Stops
    <3>1. finished' = finished /\ consumed' = consumed + 1 /\ total' = total + 1
      BY <1>3, <2>4
    <3>2. Gone' \cap Stops = Gone \cap Stops
      BY <1>16, <2>4
    <3>3. Gone' \cap Items = (Gone \cap Items) \cup {v} /\ v \notin Gone \cap Items
      BY <1>3, <1>16, <2>4, Given
    <3>4. Cardinality(Gone' \cap Items) = Cardinality(Gone \cap Items) + 1
      BY <2>1, <3>3, FS_AddElement
    <3> QED  BY <1>1, <1>2, <1>3, <2>2, <3>1, <3>2, <3>4 DEF DrainOK
  <2> QED  BY <2>3, <2>4
<1>20. IInv'
  <2>1. FillOK'
    BY <1>1, <1>3 DEF FillOK
  <2> QED  BY <1>1, <1>3, <1>9, <1>15, <1>17, <1>18, <1>19, <2>1 DEF IInv
<1>21. /\ Contents \in Seq(Values \cup {Nothing}) /\ Len(Contents) = last - 1
       /\ \A i \in 1 .. last - 1 : Contents[i] = value[List[i + 1]]
  BY <1>2, ContentsFacts DEF ContentsAre, last
<1>22. Contents # <<>> /\ Head(Contents) = v
  <2>1. 1 \in 1 .. last - 1 /\ 1 + 1 = 2
    BY <1>4
  <2> HIDE DEF Contents
  <2>2. Contents # <<>> /\ Head(Contents) = Contents[1]
    BY <1>21, <2>1, EmptySeq
  <2> QED  BY <1>21, <2>1, <2>2 DEF v
<1>23. Contents' = Tail(Contents)
  <2>1. /\ Contents' \in Seq(Values \cup {Nothing}) /\ Len(Contents') = last - 1 - 1
        /\ \A i \in 1 .. last - 1 - 1 : Contents'[i] = value'[List'[i + 1]]
    BY <1>6, <1>9, NewContentsFacts DEF ContentsAre
  <2> HIDE DEF Contents
  <2> DEFINE r == Tail(Contents)
  <2>2. /\ r \in Seq(Values \cup {Nothing}) /\ Len(r) = last - 1 - 1
        /\ \A i \in 1 .. last - 1 - 1 : r[i] = Contents[i + 1]
    BY <1>21, <1>22, HeadTailProperties
  <2> HIDE DEF r
  <2>3. ASSUME NEW i \in 1 .. last - 1 - 1 PROVE Contents'[i] = r[i]
    <3>1. i + 1 \in 1 .. last - 1 /\ (i + 1) + 1 \in 2 .. last
      BY <1>4
    <3>2. Contents'[i] = value'[List[(i + 1) + 1]] /\ r[i] = value[List[(i + 1) + 1]]
      BY <1>6, <1>21, <2>1, <2>2, <3>1
    <3> QED  BY <1>8, <3>1, <3>2
  <2>4. r = [i \in 1 .. last - 1 - 1 |-> r[i]] /\ Contents' = [i \in 1 .. last - 1 - 1 |-> Contents'[i]]
    BY <2>1, <2>2
  <2>5. Contents' = r
    BY <2>3, <2>4
  <2> QED  BY <2>5 DEF r
<1> QED  BY <1>3, <1>20, <1>22, <1>23

-----------------------------------------------------------------------------
(* The steps of main from one stage to the next.                           *)
LEMMA StageMove ==
  ASSUME IInv, UNCHANGED <<queueVars, produced, consumed, total, finished>>,
         stage \in {"produce", "stop", "consume"}, stage' \in {"stop", "consume", "destroy"},
         \A u \in Threads : PcOK(u)', FillOK', DrainOK'
  PROVE  IInv' /\ Contents' = Contents /\ taken' = taken
<1>1. /\ head_' = head_ /\ tail_' = tail_ /\ live' = live /\ value' = value /\ next' = next
      /\ pc' = pc /\ at' = at /\ tail' = tail /\ after' = after /\ node' = node /\ val' = val
      /\ entered' = entered /\ taken' = taken
  BY DEF queueVars, heapVars, localVars, historyVars
<1>2. TypeOK /\ ListOK /\ TailOK /\ HeapOK /\ NodesOK /\ PointersOK /\ ValuesOK /\ OrderOK
  BY DEF IInv, PointersOK
<1>3. List' = List /\ Nodes' = Nodes /\ ListOK' /\ Linked' = Linked
  BY <1>1, <1>2, TypesOf, ListKept
<1>4. Contents' = Contents
  BY <1>1, <1>3, ContentsKept
<1>5. TypeOK'
  BY <1>1, <1>2 DEF TypeOK
<1>6. Enqueuing' = Enqueuing /\ Adding' = Adding
  BY <1>1 DEF Enqueuing, Adding
<1>7. TailOK' /\ HeapOK' /\ NodesOK'
  BY <1>1, <1>2, <1>3, <1>6 DEF TailOK, HeapOK, NodesOK
<1>8. ASSUME NEW u \in Threads PROVE EnqueuerOK(u)' /\ DequeuerOK(u)'
  <2>1. EnqueuerOK(u) /\ DequeuerOK(u)
    BY <1>2 DEF PointersOK
  <2>2. \A a, b : Before(a, b)' <=> Before(a, b)
    BY <1>3 DEF Before
  <2>3. \A a : Before(a, tail_)' <=> Before(a, tail_)
    BY <1>1, <1>3 DEF Before
  <2> QED  BY <1>1, <1>3, <2>1 DEF EnqueuerOK, DequeuerOK, Before
<1>9. PointersOK'
  BY <1>3, <1>7, <1>8 DEF PointersOK
<1>10. ValuesOK' /\ OrderOK'
  BY <1>1, <1>2, <1>3 DEF ValuesOK, OrderOK, Held, Gone
<1> QED  BY <1>1, <1>4, <1>5, <1>9, <1>10 DEF IInv

(* While the queue is filled, what a thread has begun to enqueue is in it. *)
LEMMA BegunIs ==
  ASSUME IInv, stage \in {"produce", "stop"}
  PROVE  /\ Values \cap Used = Held /\ entered \subseteq Held /\ Gone = {}
         /\ \A t : Begun(t) = {v \in Held : v[1] = t}
<1>1. /\ taken = <<>> /\ value[head_] = Nothing /\ entered \subseteq Held /\ Held \subseteq Values
      /\ head_ \in live
  BY LinkedIsLive, ListFacts DEF IInv, PointersOK, FillOK, ValuesOK
<1>2. Gone = {}
  BY <1>1 DEF Gone
<1>3. Used = Held \cup {Nothing}
  <2>1. {value[a] : a \in live} = Held \cup {value[head_]}
    BY <1>1 DEF Held
  <2> QED  BY <1>1, <1>2, <2>1 DEF Used, Gone
<1>4. Values \cap Used = Held
  BY <1>1, <1>3, Given
<1> QED  BY <1>1, <1>2, <1>4 DEF Begun

LEMMA BegunCount ==
  ASSUME IInv, stage \in {"produce", "stop"}, NEW p \in Producers
  PROVE  /\ Cardinality(Begun(p)) \in 0 .. kOps
         /\ Begun(p) = {p} \X (1 .. Cardinality(Begun(p)))
<1>1. Begun(p) = {v \in Held : v[1] = p}
  BY BegunIs
<1>2. PICK k \in 0 .. kOps : Begun(p) = {p} \X (1 .. k)
  BY <1>1 DEF IInv, FillOK
<1>3. IsFiniteSet({p}) /\ Cardinality({p}) = 1
  BY FS_Singleton
<1>4. IsFiniteSet(1 .. k) /\ Cardinality(1 .. k) = k
  <2>1. 1 \in Int /\ k \in Int /\ k \in Nat
    BY Given
  <2>2. IsFiniteSet(1 .. k) /\ Cardinality(1 .. k) = IF 1 > k THEN 0 ELSE k - 1 + 1
    BY <2>1, FS_Interval
  <2> QED  BY <2>1, <2>2
<1>5. Cardinality({p} \X (1 .. k)) = 1 * Cardinality(1 .. k)
  BY <1>3, <1>4, FS_Product
<1>6. Cardinality(Begun(p)) = k
  BY <1>2, <1>4, <1>5, Given
<1> QED  BY <1>2, <1>6

LEMMA JoinProducersKeeps ==
  ASSUME IInv, JoinProducers
  PROVE  IInv' /\ Contents' = Contents /\ taken' = taken
<1>1. /\ stage = "produce" /\ stage' = "stop" /\ UNCHANGED <<queueVars, produced, consumed, total, finished>>
      /\ \A p \in Producers : pc[p] = "out" /\ Cardinality(Begun(p)) = kOps
  BY DEF JoinProducers
<1>2. /\ head_' = head_ /\ live' = live /\ value' = value /\ pc' = pc /\ node' = node
      /\ entered' = entered /\ taken' = taken /\ produced' = produced /\ consumed' = consumed
      /\ total' = total /\ finished' = finished
  BY <1>1 DEF queueVars, heapVars, localVars, historyVars
<1>3. \A u \in Threads : pc[u] = "out"
  BY <1>1 DEF IInv, PointersOK, PcOK
<1>4. Enqueuing = {} /\ Enqueuing' = {}
  BY <1>2, <1>3 DEF Enqueuing, EnqueuePcs
<1>5. Held = entered
  <2>1. Held = entered \cup {value[node[t]] : t \in Enqueuing}
    BY <1>1 DEF IInv, FillOK
  <2> QED  BY <1>4, <2>1
<1>6. Items \subseteq entered
  <2> SUFFICES ASSUME NEW w \in Items PROVE w \in Held
    BY <1>5
  <2>1. w[1] \in Producers /\ w[2] \in 1 .. kOps /\ w = <<w[1], w[2]>>
    BY ItemsAndStops
  <2>2. Begun(w[1]) = {w[1]} \X (1 .. kOps)
    BY <1>1, <2>1, BegunCount
  <2>3. Begun(w[1]) \subseteq Held
    BY <1>1, BegunIs
  <2> QED  BY <2>1, <2>2, <2>3
<1>7. \A u \in Threads : PcOK(u)'
  BY <1>1, <1>2, <1>3 DEF PcOK
<1>8. Held' = Held /\ Gone' = Gone
  BY <1>2 DEF Held, Gone
<1>9. FillOK' /\ DrainOK'
  BY <1>1, <1>2, <1>4, <1>5, <1>6, <1>8 DEF IInv, FillOK, DrainOK
<1> QED  BY <1>1, <1>7, <1>9, StageMove

LEMMA StopsDoneKeeps ==
  ASSUME IInv, stage = "stop", pc[main] = "out", Stops \subseteq Used, stage' = "consume",
         UNCHANGED <<queueVars, produced, consumed, total, finished>>
  PROVE  IInv' /\ Contents' = Contents /\ taken' = taken
<1>1. /\ head_' = head_ /\ live' = live /\ value' = value /\ pc' = pc /\ node' = node
      /\ entered' = entered /\ taken' = taken /\ produced' = produced /\ consumed' = consumed
      /\ total' = total /\ finished' = finished
  BY DEF queueVars, heapVars, localVars, historyVars
<1>2. \A u \in Threads : pc[u] = "out"
  BY DEF IInv, PointersOK, PcOK
<1>3. Items \subseteq entered /\ Held = Values /\ Gone = {}
  <2>1. Values \cap Used = Held /\ entered \subseteq Held /\ Gone = {}
    BY BegunIs
  <2>2. Items \subseteq entered
    BY DEF IInv, FillOK
  <2> QED  BY <2>1, <2>2, Given
<1>4. \A u \in Threads : PcOK(u)'
  BY <1>1, <1>2 DEF PcOK
<1>5. Held' = Held /\ Gone' = Gone
  BY <1>1 DEF Held, Gone
<1>6. FillOK' /\ DrainOK'
  BY <1>1, <1>3, <1>5 DEF IInv, FillOK, DrainOK
<1> QED  BY <1>4, <1>6, StageMove

(* All consumers have their stop value: the items that came before are out *)
(* too.                                                                    *)
LEMMA JoinConsumersKeeps ==
  ASSUME IInv, JoinConsumers
  PROVE  IInv' /\ Contents' = Contents /\ taken' = taken
<1>1. /\ stage = "consume" /\ finished = Consumers /\ stage' = "destroy"
      /\ UNCHANGED <<queueVars, produced, consumed, total, finished>>
  BY DEF JoinConsumers
<1>2. /\ head_' = head_ /\ live' = live /\ value' = value /\ pc' = pc
      /\ entered' = entered /\ taken' = taken /\ produced' = produced /\ consumed' = consumed
      /\ total' = total /\ finished' = finished
  BY <1>1 DEF queueVars, heapVars, localVars, historyVars
<1>3. \A u \in Threads : pc[u] = "out"
  BY <1>1 DEF IInv, PointersOK, PcOK
<1>4. Stops \subseteq Gone
  <2>1. Cardinality(Gone \cap Stops) = Cardinality(Stops)
    BY <1>1, FiniteValues DEF IInv, DrainOK
  <2>2. Gone \cap Stops = Stops
    BY <2>1, FiniteValues, FS_Subset
  <2> QED  BY <2>2
<1>5. Stops # {}
  <2>1. PICK c : c \in Consumers
    BY Given
  <2>2. <<main, c>> \in Stops
    BY <2>1 DEF Stops
  <2> QED  BY <2>2
<1>6. Held = {}
  <2> SUFFICES ASSUME NEW a \in live \ {head_} PROVE FALSE
    BY DEF Held
  <2>1. a \in Linked /\ TypeOK /\ ListOK
    BY <1>1, InDequeueFacts DEF IInv, PointersOK
  <2>2. PICK i \in 1 .. Len(List) : List[i] = a
    BY <2>1 DEF Linked
  <2>3. i \in 2 .. Len(List)
    BY <2>1, <2>2, ListFacts
  <2>4. value[a] \in Stops
    BY <1>4, <1>5, <2>2, <2>3 DEF IInv, OrderOK
  <2>5. value[a] \in Held
    BY DEF Held
  <2> QED  BY <1>4, <2>4, <2>5 DEF IInv, ValuesOK
<1>7. Gone = Values
  BY <1>1, <1>6 DEF IInv, DrainOK
<1>8. \A u \in Threads : PcOK(u)'
  BY <1>1, <1>2, <1>3 DEF PcOK
<1>9. Held' = Held /\ Gone' = Gone
  BY <1>2 DEF Held, Gone
<1>10. FillOK' /\ DrainOK'
  BY <1>1, <1>2, <1>7, <1>9 DEF IInv, FillOK, DrainOK
<1> QED  BY <1>1, <1>8, <1>10, StageMove

LEMMA LastNode ==
  ASSUME TypeOK, ListOK, next[head_] = nullptr PROVE 2 \notin 1 .. Len(List)
<1>1. 1 \in 1 .. Len(List) /\ List[1] = head_ /\ Len(List) \in Nat \ {0}
  BY ListFacts
<1>2. next[List[1]] = Nth(List, 1 + 1, nullptr)
  BY <1>1, ListFacts
<1>3. Nth(List, 2, nullptr) = nullptr
  BY <1>1, <1>2
<1>4. \A a \in Addr : a # nullptr
  BY Given
<1> QED  BY <1>3, <1>4, ListFacts DEF Nth

(* The destructor's dequeue has found the queue empty: the dummy goes.     *)
LEMMA LastNodeKeeps ==
  ASSUME IInv, stage = "destroy", pc[main] = "dEmpty", Return(main), Delete(head_), stage' = "end",
         UNCHANGED <<head_, tail_, historyVars, produced, consumed, total, finished>>
  PROVE  IInv' /\ Contents' = Contents /\ taken' = taken
<1>1. /\ pc' = [pc EXCEPT ![main] = "out"] /\ val' = [val EXCEPT ![main] = Nothing]
      /\ at' = [at EXCEPT ![main] = nullptr] /\ tail' = [tail EXCEPT ![main] = nullptr]
      /\ after' = [after EXCEPT ![main] = nullptr] /\ node' = [node EXCEPT ![main] = nullptr]
      /\ live' = live \ {head_} /\ value' = [value EXCEPT ![head_] = Nothing]
      /\ next' = [next EXCEPT ![head_] = nullptr]
      /\ head_' = head_ /\ tail_' = tail_ /\ entered' = entered /\ taken' = taken
      /\ produced' = produced /\ consumed' = consumed /\ total' = total /\ finished' = finished
  BY DEF Return, Delete, Let, historyVars
<1>2. TypeOK /\ ListOK /\ TailOK /\ ValuesOK /\ OrderOK /\ DrainOK
  BY DEF IInv, PointersOK
<1>3. Held = {} /\ live = {head_} /\ live' = {}
  <2>1. Held = {} /\ head_ \in live
    BY <1>2, InDequeueFacts DEF ValuesOK, DrainOK
  <2>2. live \ {head_} = {}
    BY <2>1 DEF Held
  <2> QED  BY <1>1, <2>1, <2>2
<1>4. next[head_] = nullptr /\ next' = next
  <2>1. next[head_] = nullptr
    BY <1>3, SecondNode
  <2> QED  BY <1>1, <1>2, <2>1, TypesOf
<1>5. List' = List /\ Nodes' = Nodes /\ ListOK' /\ Linked' = Linked
  BY <1>1, <1>2, <1>4, TypesOf, ListKept
<1>6. Len(List) = 1 /\ 2 .. Len(List) = {}
  <2>1. Len(List) \in Nat \ {0} /\ 2 \notin 1 .. Len(List)
    BY <1>2, <1>4, ListFacts, LastNode
  <2>2. \A n \in Nat \ {0} : 2 \notin 1 .. n => n = 1 /\ 2 .. n = {}
    OBVIOUS
  <2> QED  BY <2>1, <2>2
<1>7. Contents' = Contents
  <2>1. DOMAIN Nodes = {}
    BY <1>2, <1>6, ListFacts, LenProperties
  <2> QED  BY <1>5, <2>1 DEF Contents
<1>8. \A u \in Threads : pc'[u] = "out"
  <2>1. \A u \in Threads : u # main => pc[u] = "out"
    BY DEF IInv, PointersOK, PcOK
  <2> QED  BY <1>1, <1>2, <2>1, TypesOf
<1>9. \A u \in Threads : PcOK(u)' /\ EnqueuerOK(u)' /\ DequeuerOK(u)'
  BY <1>8 DEF PcOK, EnqueuerOK, DequeuerOK, EnqueuePcs
<1>10. Enqueuing' = {} /\ Adding' = {}
  BY <1>8 DEF Enqueuing, Adding, EnqueuePcs
<1>11. PointersOK'
  BY <1>1, <1>2, <1>3, <1>5, <1>9, <1>10 DEF PointersOK, TailOK, HeapOK, NodesOK
<1>12. TypeOK'
  <2>1. /\ pc' \in [Threads -> PcValues] /\ at' \in [Threads -> Pointers]
        /\ tail' \in [Threads -> Pointers] /\ after' \in [Threads -> Pointers]
        /\ node' \in [Threads -> Pointers] /\ val' \in [Threads -> Values \cup {Nothing}]
        /\ value' \in [Addr -> Values \cup {Nothing}]
    BY <1>1, <1>2, TypesOf DEF PcValues, Pointers
  <2> QED  BY <1>1, <1>2, <1>3, <1>4, <2>1 DEF TypeOK, Pointers, PcValues
<1>13. Held' = Held /\ Gone' = Gone
  BY <1>1, <1>3 DEF Held, Gone
<1>14. ValuesOK' /\ OrderOK' /\ FillOK' /\ DrainOK'
  BY <1>1, <1>2, <1>3, <1>5, <1>6, <1>13 DEF ValuesOK, OrderOK, FillOK, DrainOK
<1> QED  BY <1>1, <1>7, <1>11, <1>12, <1>14 DEF IInv

-----------------------------------------------------------------------------
(* What a step does to the queue: nothing, a value behind it, or its front *)
(* taken.                                                                  *)
QueueStep ==
  \/ Contents' = Contents /\ taken' = taken
  \/ /\ taken' = taken /\ Len(Contents) < Cardinality(Addr)
     /\ \E v \in Values : Contents' = Append(Contents, v)
  \/ /\ Contents # <<>> /\ Contents' = Tail(Contents)
     /\ taken' = Append(taken, Head(Contents))

LEMMA InEnqueueKeeps ==
  ASSUME IInv, NEW t \in Threads, InEnqueue(t), UNCHANGED <<stage, consumed, total, finished>>,
         produced' = IF pc'[t] = "out" /\ t # main THEN produced + 1 ELSE produced
  PROVE  IInv' /\ QueueStep
<1>0. TypeOK
  BY DEF IInv
<1>1. CASE EnqueueLoadTail(t)
  <2>1. pc'[t] = "eNext" /\ taken' = taken
    BY <1>0, <1>1, TypesOf DEF EnqueueLoadTail, Goto, historyVars
  <2>2. UNCHANGED mainVars
    BY <2>1 DEF mainVars
  <2> QED  BY <1>1, <2>1, <2>2, EnqueueLoadTailKeeps DEF QueueStep
<1>2. CASE EnqueueLoadNext(t)
  <2>1. pc'[t] = "eCheck" /\ taken' = taken
    BY <1>0, <1>2, TypesOf DEF EnqueueLoadNext, Goto, historyVars
  <2>2. UNCHANGED mainVars
    BY <2>1 DEF mainVars
  <2> QED  BY <1>2, <2>1, <2>2, EnqueueLoadNextKeeps DEF QueueStep
<1>3. CASE EnqueueCheck(t)
  <2>1. pc'[t] # "out" /\ taken' = taken
    BY <1>0, <1>3, TypesOf DEF EnqueueCheck, Goto, historyVars
  <2>2. UNCHANGED mainVars
    BY <2>1 DEF mainVars
  <2> QED  BY <1>3, <2>1, <2>2, EnqueueCheckKeeps DEF QueueStep
<1>4. CASE EnqueueLink(t)
  <2>1. pc'[t] # "out" /\ taken' = taken
    BY <1>0, <1>4, TypesOf DEF EnqueueLink, Goto, historyVars
  <2>2. UNCHANGED mainVars
    BY <2>1 DEF mainVars
  <2>3. CASE /\ Goto(t, "eLink", "eSwing") /\ nullptr \in NextOf(at[t])
             /\ next' = IF at[t] \in live THEN Let(next, at[t], node[t]) ELSE next
    <3>1. UNCHANGED <<head_, tail_, live, value, localVars, historyVars, mainVars>>
      BY <1>4, <2>2 DEF EnqueueLink
    <3> QED  BY <2>1, <2>3, <3>1, EnqueueLinkKeeps DEF QueueStep
  <2>4. CASE Goto(t, "eLink", "eTail") /\ UNCHANGED next
    <3>1. UNCHANGED <<head_, tail_, heapVars, localVars, historyVars, mainVars>>
      BY <1>4, <2>2, <2>4 DEF EnqueueLink, heapVars
    <3> QED  BY <2>1, <2>4, <3>1, EnqueueRetryKeeps DEF QueueStep
  <2> QED  BY <1>4, <2>3, <2>4 DEF EnqueueLink
<1>5. CASE EnqueueSwing(t)
  <2>1. pc'[t] = "out"
    BY <1>0, <1>5, TypesOf DEF EnqueueSwing, Return, Let
  <2> QED  BY <1>5, <2>1, EnqueueSwingKeeps DEF QueueStep
<1>6. CASE EnqueueHelp(t)
  <2>1. pc'[t] # "out" /\ taken' = taken
    BY <1>0, <1>6, TypesOf DEF EnqueueHelp, SwingTail, Goto, historyVars
  <2>2. UNCHANGED mainVars
    BY <2>1 DEF mainVars
  <2> QED  BY <1>6, <2>1, <2>2, EnqueueHelpKeeps DEF QueueStep
<1> QED  BY <1>1, <1>2, <1>3, <1>4, <1>5, <1>6 DEF InEnqueue

LEMMA ProduceKeeps ==
  ASSUME IInv, NEW p \in Producers, Produce(p)
  PROVE  IInv' /\ QueueStep
<1>0. p \in Threads /\ p # main
  BY Given
<1>1. CASE InEnqueue(p)
  <2>1. /\ UNCHANGED <<stage, consumed, total, finished>>
        /\ produced' = IF pc'[p] = "out" /\ p # main THEN produced + 1 ELSE produced
    <3>1. pc[p] # "out"
      BY <1>1 DEF InEnqueue, EnqueueLoadTail, EnqueueLoadNext, EnqueueCheck, EnqueueLink,
                  EnqueueSwing, EnqueueHelp, SwingTail, Goto
    <3> QED  BY <1>0, <3>1 DEF Produce, EnqueueStart, Goto
  <2> QED  BY <1>0, <1>1, <2>1, InEnqueueKeeps
<1>2. CASE /\ stage = "produce" /\ Cardinality(Begun(p)) < kOps
           /\ EnqueueStart(p, <<p, Cardinality(Begun(p)) + 1>>) /\ UNCHANGED mainVars
  <2> DEFINE k == Cardinality(Begun(p))  v == <<p, k + 1>>
  <2>1. /\ k \in 0 .. kOps /\ Begun(p) = {p} \X (1 .. k) /\ Values \cap Used = Held
        /\ \A q : Begun(q) = {w \in Held : w[1] = q}
    BY <1>2, BegunCount, BegunIs
  <2>2. k + 1 \in 0 .. kOps /\ k + 1 \in 1 .. kOps /\ k \in Nat
    BY <1>2, <2>1, Given
  <2>3. EnqueueStart(p, v)
    BY <1>2
  <2> HIDE DEF k
  <2>4. v \in Items /\ v \in Values
    BY <2>2, ItemsAndStops, Given
  <2>5. v \notin Used
    <3>1. v \notin {p} \X (1 .. k)
      BY <2>2
    <3> QED  BY <2>1, <2>4, <3>1
  <2>6. ASSUME NEW q \in Producers
        PROVE  \E j \in 0 .. kOps : {w \in Held \cup {v} : w[1] = q} = {q} \X (1 .. j)
    <3>1. CASE q = p
      <4>1. {w \in Held \cup {v} : w[1] = p} = ({p} \X (1 .. k)) \cup {v}
        BY <2>1
      <4>2. ({p} \X (1 .. k)) \cup {v} = {p} \X (1 .. k + 1)
        <5>1. 1 .. k + 1 = (1 .. k) \cup {k + 1}
          BY <2>2
        <5> QED  BY <5>1
      <4>3. {w \in Held \cup {v} : w[1] = q} = {q} \X (1 .. k + 1)
        BY <3>1, <4>1, <4>2
      <4>4. k + 1 \in 0 .. kOps
        BY <2>2
      <4> WITNESS k + 1 \in 0 .. kOps
      <4> QED  BY <4>3
    <3>2. CASE q # p
      <4>1. {w \in Held \cup {v} : w[1] = q} = {w \in Held : w[1] = q}
        BY <3>2
      <4>2. \E j \in 0 .. kOps : {w \in Held : w[1] = q} = {q} \X (1 .. j)
        BY <1>2 DEF IInv, FillOK
      <4> QED  BY <4>1, <4>2
    <3> QED  BY <3>1, <3>2
  <2>7. PcOK(p)'
    <3>1. pc'[p] = "eTail" /\ stage' = "produce"
      BY <1>0, <1>2, TypesOf DEF EnqueueStart, Goto, IInv, mainVars
    <3> QED  BY <3>1 DEF PcOK, EnqueuePcs
  <2>8. UNCHANGED mainVars
    BY <1>2
  <2>9. taken' = taken
    BY <1>2 DEF EnqueueStart, historyVars
  <2> HIDE DEF v
  <2> QED  BY <1>0, <1>2, <2>3, <2>4, <2>5, <2>6, <2>7, <2>8, <2>9, EnqueueStartKeeps DEF QueueStep
<1> QED  BY <1>1, <1>2 DEF Produce

LEMMA StopKeeps ==
  ASSUME IInv, Stop
  PROVE  IInv' /\ QueueStep
<1>0. main \in Threads /\ main \notin Producers
  BY Given
<1>1. CASE InEnqueue(main) /\ UNCHANGED mainVars
  BY <1>0, <1>1, InEnqueueKeeps DEF mainVars
<1>2. ASSUME stage = "stop", NEW c \in Consumers, <<main, c>> \notin Used,
             EnqueueStart(main, <<main, c>>), UNCHANGED mainVars
      PROVE  IInv' /\ QueueStep
  <2> DEFINE v == <<main, c>>
  <2>1. v \in Values \ Used
    BY <1>2, Given DEF Stops
  <2>2. \A q \in Producers : {w \in Held \cup {v} : w[1] = q} = {w \in Held : w[1] = q}
    BY <1>0
  <2>3. \A q \in Producers : \E j \in 0 .. kOps : {w \in Held \cup {v} : w[1] = q} = {q} \X (1 .. j)
    BY <1>2, <2>2 DEF IInv, FillOK
  <2>4. PcOK(main)'
    <3>1. pc'[main] = "eTail" /\ stage' = "stop"
      BY <1>0, <1>2, TypesOf DEF EnqueueStart, Goto, IInv, mainVars
    <3> QED  BY <3>1 DEF PcOK, EnqueuePcs
  <2>5. taken' = taken /\ EnqueueStart(main, v)
    BY <1>2 DEF EnqueueStart, historyVars
  <2> HIDE DEF v
  <2> QED  BY <1>0, <1>2, <2>1, <2>3, <2>4, <2>5, EnqueueStartKeeps DEF QueueStep
<1>3. CASE /\ stage = "stop" /\ pc[main] = "out" /\ Stops \subseteq Used /\ stage' = "consume"
           /\ UNCHANGED <<queueVars, produced, consumed, total, finished>>
  BY <1>3, StopsDoneKeeps DEF QueueStep
<1> QED  BY <1>1, <1>2, <1>3 DEF Stop

(* Only an exchange that succeeds takes a value.                           *)
LEMMA InDequeueTakes ==
  ASSUME NEW t \in Threads, InDequeue(t)
  PROVE  taken' = taken \/ (pc[t] = "dSwap" /\ head_ = at[t])
BY DEF InDequeue, DequeueLoadHead, DequeueLoadTail, DequeueLoadNext, DequeueCheck, DequeueHelp,
       SwingTail, DequeueEmpty, DequeueReadValue, DequeueSwap, historyVars

LEMMA InDequeueKeeps ==
  ASSUME IInv, NEW t \in Threads, InDequeue(t), pc[t] # "dEmpty", UNCHANGED <<stage, produced>>,
         IF taken' = taken THEN UNCHANGED <<consumed, total, finished>>
         ELSE IF val[t] \in Stops
           THEN finished' = finished \cup {t} /\ UNCHANGED <<consumed, total>>
           ELSE consumed' = consumed + 1 /\ total' = total + 1 /\ UNCHANGED finished
  PROVE  IInv' /\ QueueStep
<1>1. taken' = taken => UNCHANGED mainVars
  BY DEF mainVars
<1>2. CASE pc[t] = "dHead" /\ DequeueLoadHead(t)
  <2>1. taken' = taken
    BY <1>2 DEF DequeueLoadHead, historyVars
  <2>2. /\ stage \in {"consume", "destroy"} /\ (stage = "consume" => t \in Consumers \ finished)
        /\ (stage = "destroy" => t = main)
    BY <1>2, DequeueStage DEF DequeuePcs
  <2> QED  BY <1>1, <1>2, <2>1, <2>2, DequeueLoadHeadKeeps DEF QueueStep
<1>3. CASE DequeueLoadTail(t)
  <2>1. taken' = taken
    BY <1>3 DEF DequeueLoadTail, historyVars
  <2> QED  BY <1>1, <1>3, <2>1, DequeueLoadTailKeeps DEF QueueStep
<1>4. CASE DequeueLoadNext(t)
  <2>1. taken' = taken
    BY <1>4 DEF DequeueLoadNext, historyVars
  <2> QED  BY <1>1, <1>4, <2>1, DequeueLoadNextKeeps DEF QueueStep
<1>5. CASE DequeueCheck(t)
  <2>1. taken' = taken
    BY <1>5 DEF DequeueCheck, historyVars
  <2> QED  BY <1>1, <1>5, <2>1, DequeueCheckKeeps DEF QueueStep
<1>6. CASE DequeueHelp(t)
  <2>1. taken' = taken
    BY <1>6 DEF DequeueHelp, SwingTail, historyVars
  <2> QED  BY <1>1, <1>6, <2>1, DequeueHelpKeeps DEF QueueStep
<1>7. CASE DequeueReadValue(t)
  <2>1. taken' = taken
    BY <1>7 DEF DequeueReadValue, historyVars
  <2> QED  BY <1>1, <1>7, <2>1, DequeueReadValueKeeps DEF QueueStep
<1>8. CASE DequeueSwap(t)
  <2>1. CASE Goto(t, "dSwap", "dHead") /\ UNCHANGED <<head_, tail_, heapVars, localVars, historyVars>>
    <3>1. taken' = taken
      BY <2>1 DEF historyVars
    <3> QED  BY <1>1, <2>1, <3>1, DequeueRetryKeeps DEF QueueStep
  <2>2. CASE /\ pc[t] = "dSwap" /\ head_ = at[t] /\ head_' = after[t] /\ Delete(at[t])
             /\ taken' = Append(taken, val[t]) /\ Return(t) /\ UNCHANGED <<tail_, entered>>
    <3>1. taken \in Seq(Values \cup {Nothing}) /\ val[t] \in Values \cup {Nothing}
      BY TypesOf DEF IInv
    <3>2. Len(taken') = Len(taken) + 1 /\ Len(taken) \in Nat
      BY <2>2, <3>1, AppendProperties, LenProperties
    <3>3. taken' # taken
      BY <3>2
    <3>4. UNCHANGED <<tail_, entered, stage, produced>>
      BY <2>2
    <3>5. IF val[t] \in Stops
           THEN finished' = finished \cup {t} /\ UNCHANGED <<consumed, total>>
           ELSE consumed' = consumed + 1 /\ total' = total + 1 /\ UNCHANGED finished
      BY <3>3
    <3> QED  BY <2>2, <3>4, <3>5, DequeueSwapKeeps DEF QueueStep
  <2> QED  BY <1>8, <2>1, <2>2 DEF DequeueSwap
<1>9. ~ DequeueEmpty(t)
  BY DEF DequeueEmpty
<1> QED  BY <1>2, <1>3, <1>4, <1>5, <1>6, <1>7, <1>8, <1>9 DEF InDequeue

LEMMA ConsumeKeeps ==
  ASSUME IInv, NEW c \in Consumers, Consume(c)
  PROVE  IInv' /\ QueueStep
<1>0. c \in Threads /\ c \in Consumers \ finished /\ stage = "consume" /\ stage # "destroy"
  BY Given DEF Consume
<1>1. CASE pc[c] = "out" /\ DequeueLoadHead(c)
  <2>1. taken' = taken
    BY <1>1 DEF DequeueLoadHead, historyVars
  <2>2. UNCHANGED mainVars
    BY <2>1 DEF Consume, mainVars
  <2> QED  BY <1>0, <1>1, <2>1, <2>2, DequeueLoadHeadKeeps DEF QueueStep
<1>2. CASE InDequeue(c)
  <2>1. pc[c] # "dEmpty"
    BY <1>0 DEF IInv, PointersOK, PcOK, DequeuePcs
  <2> QED  BY <1>0, <1>2, <2>1, InDequeueKeeps DEF Consume
<1> QED  BY <1>1, <1>2 DEF Consume

LEMMA DestroyKeeps ==
  ASSUME IInv, Destroy
  PROVE  IInv' /\ QueueStep
<1>0. main \in Threads /\ stage = "destroy" /\ UNCHANGED <<produced, consumed, total, finished>>
  BY Given DEF Destroy
<1>1. CASE pc[main] = "out" /\ DequeueLoadHead(main) /\ UNCHANGED stage
  <2>1. taken' = taken /\ UNCHANGED mainVars
    BY <1>0, <1>1 DEF DequeueLoadHead, historyVars, mainVars
  <2> QED  BY <1>0, <1>1, <2>1, DequeueLoadHeadKeeps DEF QueueStep
<1>2. CASE InDequeue(main) /\ pc[main] # "dEmpty" /\ UNCHANGED stage
  <2>1. taken' = taken
    BY <1>0, <1>2, InDequeueTakes, SwapFinds
  <2> QED  BY <1>0, <1>2, <2>1, InDequeueKeeps
<1>3. CASE /\ pc[main] = "dEmpty" /\ Return(main) /\ Delete(head_) /\ stage' = "end"
           /\ UNCHANGED <<head_, tail_, historyVars>>
  BY <1>0, <1>3, LastNodeKeeps DEF QueueStep
<1> QED  BY <1>1, <1>2, <1>3 DEF Destroy

-----------------------------------------------------------------------------
LEMMA InitInv == MainInit => IInv /\ Contents = <<>>
<1> SUFFICES ASSUME MainInit PROVE IInv /\ Contents = <<>>
  OBVIOUS
<1>1. /\ head_ \in Addr /\ tail_ = head_ /\ live = {head_}
      /\ value = [a \in Addr |-> Nothing] /\ next = [a \in Addr |-> nullptr]
      /\ pc = [t \in Threads |-> "out"] /\ at = NoLocal /\ tail = NoLocal /\ after = NoLocal
      /\ node = NoLocal /\ val = [t \in Threads |-> Nothing]
      /\ entered = {} /\ taken = <<>> /\ stage = "produce"
      /\ produced = 0 /\ consumed = 0 /\ total = 0 /\ finished = {}
  BY DEF MainInit, QueueInit
<1>2. TypeOK
  BY <1>1 DEF TypeOK, NoLocal
<1>3. List = <<head_>> /\ ListOK
  <2> DEFINE s == <<head_>>
  <2>1. IsChain(Addr, nullptr, next, head_, s)
    <3>1. s \in Seq(Addr) /\ Len(s) = 1 /\ s[1] = head_
      BY <1>1
    <3>2. \A i \in 1 .. Len(s) : i = 1
      BY <3>1
    <3>3. Nth(s, 1, nullptr) = head_ /\ Nth(s, 2, nullptr) = nullptr
      BY <3>1 DEF Nth
    <3>4. next[s[1]] = nullptr
      BY <1>1, <3>1
    <3> HIDE DEF s
    <3> QED  BY <3>1, <3>2, <3>3, <3>4 DEF IsChain
  <2>2. next \in [Addr -> Pointers]
    BY <1>1 DEF Pointers
  <2> HIDE DEF s
  <2>3. List = s
    BY <1>1, <2>1, <2>2, ChainIsList
  <2> QED  BY <1>1, <2>1, <2>3 DEF ListOK, s
<1>4. Len(List) = 1 /\ List[1] = head_ /\ Linked = {head_} /\ 2 .. Len(List) = {}
  <2>1. Len(List) = 1 /\ List[1] = head_
    BY <1>3
  <2>2. 1 .. 1 = {1} /\ 2 .. 1 = {}
    OBVIOUS
  <2> QED  BY <2>1, <2>2 DEF Linked
<1>5. Contents = <<>>
  <2>1. Contents \in Seq(Values \cup {Nothing}) /\ Len(Contents) = 0
    BY <1>2, <1>3, <1>4, ContentsFacts DEF ContentsAre
  <2> HIDE DEF Contents
  <2> QED  BY <2>1, EmptySeq
<1>6. Enqueuing = {} /\ Adding = {} /\ Held = {} /\ Gone = {}
  BY <1>1 DEF Enqueuing, Adding, EnqueuePcs, Held, Gone
<1>7. TailOK /\ HeapOK /\ NodesOK
  BY <1>1, <1>4, <1>6 DEF TailOK, HeapOK, NodesOK
<1>8. \A t \in Threads : PcOK(t) /\ EnqueuerOK(t) /\ DequeuerOK(t)
  BY <1>1 DEF PcOK, EnqueuerOK, DequeuerOK, EnqueuePcs
<1>9. ValuesOK /\ OrderOK
  BY <1>1, <1>4, <1>6 DEF ValuesOK, OrderOK
<1>10. FillOK
  <2>1. \A p \in Producers : {v \in Held : v[1] = p} = {p} \X (1 .. 0) /\ 0 \in 0 .. kOps
    <3>1. 1 .. 0 = {}
      OBVIOUS
    <3> QED  BY <1>6, <3>1, Given
  <2> QED  BY <1>1, <1>6, <2>1 DEF FillOK
<1>11. DrainOK
  BY <1>1, <1>6, FS_EmptySet DEF DrainOK
<1> QED  BY <1>1, <1>2, <1>3, <1>5, <1>7, <1>8, <1>9, <1>10, <1>11 DEF IInv, PointersOK

LEMMA NextInv == IInv /\ [MainNext]_vars => IInv' /\ QueueStep
<1> SUFFICES ASSUME IInv, [MainNext]_vars PROVE IInv' /\ QueueStep
  OBVIOUS
<1>1. ASSUME NEW t \in Threads, Work(t) PROVE IInv' /\ QueueStep
  BY <1>1, ProduceKeeps, ConsumeKeeps, StopKeeps, DestroyKeeps DEF Work
<1>2. CASE JoinProducers
  BY <1>2, JoinProducersKeeps DEF QueueStep
<1>3. CASE JoinConsumers
  BY <1>3, JoinConsumersKeeps DEF QueueStep
<1>4. CASE UNCHANGED vars
  <2>1. UNCHANGED <<head_, heapVars, historyVars, mainVars, node>> /\ UNCHANGED <<queueVars, mainVars>>
    BY <1>4 DEF vars, queueVars, localVars
  <2>2. /\ head_' = head_ /\ tail_' = tail_ /\ live' = live /\ value' = value /\ next' = next
        /\ pc' = pc /\ at' = at /\ tail' = tail /\ after' = after /\ node' = node /\ val' = val
        /\ entered' = entered /\ taken' = taken /\ stage' = stage /\ produced' = produced
        /\ consumed' = consumed /\ total' = total /\ finished' = finished
    BY <2>1 DEF queueVars, heapVars, localVars, historyVars, mainVars
  <2>3. List' = List /\ Nodes' = Nodes /\ Linked' = Linked
    BY <2>2 DEF List, Nodes, Linked
  <2>4. Contents' = Contents
    BY <2>2, <2>3, ContentsKept
  <2>5. Enqueuing' = Enqueuing /\ Adding' = Adding /\ Held' = Held /\ Gone' = Gone
    BY <2>2 DEF Enqueuing, Adding, Held, Gone
  <2>6. PointersOK'
    <3>1. ASSUME NEW t \in Threads PROVE PcOK(t)' /\ EnqueuerOK(t)' /\ DequeuerOK(t)'
      <4>1. PcOK(t) /\ EnqueuerOK(t) /\ DequeuerOK(t)
        BY DEF IInv, PointersOK
      <4> QED  BY <2>2, <2>3, <4>1 DEF PcOK, EnqueuerOK, DequeuerOK, Before
    <3> QED  BY <2>2, <2>3, <2>5, <3>1 DEF IInv, PointersOK, ListOK, TailOK, HeapOK, NodesOK
  <2>7. TypeOK' /\ ValuesOK' /\ OrderOK' /\ FillOK' /\ DrainOK'
    BY <2>2, <2>3, <2>5 DEF IInv, TypeOK, ValuesOK, OrderOK, FillOK, DrainOK
  <2> QED  BY <2>2, <2>4, <2>6, <2>7 DEF IInv, QueueStep
<1> QED  BY <1>1, <1>2, <1>3, <1>4 DEF MainNext, Returned

LEMMA AlwaysInv == MainSpec => []IInv
<1>1. MainInit => IInv
  BY InitInv
<1>2. IInv /\ [MainNext]_vars => IInv'
  BY NextInv
<1> QED  BY <1>1, <1>2, PTL DEF MainSpec

-----------------------------------------------------------------------------
(* The pointers and fields keep their types, the stages and the counters   *)
(* too: no counter exceeds the number of items.                            *)
THEOREM QueueTypes == MainSpec => []MainTypeOK
<1>1. IInv => MainTypeOK
  <2> SUFFICES ASSUME IInv PROVE MainTypeOK
    OBVIOUS
  <2>1. \A S \in SUBSET Items : IsFiniteSet(S) /\ Cardinality(S) <= Cardinality(Items) /\ Cardinality(S) \in Nat
    BY FiniteValues, FS_Subset, FS_CardinalityType
  <2>2. entered \cap Items \in SUBSET Items /\ Gone \cap Items \in SUBSET Items
    OBVIOUS
  <2>3. Cardinality(Items) \in Nat
    BY FiniteValues, FS_CardinalityType
  <2>4. {produced, consumed, total} \subseteq 0 .. Cardinality(Items)
    BY <2>1, <2>2, <2>3 DEF IInv, DrainOK
  <2> QED  BY <2>4 DEF IInv, DrainOK, MainTypeOK
<1> QED  BY <1>1, AlwaysInv, PTL

(* No node on the list is freed, and tail_ is on it, at most one node from *)
(* its end: what helping relies on (lockfree_queue.cpp's two "help").      *)
THEOREM TailStaysOnList == MainSpec => []TailOnList
<1>1. IInv => TailOnList
  <2> SUFFICES ASSUME IInv, stage # "end"
               PROVE  LET list == <<head_>> \o Nodes
                      IN  /\ {list[n] : n \in DOMAIN list} \subseteq live
                          /\ \E n \in DOMAIN list : list[n] = tail_ /\ n >= Len(list) - 1
    BY DEF TailOnList
  <2>1. TypeOK /\ ListOK /\ TailOK /\ Linked \subseteq live
    BY LinkedIsLive DEF IInv, PointersOK
  <2>2. DOMAIN List = 1 .. Len(List)
    BY <2>1, ListFacts, LenProperties
  <2>3. {List[n] : n \in DOMAIN List} \subseteq live
    BY <2>1, <2>2 DEF Linked
  <2>4. \E n \in DOMAIN List : List[n] = tail_ /\ n >= Len(List) - 1
    BY <2>1, <2>2 DEF TailOK
  <2> QED  BY <2>3, <2>4 DEF List
<1> QED  BY <1>1, AlwaysInv, PTL

(* The stop values suffice: no running consumer finds the queue empty.     *)
THEOREM ConsumersFindValues == MainSpec => []NeverEmptyWhileConsuming
<1>1. IInv => NeverEmptyWhileConsuming
  <2> SUFFICES ASSUME IInv, NEW c \in Consumers PROVE pc[c] # "dEmpty"
    BY DEF NeverEmptyWhileConsuming
  <2>1. PcOK(c) /\ c # main /\ c \notin Producers
    BY Given DEF IInv, PointersOK
  <2> QED  BY <2>1 DEF PcOK, IInv, EnqueuePcs, DequeuePcs
<1> QED  BY <1>1, AlwaysInv, PTL

(* What main expects of its counters, item by item, and no node leaked.    *)
THEOREM EveryItemDequeuedOnce == MainSpec => []FinalTotal
<1>1. IInv => FinalTotal
  <2> SUFFICES ASSUME IInv PROVE FinalTotal
    OBVIOUS
  <2>1. ASSUME stage \in {"destroy", "end"}
        PROVE  /\ produced = Cardinality(Items) /\ consumed = produced /\ total = produced
               /\ Gone = Values /\ Len(taken) = Cardinality(Values)
    <3>1. Gone = Values /\ Items \subseteq entered
      BY <2>1 DEF IInv, DrainOK
    <3>2. Gone \cap Items = Items /\ entered \cap Items = Items
      BY <3>1, Given
    <3>3. produced = Cardinality(Items) /\ consumed = produced /\ total = produced
      BY <3>2 DEF IInv, DrainOK
    <3>4. taken \in Seq(Values \cup {Nothing}) /\ IsFiniteSet(Values \cup {Nothing})
      BY TypesOf, FiniteValues, FS_AddElement DEF IInv
    <3>5. DOMAIN taken = 1 .. Len(taken)
      BY <3>4, LenProperties
    <3>6. \A i, j \in 1 .. Len(taken) : taken[i] = taken[j] => i = j
      BY <3>5 DEF IInv, ValuesOK
    <3>7. Cardinality({taken[i] : i \in 1 .. Len(taken)}) = Len(taken)
      BY <3>4, <3>6, ChainIsShort
    <3>8. Len(taken) = Cardinality(Values)
      BY <3>1, <3>5, <3>7 DEF Gone
    <3> QED  BY <3>1, <3>3, <3>8
  <2>2. stage = "end" => live = {}
    BY DEF IInv, PointersOK, HeapOK
  <2> QED  BY <2>1, <2>2 DEF FinalTotal, Gone
<1> QED  BY <1>1, AlwaysInv, PTL

(* A dequeue returns the value at the front, though it read it before its  *)
(* exchange, from a node that may since have gone.                         *)
THEOREM DequeueReturnsFront == MainSpec => ReturnsFront
<1>1. IInv /\ [MainNext]_vars =>
        [Len(taken') > Len(taken) => taken' = Append(taken, Head(Contents))]_vars
  <2> SUFFICES ASSUME IInv, [MainNext]_vars, Len(taken') > Len(taken)
               PROVE  taken' = Append(taken, Head(Contents))
    OBVIOUS
  <2>1. QueueStep /\ Len(taken) \in Nat
    BY NextInv, TypesOf, LenProperties DEF IInv
  <2>2. taken' # taken
    BY <2>1
  <2> QED  BY <2>1, <2>2 DEF QueueStep
<1> QED  BY <1>1, AlwaysInv, PTL DEF MainSpec, ReturnsFront

(* The queue in this program is first-in first-out: its list changes by a  *)
(* value linked at the end, or the front taken off, and in no other way.   *)
THEOREM QueueIsFifo == MainSpec => ImplementsFifo
<1>1. MainInit => Fifo!Init
  BY InitInv DEF Fifo!Init
<1>2. IInv /\ [MainNext]_vars => [Fifo!Next]_Contents
  <2> SUFFICES ASSUME IInv, [MainNext]_vars PROVE [Fifo!Next]_Contents
    OBVIOUS
  <2>1. QueueStep
    BY NextInv
  <2> QED  BY <2>1 DEF QueueStep, Fifo!Next, Fifo!Take, Fifo!Put
<1> QED  BY <1>1, <1>2, AlwaysInv, PTL DEF MainSpec, ImplementsFifo, Fifo!Spec
=============================================================================
