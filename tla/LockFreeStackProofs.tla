------------------------ MODULE LockFreeStackProofs ------------------------
(***************************************************************************)
(* The lock-free stack for any number of threads, values, addresses and    *)
(* calls: every node has one owner, the tag defeats ABA, and the class is  *)
(* a linearizable stack.                                                   *)
(***************************************************************************)
EXTENDS LockFreeStack, DataFacts

Pointers == Addr \cup {nullptr}

(* The nodes from the head on end in null and are all different.           *)
ListOK == IsChain(Addr, nullptr, next, head_.ptr, List)

(* Who holds a node that is not on the list, and which.                    *)
Owners == Pushing \cup Taking
Owner(t) == IF pc[t] = "take" THEN old[t].ptr ELSE node[t]

OwnersOK ==
  /\ live = Linked \cup {Owner(t) : t \in Owners}
  /\ \A t \in Owners : Owner(t) \in Addr /\ Owner(t) \notin Linked
  /\ \A t, u \in Owners : Owner(t) = Owner(u) => t = u

(* The tag of head_ only grows, so that a head that has been read is still *)
(* the head if it has the same tag.                                        *)
TagsOK ==
  /\ head_.tag = 0 => head_.ptr = nullptr
  /\ \A t \in Threads : /\ old[t].tag <= head_.tag
                        /\ old[t].tag = head_.tag => old[t] = head_

LocalsOK ==
  \A t \in Threads : /\ pc[t] = "swapIn" => next[node[t]] = old[t].ptr
                     /\ pc[t] \in {"read", "swapOut"} => old[t].ptr # nullptr

IInv == TypeOK /\ ListOK /\ OwnersOK /\ TagsOK /\ LocalsOK /\ SwapOutIsCurrent

-----------------------------------------------------------------------------
LEMMA AddrFacts == IsFiniteSet(Addr) /\ nullptr \notin Addr /\ MaxCalls \in Nat /\ Nothing \notin Values
BY StackAssumption

LEMMA TypesOf ==
  ASSUME IInv
  PROVE  /\ head_ \in [ptr : Pointers, tag : Nat] /\ live \subseteq Addr
         /\ next \in [Addr -> Pointers] /\ value \in [Addr -> Values \cup {Nothing}]
         /\ old \in [Threads -> [ptr : Pointers, tag : Nat]]
         /\ node \in [Threads -> Pointers] /\ following \in [Threads -> Pointers]
         /\ calls \in [Threads -> 0 .. MaxCalls]
         /\ pc \in [Threads -> {"out", "link", "swapIn", "load", "read", "swapOut", "take", "empty"}]
BY DEF IInv, TypeOK, Pointers

LEMMA ListFacts ==
  ASSUME IInv
  PROVE  /\ List \in Seq(Addr) /\ Len(List) \in Nat /\ DOMAIN List = 1 .. Len(List)
         /\ Linked = {List[i] : i \in 1 .. Len(List)} /\ Linked \subseteq live
         /\ \A i, j \in 1 .. Len(List) : List[i] = List[j] => i = j
         /\ head_.ptr = nullptr <=> List = <<>>
         /\ head_.ptr # nullptr => head_.ptr \in Linked
<1>1. List \in Seq(Addr) /\ \A i, j \in 1 .. Len(List) : List[i] = List[j] => i = j
  BY DEF IInv, ListOK, IsChain
<1>2. Len(List) \in Nat /\ DOMAIN List = 1 .. Len(List) /\ List \in [1 .. Len(List) -> Addr]
  BY <1>1, LenProperties
<1>3. Linked = {List[i] : i \in 1 .. Len(List)}
  BY <1>2, Zenon DEF Linked
<1>4. head_.ptr = Nth(List, 1, nullptr)
  BY DEF IInv, ListOK, IsChain
<1>5. CASE List = <<>>
  BY <1>1, <1>2, <1>3, <1>4, <1>5, EmptySeq DEF Nth, IInv, OwnersOK
<1>6. CASE List # <<>>
  <2>1. 1 \in 1 .. Len(List)
    BY <1>1, <1>6, EmptySeq
  <2>2. head_.ptr = List[1] /\ List[1] \in Addr
    BY <1>2, <1>4, <2>1 DEF Nth
  <2> QED  BY <1>1, <1>2, <1>3, <1>6, <2>1, <2>2, AddrFacts DEF IInv, OwnersOK
<1> QED  BY <1>5, <1>6

(* Any chain from the head on is the list.                                 *)
LEMMA ListIs ==
  ASSUME head_ \in [ptr : Pointers, tag : Nat], next \in [Addr -> Pointers],
         NEW s, IsChain(Addr, nullptr, next, head_.ptr, s)
  PROVE  List = s
BY ChainIs, AddrFacts DEF List, Pointers

LEMMA NewListIs ==
  ASSUME head_' \in [ptr : Pointers, tag : Nat], next' \in [Addr -> Pointers],
         NEW s, IsChain(Addr, nullptr, next', head_'.ptr, s)
  PROVE  List' = s /\ ListOK'
<1>1. List' = s
  BY ChainIs, AddrFacts DEF List, Pointers
<1> QED  BY <1>1 DEF ListOK

(* A step that changes neither the head nor the next of a node on the list *)
(* keeps the list.                                                         *)
LEMMA ListKept ==
  ASSUME IInv, head_' = head_, next' \in [Addr -> Pointers],
         \A a \in Linked : next'[a] = next[a]
  PROVE  List' = List /\ ListOK' /\ Linked' = Linked
<1> DEFINE s == List
<1>1. \A i \in 1 .. Len(s) : next'[s[i]] = next[s[i]]
  BY ListFacts
<1>2. IsChain(Addr, nullptr, next, head_.ptr, s) /\ head_ \in [ptr : Pointers, tag : Nat]
  BY TypesOf DEF IInv, ListOK
<1> HIDE DEF s
<1>3. IsChain(Addr, nullptr, next', head_'.ptr, s)
  BY <1>1, <1>2, ChainKept
<1>4. List' = s /\ ListOK'
  BY <1>2, <1>3, NewListIs
<1> QED  BY <1>4 DEF s, Linked

-----------------------------------------------------------------------------
LEMMA StartInv == Init => IInv
<1> SUFFICES ASSUME Init PROVE IInv
  OBVIOUS
<1> USE DEF Init, StackInit
<1>1. head_ = [ptr |-> nullptr, tag |-> 0] /\ head_ \in [ptr : Pointers, tag : Nat]
  BY DEF Null, Pointers
<1>2. TypeOK
  BY <1>1, AddrFacts DEF TypeOK, Null, Pointers
<1>3. IsChain(Addr, nullptr, next, head_.ptr, <<>>)
  BY <1>1, EmptySeq DEF IsChain, Nth
<1>4. next \in [Addr -> Pointers]
  BY DEF Pointers
<1>5. List = <<>>
  BY <1>1, <1>3, <1>4, ListIs
<1>6. ListOK
  BY <1>3, <1>5 DEF ListOK
<1>7. Linked = {} /\ Owners = {} /\ live = {}
  BY <1>5 DEF Linked, Owners, Pushing, Taking
<1>8. OwnersOK
  BY <1>7 DEF OwnersOK
<1>9. TagsOK /\ LocalsOK /\ SwapOutIsCurrent
  BY <1>1 DEF TagsOK, LocalsOK, SwapOutIsCurrent, Null
<1> QED  BY <1>2, <1>6, <1>8, <1>9 DEF IInv

-----------------------------------------------------------------------------
(* Steps that change nothing but the variables of one call.                *)
LEMMA OwnersKept ==
  ASSUME IInv, NEW t \in Threads, live' = live, Linked' = Linked,
         \A u \in Threads \ {t} : pc'[u] = pc[u] /\ node'[u] = node[u] /\ old'[u] = old[u],
         \/ t \notin Owners /\ t \notin Owners'
         \/ t \in Owners /\ t \in Owners' /\ Owner(t)' = Owner(t)
  PROVE  OwnersOK'
<1>1. Owners' = Owners
  BY DEF Owners, Pushing, Taking
<1>2. \A u \in Owners : Owner(u)' = Owner(u)
  BY DEF Owners, Pushing, Taking, Owner
<1>3. OwnersOK
  BY DEF IInv
<1> QED  BY <1>1, <1>2, <1>3 DEF OwnersOK

PcValues == {"out", "link", "swapIn", "load", "read", "swapOut", "take", "empty"}

LEMMA LocalStep ==
  ASSUME IInv, NEW t \in Threads, UNCHANGED <<head_, heapVars>>,
         NEW p \in PcValues, NEW o, NEW m \in Pointers, NEW f \in Pointers, NEW c \in 0 .. MaxCalls,
         pc' = [pc EXCEPT ![t] = p], old' = [old EXCEPT ![t] = o],
         node' = [node EXCEPT ![t] = m], following' = [following EXCEPT ![t] = f],
         calls' = [calls EXCEPT ![t] = c],
         o \in {old[t], head_, Null},
         \/ pc[t] = "swapIn" /\ p = "link" /\ m = node[t]
         \/ {pc[t], p} \cap {"link", "swapIn", "take"} = {},
         p \in {"read", "swapOut"} => o.ptr # nullptr,
         p = "swapOut" /\ head_ = o => o.ptr \in live /\ f = next[o.ptr]
  PROVE  IInv' /\ List' = List
<1>0. /\ head_' = head_ /\ live' = live /\ value' = value /\ next' = next
      /\ Null \in [ptr : Pointers, tag : Nat] /\ Null.tag = 0 /\ Null.ptr = nullptr
  BY DEF heapVars, Null, Pointers
<1>1. List' = List /\ ListOK' /\ Linked' = Linked
  BY <1>0, TypesOf, ListKept
<1>2. /\ \A u \in Threads \ {t} : pc'[u] = pc[u] /\ node'[u] = node[u] /\ old'[u] = old[u]
                                  /\ following'[u] = following[u]
      /\ pc'[t] = p /\ node'[t] = m /\ old'[t] = o /\ following'[t] = f
      /\ o \in [ptr : Pointers, tag : Nat]
  BY <1>0, TypesOf
<1>3. OwnersOK'
  <2>1. CASE pc[t] = "swapIn" /\ p = "link" /\ m = node[t]
    <3>1. t \in Owners /\ t \in Owners' /\ Owner(t)' = Owner(t)
      BY <1>2, <2>1 DEF Owners, Pushing, Taking, Owner
    <3> QED  BY <1>0, <1>1, <1>2, <3>1, OwnersKept
  <2>2. CASE {pc[t], p} \cap {"link", "swapIn", "take"} = {}
    <3>1. t \notin Owners /\ t \notin Owners'
      BY <1>2, <2>2 DEF Owners, Pushing, Taking
    <3> QED  BY <1>0, <1>1, <1>2, <3>1, OwnersKept
  <2> QED  BY <2>1, <2>2
<1>4. TypeOK'
  <2>1. /\ head_' \in [ptr : Pointers, tag : Nat] /\ live' \subseteq Addr
        /\ next' \in [Addr -> Pointers] /\ value' \in [Addr -> Values \cup {Nothing}]
        /\ old' \in [Threads -> [ptr : Pointers, tag : Nat]]
        /\ node' \in [Threads -> Pointers] /\ following' \in [Threads -> Pointers]
        /\ calls' \in [Threads -> 0 .. MaxCalls] /\ pc' \in [Threads -> PcValues]
    BY <1>0, <1>2, TypesOf DEF PcValues
  <2>2. \A u \in Threads : /\ pc'[u] \in {"link", "swapIn"} => node'[u] \in live'
                           /\ pc'[u] = "take" => old'[u].ptr \in live'
    <3>1. \A u \in Threads : /\ pc[u] \in {"link", "swapIn"} => node[u] \in live
                             /\ pc[u] = "take" => old[u].ptr \in live
      BY DEF IInv, TypeOK
    <3>2. \/ p \notin {"link", "swapIn", "take"}
          \/ pc[t] = "swapIn" /\ p = "link" /\ m = node[t]
      OBVIOUS
    <3>3. pc'[t] \in {"link", "swapIn"} => node'[t] \in live'
      BY <1>0, <1>2, <3>1, <3>2
    <3>4. pc'[t] = "take" => old'[t].ptr \in live'
      BY <1>2, <3>2
    <3> QED  BY <1>0, <1>2, <3>1, <3>3, <3>4
  <2> QED  BY <2>1, <2>2 DEF TypeOK, Pointers, PcValues
<1>5. TagsOK'
  BY <1>0, <1>2, TypesOf DEF IInv, TagsOK, Null
<1>6. LocalsOK'
  <2>1. p # "swapIn"
    OBVIOUS
  <2> SUFFICES ASSUME NEW u \in Threads
               PROVE  /\ pc'[u] = "swapIn" => next'[node'[u]] = old'[u].ptr
                      /\ pc'[u] \in {"read", "swapOut"} => old'[u].ptr # nullptr
    BY DEF LocalsOK
  <2>2. CASE u = t
    BY <1>2, <2>1, <2>2
  <2>3. CASE u # t
    BY <1>0, <1>2, <2>3 DEF IInv, LocalsOK
  <2> QED  BY <2>2, <2>3
<1>7. SwapOutIsCurrent'
  BY <1>0, <1>2 DEF IInv, SwapOutIsCurrent
<1> QED  BY <1>1, <1>3, <1>4, <1>5, <1>6, <1>7 DEF IInv

LEMMA FailedPushSwap ==
  ASSUME IInv, NEW t \in Threads, Step(t, "swapIn", "link"), Keep(t, head_),
         UNCHANGED <<head_, heapVars, node, following>>
  PROVE  IInv' /\ List' = List
<1>1. /\ pc' = [pc EXCEPT ![t] = "link"] /\ old' = [old EXCEPT ![t] = head_]
      /\ node' = [node EXCEPT ![t] = node[t]] /\ following' = [following EXCEPT ![t] = following[t]]
      /\ calls' = [calls EXCEPT ![t] = calls[t]] /\ pc[t] = "swapIn"
  BY TypesOf DEF Step, Keep
<1>2. node[t] \in Pointers /\ following[t] \in Pointers /\ calls[t] \in 0 .. MaxCalls
  BY TypesOf
<1> QED  BY <1>1, <1>2, LocalStep DEF PcValues

LEMMA PopStartKeeps ==
  ASSUME IInv, NEW t \in Threads, PopStart(t)
  PROVE  IInv' /\ List' = List
<1>1. /\ pc' = [pc EXCEPT ![t] = "load"] /\ old' = [old EXCEPT ![t] = old[t]]
      /\ node' = [node EXCEPT ![t] = node[t]] /\ following' = [following EXCEPT ![t] = following[t]]
      /\ calls' = [calls EXCEPT ![t] = calls[t] + 1] /\ pc[t] = "out"
      /\ UNCHANGED <<head_, heapVars>>
  BY TypesOf DEF PopStart, Call
<1>2. node[t] \in Pointers /\ following[t] \in Pointers /\ calls[t] + 1 \in 0 .. MaxCalls
  BY TypesOf, AddrFacts DEF PopStart, Call
<1>3. "load" \in PcValues /\ {pc[t], "load"} \cap {"link", "swapIn", "take"} = {}
  BY <1>1 DEF PcValues
<1> QED  BY <1>1, <1>2, <1>3, LocalStep

LEMMA ProceedKeeps ==
  ASSUME IInv, NEW t \in Threads, NEW here \in {"load", "swapOut"}, Proceed(t, here)
  PROVE  IInv' /\ List' = List
<1> DEFINE there == IF head_.ptr = nullptr THEN "empty" ELSE "read"
<1>1. /\ pc' = [pc EXCEPT ![t] = there] /\ old' = [old EXCEPT ![t] = head_]
      /\ node' = [node EXCEPT ![t] = node[t]] /\ following' = [following EXCEPT ![t] = following[t]]
      /\ calls' = [calls EXCEPT ![t] = calls[t]] /\ pc[t] \in {"load", "swapOut"}
      /\ UNCHANGED <<head_, heapVars>>
  BY TypesOf DEF Proceed, Step, Keep
<1>2. node[t] \in Pointers /\ following[t] \in Pointers /\ calls[t] \in 0 .. MaxCalls
  BY TypesOf
<1>3. /\ there \in PcValues /\ there # "swapOut" /\ there \notin {"link", "swapIn", "take"}
      /\ there = "read" => head_.ptr # nullptr
  BY DEF PcValues
<1> HIDE DEF there
<1> QED  BY <1>1, <1>2, <1>3, LocalStep

LEMMA PopReadNextKeeps ==
  ASSUME IInv, NEW t \in Threads, PopReadNext(t)
  PROVE  IInv' /\ List' = List
<1>1. PICK a \in IF old[t].ptr \in live THEN {next[old[t].ptr]} ELSE Pointers :
        following' = [following EXCEPT ![t] = a]
  BY Zenon DEF PopReadNext, Pointers
<1>2. a \in Pointers /\ (old[t].ptr \in live => a = next[old[t].ptr])
  BY <1>1, TypesOf
<1>3. /\ pc' = [pc EXCEPT ![t] = "swapOut"] /\ old' = [old EXCEPT ![t] = old[t]]
      /\ node' = [node EXCEPT ![t] = node[t]] /\ calls' = [calls EXCEPT ![t] = calls[t]]
      /\ pc[t] = "read" /\ UNCHANGED <<head_, heapVars>>
  BY TypesOf DEF PopReadNext, Step
<1>4. node[t] \in Pointers /\ calls[t] \in 0 .. MaxCalls
  BY TypesOf
<1>5. old[t].ptr # nullptr /\ (head_ = old[t] => old[t].ptr \in live)
  BY <1>3, ListFacts DEF IInv, LocalsOK
<1>6. "swapOut" \in PcValues /\ {pc[t], "swapOut"} \cap {"link", "swapIn", "take"} = {}
  BY <1>3 DEF PcValues
<1> QED  BY <1>1, <1>2, <1>3, <1>4, <1>5, <1>6, LocalStep

LEMMA PopEmptyKeeps ==
  ASSUME IInv, NEW t \in Threads, PopEmpty(t)
  PROVE  IInv' /\ List' = List
<1>1. /\ pc' = [pc EXCEPT ![t] = "out"] /\ old' = [old EXCEPT ![t] = Null]
      /\ node' = [node EXCEPT ![t] = nullptr] /\ following' = [following EXCEPT ![t] = nullptr]
      /\ calls' = [calls EXCEPT ![t] = calls[t]] /\ pc[t] = "empty"
      /\ UNCHANGED <<head_, heapVars>>
  BY TypesOf DEF PopEmpty, Return
<1>2. nullptr \in Pointers /\ calls[t] \in 0 .. MaxCalls
  BY TypesOf DEF Pointers
<1> QED  BY <1>1, <1>2, LocalStep DEF PcValues

-----------------------------------------------------------------------------
(* Steps on the heap.                                                      *)
LEMMA HeadIsLinked ==
  ASSUME IInv, NEW t \in Threads, pc[t] \in {"read", "swapOut"}, head_ = old[t]
  PROVE  old[t].ptr \in Linked /\ old[t].ptr \in live /\ head_.ptr \in Linked /\ List # <<>>
BY ListFacts DEF IInv, LocalsOK

LEMMA PushStartKeeps ==
  ASSUME IInv, NEW t \in Threads, NEW v \in Values, PushStart(t, v)
  PROVE  /\ IInv' /\ List' = List
         /\ node'[t] \in Addr \ live /\ node'[t] \in Addr
         /\ value' = [value EXCEPT ![node'[t]] = v]
<1>1. PICK a \in Addr \ live :
         live' = live \cup {a} /\ value' = [value EXCEPT ![a] = v] /\ node' = [node EXCEPT ![t] = a]
  BY DEF PushStart, New
<1>2. /\ pc[t] = "out" /\ calls[t] < MaxCalls /\ calls' = [calls EXCEPT ![t] = @ + 1]
      /\ old' = [old EXCEPT ![t] = head_] /\ pc' = [pc EXCEPT ![t] = "link"]
      /\ head_' = head_ /\ next' = next /\ following' = following
  BY DEF PushStart, Call, Keep
<1>3. List' = List /\ ListOK' /\ Linked' = Linked
  BY <1>2, TypesOf, ListKept
<1>4. /\ \A u \in Threads \ {t} : pc'[u] = pc[u] /\ node'[u] = node[u] /\ old'[u] = old[u]
      /\ pc'[t] = "link" /\ node'[t] = a /\ old'[t] = head_ /\ a \in Addr
  BY <1>1, <1>2, TypesOf
<1>5. OwnersOK'
  <2>1. Owners' = Owners \cup {t} /\ t \notin Owners
    BY <1>2, <1>4 DEF Owners, Pushing, Taking
  <2>2. Owner(t)' = a /\ \A u \in Owners : Owner(u)' = Owner(u)
    BY <1>4, <2>1 DEF Owners, Pushing, Taking, Owner
  <2>3. a \notin Linked /\ \A u \in Owners : Owner(u) # a
    BY DEF IInv, OwnersOK
  <2> QED  BY <1>1, <1>3, <2>1, <2>2, <2>3 DEF IInv, OwnersOK
<1>6. TypeOK'
  <2>1. /\ head_' \in [ptr : Pointers, tag : Nat] /\ live' \subseteq Addr
        /\ next' \in [Addr -> Pointers] /\ value' \in [Addr -> Values \cup {Nothing}]
        /\ old' \in [Threads -> [ptr : Pointers, tag : Nat]]
        /\ node' \in [Threads -> Pointers] /\ following' \in [Threads -> Pointers]
        /\ pc' \in [Threads -> PcValues]
    BY <1>1, <1>2, TypesOf DEF PcValues, Pointers
  <2>2. calls' \in [Threads -> 0 .. MaxCalls]
    BY <1>2, TypesOf, AddrFacts
  <2>3. \A u \in Threads : /\ pc'[u] \in {"link", "swapIn"} => node'[u] \in live'
                           /\ pc'[u] = "take" => old'[u].ptr \in live'
    BY <1>1, <1>4 DEF IInv, TypeOK
  <2> QED  BY <2>1, <2>2, <2>3 DEF TypeOK, Pointers, PcValues
<1>7. TagsOK'
  BY <1>2, <1>4, TypesOf DEF IInv, TagsOK
<1>8. LocalsOK'
  BY <1>2, <1>4 DEF IInv, LocalsOK
<1>9. SwapOutIsCurrent'
  BY <1>1, <1>2, <1>4 DEF IInv, SwapOutIsCurrent
<1> QED  BY <1>1, <1>3, <1>4, <1>5, <1>6, <1>7, <1>8, <1>9 DEF IInv

LEMMA PushLinkKeeps ==
  ASSUME IInv, NEW t \in Threads, PushLink(t)
  PROVE  IInv' /\ List' = List
<1>1. /\ pc[t] = "link" /\ pc' = [pc EXCEPT ![t] = "swapIn"]
      /\ next' = [next EXCEPT ![node[t]] = old[t].ptr]
      /\ UNCHANGED <<head_, live, value, old, node, following, calls>>
  BY DEF PushLink, Step
<1>2. t \in Owners /\ Owner(t) = node[t] /\ node[t] \in Addr /\ node[t] \notin Linked /\ old[t].ptr \in Pointers
  BY <1>1, TypesOf DEF Owners, Pushing, Owner, IInv, OwnersOK
<1>3. next' \in [Addr -> Pointers] /\ next'[node[t]] = old[t].ptr
      /\ \A a \in Addr \ {node[t]} : next'[a] = next[a]
  BY <1>1, <1>2, TypesOf
<1>4. List' = List /\ ListOK' /\ Linked' = Linked
  <2>1. \A a \in Linked : next'[a] = next[a]
    BY <1>2, <1>3, ListFacts, TypesOf
  <2> QED  BY <1>1, <1>3, <2>1, ListKept
<1>5. /\ \A u \in Threads \ {t} : pc'[u] = pc[u]
      /\ pc'[t] = "swapIn"
  BY <1>1, TypesOf
<1>6. OwnersOK'
  <2>1. t \in Owners' /\ Owner(t)' = Owner(t)
    BY <1>1, <1>5 DEF Owners, Pushing, Owner
  <2> QED  BY <1>1, <1>2, <1>4, <1>5, <2>1, OwnersKept
<1>7. TypeOK'
  <2>1. pc' \in [Threads -> PcValues]
    BY <1>1, TypesOf DEF PcValues
  <2> QED  BY <1>1, <1>3, <1>5, <2>1 DEF IInv, TypeOK, Pointers, PcValues
<1>8. TagsOK'
  BY <1>1 DEF IInv, TagsOK
<1>9. LocalsOK'
  <2> SUFFICES ASSUME NEW u \in Threads
               PROVE  /\ pc'[u] = "swapIn" => next'[node'[u]] = old'[u].ptr
                      /\ pc'[u] \in {"read", "swapOut"} => old'[u].ptr # nullptr
    BY DEF LocalsOK
  <2>1. CASE u = t
    BY <1>1, <1>3, <1>5, <2>1
  <2>2. CASE u # t
    <3>1. pc[u] = "swapIn" => node[u] \in Addr /\ node[u] # node[t]
      BY <1>2, <2>2 DEF IInv, OwnersOK, Owners, Pushing, Owner
    <3> QED  BY <1>1, <1>3, <1>5, <2>2, <3>1 DEF IInv, LocalsOK
  <2> QED  BY <2>1, <2>2
<1>10. SwapOutIsCurrent'
  <2> SUFFICES ASSUME NEW u \in Threads, pc'[u] = "swapOut", head_' = old'[u]
               PROVE  old'[u].ptr \in live' /\ following'[u] = next'[old'[u].ptr]
    BY DEF SwapOutIsCurrent
  <2>1. pc[u] = "swapOut" /\ head_ = old[u]
    BY <1>1, <1>5
  <2>2. old[u].ptr \in Linked /\ old[u].ptr \in Addr
    BY <2>1, HeadIsLinked, TypesOf
  <2> QED  BY <1>1, <1>2, <1>3, <2>1, <2>2 DEF IInv, SwapOutIsCurrent
<1> QED  BY <1>4, <1>6, <1>7, <1>8, <1>9, <1>10 DEF IInv

LEMMA PushSwapKeeps ==
  ASSUME IInv, NEW t \in Threads, pc[t] = "swapIn", SwapHead(t, node[t]), Return(t),
         UNCHANGED heapVars
  PROVE  IInv' /\ List' = <<node[t]>> \o List /\ node[t] \in Addr
<1>1. /\ live' = live /\ value' = value /\ next' = next /\ calls' = calls
      /\ head_ = old[t] /\ head_' = [ptr |-> node[t], tag |-> head_.tag + 1]
      /\ pc' = [pc EXCEPT ![t] = "out"] /\ old' = [old EXCEPT ![t] = Null]
      /\ node' = [node EXCEPT ![t] = nullptr] /\ following' = [following EXCEPT ![t] = nullptr]
  BY DEF SwapHead, Return, heapVars
<1>2. /\ t \in Owners /\ Owner(t) = node[t] /\ node[t] \in Addr /\ node[t] \notin Linked
      /\ next[node[t]] = head_.ptr
  BY <1>1, TypesOf DEF Owners, Pushing, Owner, IInv, OwnersOK, LocalsOK
<1>3. head_' \in [ptr : Pointers, tag : Nat] /\ head_'.ptr = node[t] /\ head_'.tag = head_.tag + 1
      /\ head_.tag \in Nat
  BY <1>1, <1>2, TypesOf DEF Pointers
<1>4. List' = <<node[t]>> \o List /\ ListOK'
  <2> DEFINE s == List  b == node[t]
  <2>1. IsChain(Addr, nullptr, next, head_.ptr, s) /\ \A i \in 1 .. Len(s) : s[i] # b
    BY <1>2, ListFacts DEF IInv, ListOK
  <2> HIDE DEF s
  <2>2. IsChain(Addr, nullptr, next, b, <<b>> \o s)
    BY <1>2, <2>1, ChainPushed
  <2>3. List' = <<b>> \o s /\ ListOK'
    <3>1. next' \in [Addr -> Pointers] /\ IsChain(Addr, nullptr, next', head_'.ptr, <<b>> \o s)
      BY <1>1, <1>3, <2>2, TypesOf
    <3> QED  BY <1>3, <3>1, NewListIs
  <2> QED  BY <2>3 DEF s
<1>5. Linked' = Linked \cup {node[t]}
  <2>1. /\ List' \in Seq(Addr) /\ Len(List') = 1 + Len(List) /\ Len(List) \in Nat
        /\ \A i \in 1 .. 1 + Len(List) : List'[i] = IF i <= 1 THEN <<node[t]>>[i] ELSE List[i - 1]
    <3>1. <<node[t]>> \in Seq(Addr) /\ Len(<<node[t]>>) = 1 /\ List \in Seq(Addr) /\ Len(List) \in Nat
      BY <1>2, ListFacts
    <3> QED  BY <1>4, <3>1, ConcatProperties
  <2>2. Linked' = {List'[i] : i \in 1 .. Len(List')}
    <3>1. DOMAIN List' = 1 .. Len(List')
      BY <2>1, LenProperties
    <3> QED  BY <3>1, Zenon DEF Linked
  <2>3. Linked = {List[i] : i \in 1 .. Len(List)}
    BY ListFacts
  <2>4. List'[1] = node[t] /\ 1 \in 1 .. Len(List') /\
        \A i \in 1 .. Len(List) : i + 1 \in 1 .. Len(List') /\ List'[i + 1] = List[i]
    BY <2>1
  <2>5. \A i \in 1 .. Len(List') : i = 1 \/ (i - 1 \in 1 .. Len(List) /\ List'[i] = List[i - 1])
    BY <2>1
  <2> HIDE DEF Linked
  <2>6. Linked' \subseteq Linked \cup {node[t]}
    BY <2>2, <2>3, <2>4, <2>5
  <2>7. Linked \cup {node[t]} \subseteq Linked'
    BY <2>2, <2>3, <2>4
  <2> QED  BY <2>6, <2>7
<1>6. /\ \A u \in Threads \ {t} : /\ pc'[u] = pc[u] /\ node'[u] = node[u] /\ old'[u] = old[u]
                                  /\ following'[u] = following[u]
      /\ pc'[t] = "out" /\ old'[t] = Null
  BY <1>1, TypesOf
<1>7. OwnersOK'
  <2>1. Owners' = Owners \ {t}
    BY <1>6 DEF Owners, Pushing, Taking
  <2>2. \A u \in Owners' : Owner(u)' = Owner(u)
    BY <1>6 DEF Owners, Pushing, Taking, Owner
  <2> QED  BY <1>1, <1>2, <1>5, <2>1, <2>2 DEF IInv, OwnersOK
<1>8. TypeOK'
  <2>1. /\ live' \subseteq Addr /\ next' \in [Addr -> Pointers]
        /\ value' \in [Addr -> Values \cup {Nothing}]
        /\ old' \in [Threads -> [ptr : Pointers, tag : Nat]]
        /\ node' \in [Threads -> Pointers] /\ following' \in [Threads -> Pointers]
        /\ calls' \in [Threads -> 0 .. MaxCalls] /\ pc' \in [Threads -> PcValues]
    BY <1>1, TypesOf DEF PcValues, Pointers, Null
  <2>2. \A u \in Threads : /\ pc'[u] \in {"link", "swapIn"} => node'[u] \in live'
                           /\ pc'[u] = "take" => old'[u].ptr \in live'
    BY <1>1, <1>6 DEF IInv, TypeOK
  <2> QED  BY <1>3, <2>1, <2>2 DEF TypeOK, Pointers, PcValues
<1>9. /\ head_'.tag # 0
      /\ \A u \in Threads : old'[u].tag \in Nat /\ old'[u].tag < head_'.tag
  BY <1>3, <1>6, TypesOf DEF IInv, TagsOK, Null
<1>10. TagsOK'
  BY <1>3, <1>9 DEF TagsOK
<1>11. LocalsOK'
  BY <1>1, <1>6 DEF IInv, LocalsOK
<1>12. SwapOutIsCurrent'
  BY <1>3, <1>9 DEF SwapOutIsCurrent
<1> QED  BY <1>2, <1>4, <1>7, <1>8, <1>10, <1>11, <1>12 DEF IInv

LEMMA PopSwapKeeps ==
  ASSUME IInv, NEW t \in Threads, Step(t, "swapOut", "take"), SwapHead(t, following[t]),
         UNCHANGED <<heapVars, old, node, following>>
  PROVE  IInv' /\ List # <<>> /\ List' = Tail(List) /\ old[t].ptr = Head(List) /\ Head(List) = List[1]
<1>1. /\ live' = live /\ value' = value /\ next' = next /\ calls' = calls
      /\ old' = old /\ node' = node /\ following' = following
      /\ head_ = old[t] /\ head_' = [ptr |-> following[t], tag |-> head_.tag + 1]
      /\ pc' = [pc EXCEPT ![t] = "take"] /\ pc[t] = "swapOut"
  BY DEF SwapHead, Step, heapVars
<1>2. /\ head_.ptr \in Linked /\ List # <<>> /\ head_.ptr \in live /\ head_.ptr \in Addr
      /\ following[t] = next[head_.ptr]
  BY <1>1, HeadIsLinked, TypesOf DEF IInv, SwapOutIsCurrent
<1>3. /\ head_' \in [ptr : Pointers, tag : Nat] /\ head_'.ptr = following[t]
      /\ head_'.tag = head_.tag + 1 /\ head_.tag \in Nat
  BY <1>1, TypesOf
<1>4. /\ IsChain(Addr, nullptr, next, next[head_.ptr], Tail(List))
      /\ head_.ptr = List[1] /\ Head(List) = List[1] /\ Len(List) \in Nat \ {0}
      /\ Len(Tail(List)) = Len(List) - 1
      /\ \A i \in 1 .. Len(List) - 1 : Tail(List)[i] = List[i + 1]
  <2> DEFINE s == List
  <2>1. IsChain(Addr, nullptr, next, head_.ptr, s) /\ s # <<>>
    BY <1>2 DEF IInv, ListOK
  <2> HIDE DEF s
  <2>2. /\ IsChain(Addr, nullptr, next, next[head_.ptr], Tail(s))
        /\ head_.ptr = s[1] /\ Head(s) = s[1] /\ Len(s) \in Nat \ {0} /\ Len(Tail(s)) = Len(s) - 1
        /\ \A i \in 1 .. Len(s) - 1 : Tail(s)[i] = s[i + 1]
    BY <2>1, ChainPopped
  <2> QED  BY <2>2 DEF s
<1>5. List' = Tail(List) /\ ListOK'
  <2> DEFINE s == Tail(List)
  <2>1. next' \in [Addr -> Pointers] /\ IsChain(Addr, nullptr, next', head_'.ptr, s)
    BY <1>1, <1>2, <1>3, <1>4, TypesOf
  <2> HIDE DEF s
  <2>2. List' = s /\ ListOK'
    BY <1>3, <2>1, NewListIs
  <2> QED  BY <2>2 DEF s
<1>6. Linked' = Linked \ {head_.ptr}
  <2>1. Tail(List) \in Seq(Addr)
    BY <1>2, ListFacts, HeadTailProperties
  <2>2. Linked' = {Tail(List)[i] : i \in 1 .. Len(Tail(List))}
    <3>1. DOMAIN List' = 1 .. Len(Tail(List))
      BY <1>5, <2>1, LenProperties
    <3> QED  BY <1>5, <3>1, Zenon DEF Linked
  <2>3. Linked = {List[i] : i \in 1 .. Len(List)}
        /\ \A i, j \in 1 .. Len(List) : List[i] = List[j] => i = j
    BY ListFacts
  <2>4. \A i \in 1 .. Len(Tail(List)) : /\ i + 1 \in 1 .. Len(List) /\ Tail(List)[i] = List[i + 1]
                                        /\ List[i + 1] # List[1]
    BY <1>4, <2>3
  <2>5. \A i \in 1 .. Len(List) : i = 1 \/ (i - 1 \in 1 .. Len(Tail(List)) /\ Tail(List)[i - 1] = List[i])
    BY <1>4
  <2>6. Linked' \subseteq Linked \ {List[1]}
    BY <2>2, <2>3, <2>4
  <2>7. Linked \ {List[1]} \subseteq Linked'
    BY <2>2, <2>3, <2>5
  <2> QED  BY <1>4, <2>6, <2>7
<1>7. /\ \A u \in Threads \ {t} : pc'[u] = pc[u]
      /\ pc'[t] = "take" /\ t \notin Owners
  BY <1>1, TypesOf DEF Owners, Pushing, Taking
<1>8. OwnersOK'
  <2>1. Owners' = Owners \cup {t}
    BY <1>7 DEF Owners, Pushing, Taking
  <2>2. Owner(t)' = head_.ptr /\ \A u \in Owners : Owner(u)' = Owner(u)
    BY <1>1, <1>7, <2>1 DEF Owners, Pushing, Taking, Owner
  <2> QED  BY <1>1, <1>2, <1>6, <2>1, <2>2 DEF IInv, OwnersOK
<1>9. TypeOK'
  <2>1. pc' \in [Threads -> PcValues]
    BY <1>1, TypesOf DEF PcValues
  <2>2. \A u \in Threads : /\ pc'[u] \in {"link", "swapIn"} => node'[u] \in live'
                           /\ pc'[u] = "take" => old'[u].ptr \in live'
    BY <1>1, <1>2, <1>7 DEF IInv, TypeOK
  <2> QED  BY <1>1, <1>3, <2>1, <2>2 DEF IInv, TypeOK, Pointers, PcValues
<1>10. /\ head_'.tag # 0
       /\ \A u \in Threads : old'[u].tag \in Nat /\ old'[u].tag < head_'.tag
  BY <1>1, <1>3, TypesOf DEF IInv, TagsOK
<1>11. TagsOK'
  BY <1>3, <1>10 DEF TagsOK
<1>12. LocalsOK'
  BY <1>1, <1>7 DEF IInv, LocalsOK
<1>13. SwapOutIsCurrent'
  BY <1>3, <1>10 DEF SwapOutIsCurrent
<1> QED  BY <1>1, <1>2, <1>4, <1>5, <1>8, <1>9, <1>11, <1>12, <1>13 DEF IInv

LEMMA PopTakeKeeps ==
  ASSUME IInv, NEW t \in Threads, PopTake(t)
  PROVE  IInv' /\ List' = List /\ old[t].ptr \in Addr \ Linked
<1> DEFINE x == old[t].ptr
<1>1. /\ pc[t] = "take" /\ live' = live \ {x} /\ value' = [value EXCEPT ![x] = Nothing]
      /\ next' = [next EXCEPT ![x] = nullptr] /\ head_' = head_ /\ calls' = calls
      /\ pc' = [pc EXCEPT ![t] = "out"] /\ old' = [old EXCEPT ![t] = Null]
      /\ node' = [node EXCEPT ![t] = nullptr] /\ following' = [following EXCEPT ![t] = nullptr]
  BY DEF PopTake, Delete, Return
<1>2. t \in Owners /\ Owner(t) = x /\ x \in Addr /\ x \notin Linked
  BY <1>1 DEF Owners, Taking, Owner, IInv, OwnersOK
<1> HIDE DEF x
<1>3. next' \in [Addr -> Pointers] /\ \A a \in Addr \ {x} : next'[a] = next[a]
  BY <1>1, TypesOf DEF Pointers
<1>4. List' = List /\ ListOK' /\ Linked' = Linked
  <2>1. \A a \in Linked : next'[a] = next[a]
    BY <1>2, <1>3, ListFacts, TypesOf
  <2> QED  BY <1>1, <1>3, <2>1, ListKept
<1>5. /\ \A u \in Threads \ {t} : /\ pc'[u] = pc[u] /\ node'[u] = node[u] /\ old'[u] = old[u]
                                  /\ following'[u] = following[u]
      /\ pc'[t] = "out" /\ old'[t] = Null
  BY <1>1, TypesOf
<1>6. Owners' = Owners \ {t} /\ \A u \in Owners' : Owner(u)' = Owner(u)
  BY <1>5 DEF Owners, Pushing, Taking, Owner
<1>7. \A u \in Owners' : Owner(u) # x
  BY <1>2, <1>6 DEF IInv, OwnersOK
<1>8. OwnersOK'
  BY <1>1, <1>2, <1>4, <1>6, <1>7 DEF IInv, OwnersOK
<1>9. TypeOK'
  <2>1. /\ live' \subseteq Addr /\ value' \in [Addr -> Values \cup {Nothing}]
        /\ old' \in [Threads -> [ptr : Pointers, tag : Nat]]
        /\ node' \in [Threads -> Pointers] /\ following' \in [Threads -> Pointers]
        /\ calls' \in [Threads -> 0 .. MaxCalls] /\ pc' \in [Threads -> PcValues]
        /\ head_' \in [ptr : Pointers, tag : Nat]
    BY <1>1, TypesOf DEF PcValues, Pointers, Null
  <2>2. ASSUME NEW u \in Threads
        PROVE  /\ pc'[u] \in {"link", "swapIn"} => node'[u] \in live'
               /\ pc'[u] = "take" => old'[u].ptr \in live'
    <3>1. u = t => pc'[u] \notin {"link", "swapIn", "take"}
      BY <1>5
    <3>2. u # t /\ pc'[u] \in {"link", "swapIn"} => u \in Owners' /\ Owner(u) = node'[u]
      BY <1>5, <1>6 DEF Owners, Pushing, Owner
    <3>3. u # t /\ pc'[u] = "take" => u \in Owners' /\ Owner(u) = old'[u].ptr
      BY <1>5, <1>6 DEF Owners, Taking, Owner
    <3> QED  BY <1>1, <1>5, <1>7, <3>1, <3>2, <3>3 DEF IInv, TypeOK
  <2> QED  BY <1>3, <2>1, <2>2 DEF TypeOK, Pointers, PcValues
<1>10. TagsOK'
  BY <1>1, <1>5, TypesOf DEF IInv, TagsOK, Null
<1>11. LocalsOK'
  <2> SUFFICES ASSUME NEW u \in Threads
               PROVE  /\ pc'[u] = "swapIn" => next'[node'[u]] = old'[u].ptr
                      /\ pc'[u] \in {"read", "swapOut"} => old'[u].ptr # nullptr
    BY DEF LocalsOK
  <2>1. u # t /\ pc'[u] = "swapIn" => node[u] \in Addr /\ node[u] # x
    <3>1. u # t /\ pc'[u] = "swapIn" => u \in Owners' /\ Owner(u) = node[u]
      BY <1>5, <1>6 DEF Owners, Pushing, Owner
    <3> QED  BY <1>6, <1>7, <3>1 DEF IInv, OwnersOK
  <2> QED  BY <1>3, <1>5, <2>1 DEF IInv, LocalsOK
<1>12. SwapOutIsCurrent'
  <2> SUFFICES ASSUME NEW u \in Threads, pc'[u] = "swapOut", head_' = old'[u]
               PROVE  old'[u].ptr \in live' /\ following'[u] = next'[old'[u].ptr]
    BY DEF SwapOutIsCurrent
  <2>1. u # t /\ pc[u] = "swapOut" /\ head_ = old[u]
    BY <1>1, <1>5
  <2>2. old[u].ptr \in Linked /\ old[u].ptr \in live /\ old[u].ptr \in Addr
    BY <2>1, HeadIsLinked, TypesOf
  <2> QED  BY <1>1, <1>2, <1>3, <1>5, <2>1, <2>2 DEF IInv, SwapOutIsCurrent
<1> QED  BY <1>2, <1>4, <1>8, <1>9, <1>10, <1>11, <1>12 DEF IInv, x

-----------------------------------------------------------------------------
LEMMA StutterKeeps == ASSUME IInv, UNCHANGED stackVars PROVE IInv' /\ List' = List
<1>1. /\ head_' = head_ /\ live' = live /\ value' = value /\ next' = next /\ pc' = pc /\ old' = old
      /\ node' = node /\ following' = following /\ calls' = calls
  BY DEF stackVars, heapVars
<1>2. List' = List /\ ListOK' /\ Linked' = Linked
  BY <1>1, TypesOf, ListKept
<1>3. OwnersOK'
  BY <1>1, <1>2 DEF IInv, OwnersOK, Owners, Owner, Pushing, Taking
<1>4. TypeOK' /\ TagsOK' /\ LocalsOK' /\ SwapOutIsCurrent'
  BY <1>1 DEF IInv, TypeOK, TagsOK, LocalsOK, SwapOutIsCurrent
<1> QED  BY <1>2, <1>3, <1>4 DEF IInv

LEMMA NextInv == ASSUME IInv, [Next]_stackVars PROVE IInv'
<1>1. CASE UNCHANGED stackVars
  BY <1>1, StutterKeeps
<1>2. ASSUME NEW t \in Threads, NEW v \in Values, PushStart(t, v) PROVE IInv'
  BY <1>2, PushStartKeeps
<1>3. ASSUME NEW t \in Threads, PopStart(t) PROVE IInv'
  BY <1>3, PopStartKeeps
<1>4. ASSUME NEW t \in Threads, InPush(t) PROVE IInv'
  <2>1. CASE PushLink(t)
    BY <2>1, PushLinkKeeps
  <2>2. CASE PushSwap(t)
    BY <2>2, PushSwapKeeps, FailedPushSwap DEF PushSwap
  <2> QED  BY <1>4, <2>1, <2>2 DEF InPush
<1>5. ASSUME NEW t \in Threads, InPop(t) PROVE IInv'
  <2>1. CASE PopLoad(t)
    BY <2>1, ProceedKeeps DEF PopLoad
  <2>2. CASE PopReadNext(t)
    BY <2>2, PopReadNextKeeps
  <2>3. CASE PopSwap(t)
    BY <2>3, PopSwapKeeps, ProceedKeeps DEF PopSwap
  <2>4. CASE PopTake(t)
    BY <2>4, PopTakeKeeps
  <2>5. CASE PopEmpty(t)
    BY <2>5, PopEmptyKeeps
  <2> QED  BY <1>5, <2>1, <2>2, <2>3, <2>4, <2>5 DEF InPop
<1> QED  BY <1>1, <1>2, <1>3, <1>4, <1>5 DEF Next

(* What the names of the invariant say follows from it.                    *)
LEMMA OwnersAreCounted == ASSUME IInv PROVE OneOwner
<1> DEFINE owned == {node[t] : t \in Pushing} \cup {old[t].ptr : t \in Taking}
<1>1. owned = {Owner(t) : t \in Owners} /\ Pushing \cap Taking = {}
  BY DEF Owners, Owner, Pushing, Taking
<1>2. owned \subseteq Addr /\ Linked \cap owned = {} /\ live = Linked \cup owned
  BY <1>1 DEF IInv, OwnersOK
<1>3. IsFiniteSet(owned)
  BY <1>2, AddrFacts, FS_Subset
<1>4. [t \in Owners |-> Owner(t)] \in Bijection(Owners, owned)
  <2> DEFINE f == [t \in Owners |-> Owner(t)]
  <2>1. \A t, u \in Owners : f[t] = f[u] => t = u
    BY DEF IInv, OwnersOK
  <2>2. f \in [Owners -> owned] /\ \A a \in owned : \E t \in Owners : f[t] = a
    BY <1>1
  <2> HIDE DEF f, owned
  <2> QED  BY <2>1, <2>2 DEF f, Bijection, Injection, Surjection, IsInjective
<1> HIDE DEF owned
<1>5. IsFiniteSet(Owners) /\ Cardinality(owned) = Cardinality(Owners)
  BY <1>3, <1>4, FS_Injection DEF Bijection
<1>6. Cardinality(Owners) = Cardinality(Pushing) + Cardinality(Taking)
  <2>1. IsFiniteSet(Pushing) /\ IsFiniteSet(Taking)
    <3>1. Pushing \subseteq Owners /\ Taking \subseteq Owners
      BY DEF Owners
    <3> QED  BY <1>5, <3>1, FS_Subset
  <2>2. Cardinality(Pushing) \in Nat /\ Cardinality(Taking) \in Nat
    BY <2>1, FS_CardinalityType
  <2>3. Cardinality(Pushing \cup Taking) = Cardinality(Pushing) + Cardinality(Taking) - Cardinality(Pushing \cap Taking)
    BY <2>1, FS_Union
  <2>4. Cardinality(Pushing \cap Taking) = 0
    BY <1>1, FS_EmptySet
  <2> QED  BY <2>2, <2>3, <2>4 DEF Owners
<1>7. Len(List) = Cardinality(Linked)
  <2> DEFINE s == List
  <2>1. s \in Seq(Addr) /\ \A i, j \in 1 .. Len(s) : s[i] = s[j] => i = j
    BY ListFacts
  <2>2. Linked = {s[i] : i \in 1 .. Len(s)}
    BY ListFacts
  <2> HIDE DEF s
  <2>3. Cardinality({s[i] : i \in 1 .. Len(s)}) = Len(s)
    BY <2>1, AddrFacts, ChainIsShort
  <2> QED  BY <2>2, <2>3 DEF s
<1> QED  BY <1>2, <1>5, <1>6, <1>7 DEF OneOwner, owned

LEMMA AlwaysInv == Spec => []IInv
BY StartInv, NextInv, PTL DEF Spec

(* Values have their types; a thread writes or deletes live nodes only.    *)
THEOREM StackTypes == Spec => []TypeOK
<1>1. IInv => TypeOK
  BY DEF IInv
<1> QED  BY <1>1, AlwaysInv, PTL

(* Every allocated node has one owner, whatever the interleaving of pushes *)
(* and pops: none is leaked, deleted twice, or deleted while on the list.  *)
THEOREM StackNodesHaveOneOwner == Spec => []OneOwner
BY AlwaysInv, OwnersAreCounted, PTL

(* The tag defeats ABA: an exchange of pop that can succeed puts in the    *)
(* next of the node that is the head, though that node may have been       *)
(* deleted and pushed again since it was read.                             *)
THEOREM TagDefeatsABA == Spec => []SwapOutIsCurrent
<1>1. IInv => SwapOutIsCurrent
  BY DEF IInv
<1> QED  BY <1>1, AlwaysInv, PTL

-----------------------------------------------------------------------------
(* The abstract stack, as the refinement maps it.                          *)
Stack == [n \in DOMAIN List |-> value[List[n]]]
Phases == [t \in Threads |-> Phase(t)]
Data == [t \in Threads |-> Datum(t)]

(* A step of t that changes the value of at most one node, x, which is not *)
(* another thread's: the other threads look the same.                      *)
LEMMA OthersLookTheSame ==
  ASSUME IInv, NEW t \in Threads,
         \A u \in Threads \ {t} : pc'[u] = pc[u] /\ node'[u] = node[u] /\ old'[u] = old[u],
         NEW x, \A a \in Addr \ {x} : value'[a] = value[a],
         \A u \in Owners \ {t} : Owner(u) # x
  PROVE  /\ Phases' = [Phases EXCEPT ![t] = Phase(t)']
         /\ Data' = [Data EXCEPT ![t] = Datum(t)']
<1>1. \A u \in Threads \ {t} : Phase(u)' = Phase(u)
  BY DEF Phase
<1>2. ASSUME NEW u \in Threads \ {t} PROVE Datum(u)' = Datum(u)
  <2>1. CASE pc[u] \in {"link", "swapIn"}
    <3>1. u \in Owners /\ Owner(u) = node[u]
      BY <2>1 DEF Owners, Pushing, Owner
    <3>2. value'[node[u]] = value[node[u]]
      BY <3>1 DEF IInv, OwnersOK
    <3> QED  BY <2>1, <3>2 DEF Datum
  <2>2. CASE pc[u] = "take"
    <3>1. u \in Owners /\ Owner(u) = old[u].ptr
      BY <2>2 DEF Owners, Taking, Owner
    <3>2. value'[old[u].ptr] = value[old[u].ptr]
      BY <3>1 DEF IInv, OwnersOK
    <3> QED  BY <2>2, <3>2 DEF Datum
  <2>3. CASE pc[u] \notin {"link", "swapIn", "take"}
    BY <2>3 DEF Datum
  <2> QED  BY <2>1, <2>2, <2>3
<1>3. Phases' = [Phases EXCEPT ![t] = Phase(t)']
  BY <1>1 DEF Phases
<1>4. Data' = [Data EXCEPT ![t] = Datum(t)']
  BY <1>2 DEF Data
<1> QED  BY <1>3, <1>4

(* Nor does the stack, if x is not on the list.                            *)
LEMMA StackLooksTheSame ==
  ASSUME IInv, List' = List, NEW x, x \notin Linked, \A a \in Addr \ {x} : value'[a] = value[a]
  PROVE  Stack' = Stack
<1>1. \A i \in DOMAIN List : List[i] \in Addr /\ List[i] # x
  BY ListFacts DEF Linked
<1> QED  BY <1>1 DEF Stack

(* A step that changes no value and no list.                               *)
LEMMA LocalLooks ==
  ASSUME IInv, NEW t \in Threads, List' = List, value' = value,
         \A u \in Threads \ {t} : pc'[u] = pc[u] /\ node'[u] = node[u] /\ old'[u] = old[u]
  PROVE  /\ Stack' = Stack
         /\ Phases' = [Phases EXCEPT ![t] = Phase(t)']
         /\ Data' = [Data EXCEPT ![t] = Datum(t)']
<1>1. nullptr \notin Linked /\ \A u \in Owners : Owner(u) # nullptr
  BY ListFacts, TypesOf, AddrFacts DEF IInv, OwnersOK
<1> QED  BY <1>1, OthersLookTheSame, StackLooksTheSame

LEMMA StackOf ==
  ASSUME IInv
  PROVE  /\ Stack = <<>> <=> List = <<>>
         /\ Stack \in Seq(Values \cup {Nothing}) /\ Len(Stack) = Len(List)
         /\ \A i \in 1 .. Len(List) : Stack[i] = value[List[i]]
<1>1. /\ List \in Seq(Addr) /\ Len(List) \in Nat /\ DOMAIN List = 1 .. Len(List)
      /\ \A i \in 1 .. Len(List) : value[List[i]] \in Values \cup {Nothing}
  BY ListFacts, TypesOf
<1>2. Stack = [n \in 1 .. Len(List) |-> value[List[n]]]
  BY <1>1 DEF Stack
<1>3. Stack \in Seq(Values \cup {Nothing}) /\ Len(Stack) = Len(List)
  BY <1>1, <1>2
<1> QED  BY <1>1, <1>2, <1>3, EmptySeq

(* The abstract actions, of what the stack looks like.                     *)
Looks(t, p, d) == /\ Phases' = [Phases EXCEPT ![t] = p]
                  /\ Data' = [Data EXCEPT ![t] = d]

LEMMA AbstractSteps ==
  ASSUME NEW t \in Threads
  PROVE  /\ \A v \in Values : Phases[t] = "idle" /\ Looks(t, "push", v) /\ Stack' = Stack => Atomic!Next
         /\ Phases[t] = "idle" /\ Looks(t, "pop", Nothing) /\ Stack' = Stack => Atomic!Next
         /\ Phases[t] = "push" /\ Stack' = <<Data[t]>> \o Stack /\ Looks(t, "idle", Nothing) => Atomic!Next
         /\ /\ Phases[t] = "pop" /\ Stack # <<>> /\ Stack' = Tail(Stack)
            /\ Looks(t, "done", Head(Stack))
            => Atomic!Next
         /\ /\ Phases[t] = "pop" /\ Stack = <<>> /\ Looks(t, "done", Nothing) /\ Stack' = Stack
            => Atomic!Next
         /\ Phases[t] = "done" /\ Looks(t, "idle", Nothing) /\ Stack' = Stack => Atomic!Next
<1> USE DEF Looks, Stack, Phases, Data, Atomic!Set
<1>1. /\ \A v \in Values : Phases[t] = "idle" /\ Looks(t, "push", v) /\ Stack' = Stack => Atomic!CallPush(t, v)
      /\ Phases[t] = "idle" /\ Looks(t, "pop", Nothing) /\ Stack' = Stack => Atomic!CallPop(t)
  BY DEF Atomic!CallPush, Atomic!CallPop
<1>2. Phases[t] = "push" /\ Stack' = <<Data[t]>> \o Stack /\ Looks(t, "idle", Nothing) => Atomic!DoPush(t)
  BY DEF Atomic!DoPush
<1>3. /\ Phases[t] = "pop" /\ Stack # <<>> /\ Stack' = Tail(Stack)
      /\ Looks(t, "done", Head(Stack))
      => Atomic!DoPop(t)
  BY Zenon DEF Atomic!DoPop
<1>4. /\ Phases[t] = "pop" /\ Stack = <<>> /\ Looks(t, "done", Nothing) /\ Stack' = Stack
      => Atomic!DoPopEmpty(t)
  BY DEF Atomic!DoPopEmpty
<1>5. Phases[t] = "done" /\ Looks(t, "idle", Nothing) /\ Stack' = Stack => Atomic!Return(t)
  BY DEF Atomic!Return
<1> QED  BY <1>1, <1>2, <1>3, <1>4, <1>5, Zenon DEF Atomic!Next

LEMMA AbstractStutter == Stack' = Stack /\ Phases' = Phases /\ Data' = Data => UNCHANGED Atomic!vars
BY DEF Stack, Phases, Data, Atomic!vars

(* Each step is a step of the abstract stack, or none.                     *)
LEMMA PushStartMaps ==
  ASSUME IInv, NEW t \in Threads, NEW v \in Values, PushStart(t, v) PROVE Atomic!Next
<1>1. /\ List' = List /\ node'[t] \in Addr \ live /\ value' = [value EXCEPT ![node'[t]] = v]
  BY PushStartKeeps
<1>2. /\ pc[t] = "out" /\ pc'[t] = "link"
      /\ \A u \in Threads \ {t} : pc'[u] = pc[u] /\ node'[u] = node[u] /\ old'[u] = old[u]
  BY TypesOf DEF PushStart, Call, Keep, New
<1> DEFINE x == node'[t]
<1>3. /\ \A a \in Addr \ {x} : value'[a] = value[a]
      /\ value'[x] = v
      /\ x \notin Linked /\ \A u \in Owners : Owner(u) # x
  BY <1>1, TypesOf, ListFacts DEF IInv, OwnersOK
<1>4. Phase(t)' = "push" /\ Datum(t)' = v /\ Phases[t] = "idle"
  BY <1>2, <1>3 DEF Phase, Datum, Phases
<1> HIDE DEF x
<1>5. Stack' = Stack
  BY <1>1, <1>3, StackLooksTheSame
<1>6. Looks(t, "push", v)
  BY <1>2, <1>3, <1>4, OthersLookTheSame DEF Looks
<1> QED  BY <1>4, <1>5, <1>6, AbstractSteps

LEMMA PopStartMaps == ASSUME IInv, NEW t \in Threads, PopStart(t) PROVE Atomic!Next
<1>1. /\ List' = List /\ value' = value /\ pc[t] = "out" /\ pc'[t] = "load"
      /\ \A u \in Threads \ {t} : pc'[u] = pc[u] /\ node'[u] = node[u] /\ old'[u] = old[u]
  BY PopStartKeeps, TypesOf DEF PopStart, Call, heapVars
<1>2. Phase(t)' = "pop" /\ Datum(t)' = Nothing /\ Phases[t] = "idle"
  BY <1>1 DEF Phase, Datum, Phases
<1>3. Stack' = Stack /\ Looks(t, "pop", Nothing)
  BY <1>1, <1>2, LocalLooks DEF Looks
<1> QED  BY <1>2, <1>3, AbstractSteps

(* The steps that the abstract stack does not see.                         *)
LEMMA QuietStep ==
  ASSUME IInv, NEW t \in Threads, List' = List, value' = value,
         \A u \in Threads \ {t} : pc'[u] = pc[u] /\ node'[u] = node[u] /\ old'[u] = old[u],
         Phase(t)' = Phase(t), Datum(t)' = Datum(t)
  PROVE  UNCHANGED Atomic!vars
<1>1. Stack' = Stack /\ Phases' = [Phases EXCEPT ![t] = Phase(t)] /\ Data' = [Data EXCEPT ![t] = Datum(t)]
  BY LocalLooks
<1>2. Phases' = Phases /\ Data' = Data
  BY <1>1 DEF Phases, Data
<1> QED  BY <1>1, <1>2, AbstractStutter

LEMMA PushLinkMaps == ASSUME IInv, NEW t \in Threads, PushLink(t) PROVE UNCHANGED Atomic!vars
<1>1. /\ List' = List /\ value' = value /\ pc[t] = "link" /\ pc'[t] = "swapIn" /\ node'[t] = node[t]
      /\ \A u \in Threads \ {t} : pc'[u] = pc[u] /\ node'[u] = node[u] /\ old'[u] = old[u]
  BY PushLinkKeeps, TypesOf DEF PushLink, Step
<1>2. Phase(t)' = Phase(t) /\ Datum(t)' = Datum(t)
  BY <1>1 DEF Phase, Datum
<1> QED  BY <1>1, <1>2, QuietStep

LEMMA FailedPushMaps ==
  ASSUME IInv, NEW t \in Threads, Step(t, "swapIn", "link"), Keep(t, head_),
         UNCHANGED <<head_, heapVars, node, following>>
  PROVE  UNCHANGED Atomic!vars
<1>1. /\ List' = List /\ value' = value /\ pc[t] = "swapIn" /\ pc'[t] = "link" /\ node'[t] = node[t]
      /\ \A u \in Threads \ {t} : pc'[u] = pc[u] /\ node'[u] = node[u] /\ old'[u] = old[u]
  BY FailedPushSwap, TypesOf DEF Step, Keep, heapVars
<1>2. Phase(t)' = Phase(t) /\ Datum(t)' = Datum(t)
  BY <1>1 DEF Phase, Datum
<1> QED  BY <1>1, <1>2, QuietStep

LEMMA PopReadNextMaps == ASSUME IInv, NEW t \in Threads, PopReadNext(t) PROVE UNCHANGED Atomic!vars
<1>1. /\ List' = List /\ value' = value /\ pc[t] = "read" /\ pc'[t] = "swapOut"
      /\ \A u \in Threads \ {t} : pc'[u] = pc[u] /\ node'[u] = node[u] /\ old'[u] = old[u]
  BY PopReadNextKeeps, TypesOf DEF PopReadNext, Step, heapVars
<1>2. Phase(t)' = Phase(t) /\ Datum(t)' = Datum(t)
  BY <1>1 DEF Phase, Datum
<1> QED  BY <1>1, <1>2, QuietStep

(* A pop that finds a null head takes effect there, on an empty stack.     *)
LEMMA ProceedMaps ==
  ASSUME IInv, NEW t \in Threads, NEW here \in {"load", "swapOut"}, Proceed(t, here)
  PROVE  Atomic!Next \/ UNCHANGED Atomic!vars
<1>1. /\ List' = List /\ value' = value /\ pc[t] \in {"load", "swapOut"}
      /\ pc'[t] = IF head_.ptr = nullptr THEN "empty" ELSE "read"
      /\ \A u \in Threads \ {t} : pc'[u] = pc[u] /\ node'[u] = node[u] /\ old'[u] = old[u]
  BY ProceedKeeps, TypesOf DEF Proceed, Step, Keep, heapVars
<1>2. CASE head_.ptr = nullptr
  <2>1. Stack = <<>>
    BY <1>2, ListFacts, StackOf
  <2>2. Phase(t)' = "done" /\ Datum(t)' = Nothing /\ Phases[t] = "pop"
    BY <1>1, <1>2 DEF Phase, Datum, Phases
  <2>3. Stack' = Stack /\ Looks(t, "done", Nothing)
    BY <1>1, <2>2, LocalLooks DEF Looks
  <2> QED  BY <2>1, <2>2, <2>3, AbstractSteps
<1>3. CASE head_.ptr # nullptr
  <2>1. Phase(t)' = Phase(t) /\ Datum(t)' = Datum(t)
    BY <1>1, <1>3 DEF Phase, Datum
  <2> QED  BY <1>1, <2>1, QuietStep
<1> QED  BY <1>2, <1>3

LEMMA PopEmptyMaps == ASSUME IInv, NEW t \in Threads, PopEmpty(t) PROVE Atomic!Next
<1>1. /\ List' = List /\ value' = value /\ pc[t] = "empty" /\ pc'[t] = "out"
      /\ \A u \in Threads \ {t} : pc'[u] = pc[u] /\ node'[u] = node[u] /\ old'[u] = old[u]
  BY PopEmptyKeeps, TypesOf DEF PopEmpty, Return, heapVars
<1>2. Phase(t)' = "idle" /\ Datum(t)' = Nothing /\ Phases[t] = "done"
  BY <1>1 DEF Phase, Datum, Phases
<1>3. Stack' = Stack /\ Looks(t, "idle", Nothing)
  BY <1>1, <1>2, LocalLooks DEF Looks
<1> QED  BY <1>2, <1>3, AbstractSteps

LEMMA PopTakeMaps == ASSUME IInv, NEW t \in Threads, PopTake(t) PROVE Atomic!Next
<1> DEFINE x == old[t].ptr
<1>1. /\ List' = List /\ x \in Addr \ Linked /\ pc[t] = "take" /\ pc'[t] = "out"
      /\ \A a \in Addr \ {x} : value'[a] = value[a]
      /\ \A u \in Threads \ {t} : pc'[u] = pc[u] /\ node'[u] = node[u] /\ old'[u] = old[u]
  BY PopTakeKeeps, TypesOf DEF PopTake, Return, Delete
<1>2. t \in Owners /\ Owner(t) = x
  BY <1>1 DEF Owners, Taking, Owner
<1> HIDE DEF x
<1>3. \A u \in Owners \ {t} : Owner(u) # x
  BY <1>2 DEF IInv, OwnersOK
<1>4. Phase(t)' = "idle" /\ Datum(t)' = Nothing /\ Phases[t] = "done"
  BY <1>1 DEF Phase, Datum, Phases
<1>5. Stack' = Stack
  BY <1>1, StackLooksTheSame
<1>6. Looks(t, "idle", Nothing)
  BY <1>1, <1>3, <1>4, OthersLookTheSame DEF Looks
<1> QED  BY <1>4, <1>5, <1>6, AbstractSteps

(* The exchange of a push puts its value on top.                           *)
LEMMA PushSwapMaps ==
  ASSUME IInv, NEW t \in Threads, pc[t] = "swapIn", SwapHead(t, node[t]), Return(t),
         UNCHANGED heapVars
  PROVE  Atomic!Next
<1>1. IInv' /\ List' = <<node[t]>> \o List /\ node[t] \in Addr
  BY PushSwapKeeps
<1>2. /\ value' = value /\ pc'[t] = "out"
      /\ \A u \in Threads \ {t} : pc'[u] = pc[u] /\ node'[u] = node[u] /\ old'[u] = old[u]
  BY TypesOf DEF Return, heapVars
<1> DEFINE d == value[node[t]]
<1>3. Phase(t)' = "idle" /\ Datum(t)' = Nothing /\ Phases[t] = "push" /\ Data[t] = d
  BY <1>2 DEF Phase, Datum, Phases, Data
<1>4. Stack' = <<d>> \o Stack
  <2>1. /\ List \in Seq(Addr) /\ Len(List) \in Nat /\ <<node[t]>> \in Seq(Addr) /\ Len(<<node[t]>>) = 1
    BY <1>1, ListFacts
  <2>2. /\ List' \in Seq(Addr) /\ Len(List') = Len(List) + 1
        /\ \A i \in 1 .. Len(List) + 1 : List'[i] = IF i <= 1 THEN node[t] ELSE List[i - 1]
    BY <1>1, <2>1, ConcatProperties
  <2>3. DOMAIN List' = 1 .. Len(List) + 1
    BY <2>1, <2>2, LenProperties
  <2>4. Stack' = [i \in 1 .. Len(List) + 1 |-> value[List'[i]]]
    BY <1>2, <2>3 DEF Stack
  <2>5. /\ Stack \in Seq(Values \cup {Nothing}) /\ Len(Stack) = Len(List)
        /\ \A i \in 1 .. Len(List) : Stack[i] = value[List[i]]
    BY StackOf
  <2>6. d \in Values \cup {Nothing}
    BY <1>1, TypesOf
  <2> DEFINE r == <<d>> \o Stack
  <2>7. <<d>> \in Seq(Values \cup {Nothing}) /\ Len(<<d>>) = 1 /\ <<d>>[1] = d
    BY <2>6
  <2>8. /\ r \in Seq(Values \cup {Nothing}) /\ Len(r) = 1 + Len(Stack)
        /\ \A i \in 1 .. 1 + Len(Stack) : r[i] = IF i <= 1 THEN <<d>>[i] ELSE Stack[i - 1]
    <3> HIDE DEF Stack, d
    <3> QED  BY <2>5, <2>7, ConcatProperties
  <2> HIDE DEF r, Stack, d
  <2>9. r = [i \in 1 .. Len(r) |-> r[i]]
    BY <2>8
  <2>10. ASSUME NEW i \in 1 .. Len(List) + 1 PROVE r[i] = value[List'[i]]
    <3>1. CASE i = 1
      BY <2>1, <2>2, <2>5, <2>7, <2>8, <3>1 DEF d
    <3>2. CASE i # 1
      <4>1. i - 1 \in 1 .. Len(List) /\ ~ (i <= 1)
        BY <2>1, <3>2
      <4>2. r[i] = Stack[i - 1] /\ List'[i] = List[i - 1]
        BY <2>2, <2>5, <2>8, <4>1
      <4> QED  BY <2>5, <4>1, <4>2
    <3> QED  BY <3>1, <3>2
  <2>11. Len(r) = Len(List) + 1
    BY <2>1, <2>5, <2>8
  <2>12. Stack' = r
    BY <2>4, <2>9, <2>10, <2>11
  <2> QED  BY <2>12 DEF r
<1> HIDE DEF d
<1>5. nullptr \notin Addr /\ \A u \in Owners : Owner(u) # nullptr
  BY AddrFacts DEF IInv, OwnersOK
<1>6. Looks(t, "idle", Nothing)
  BY <1>2, <1>3, <1>5, OthersLookTheSame DEF Looks
<1> QED  BY <1>3, <1>4, <1>6, AbstractSteps

(* The exchange of a pop takes the value off the top.                      *)
LEMMA PopSwapMaps ==
  ASSUME IInv, NEW t \in Threads, Step(t, "swapOut", "take"), SwapHead(t, following[t]),
         UNCHANGED <<heapVars, old, node, following>>
  PROVE  Atomic!Next
<1>1. /\ List # <<>> /\ List' = Tail(List) /\ old[t].ptr = List[1]
  BY PopSwapKeeps
<1>2. /\ value' = value /\ pc[t] = "swapOut" /\ pc'[t] = "take" /\ old' = old
      /\ \A u \in Threads \ {t} : pc'[u] = pc[u] /\ node'[u] = node[u] /\ old'[u] = old[u]
  BY TypesOf DEF Step, heapVars
<1>3. /\ Stack # <<>> /\ Len(Stack) = Len(List) /\ Stack \in Seq(Values \cup {Nothing})
      /\ \A i \in 1 .. Len(List) : Stack[i] = value[List[i]]
  BY <1>1, StackOf
<1>4. Len(List) \in Nat \ {0} /\ List \in Seq(Addr)
  BY <1>1, ListFacts, EmptySeq
<1>5. Head(Stack) = value[List[1]]
  <2>1. Head(Stack) = Stack[1]
    OBVIOUS
  <2> QED  BY <1>3, <1>4, <2>1
<1>6. Phase(t)' = "done" /\ Datum(t)' = Head(Stack) /\ Phases[t] = "pop"
  BY <1>1, <1>2, <1>5 DEF Phase, Datum, Phases
<1>7. Stack' = Tail(Stack)
  <2>1. /\ Tail(List) \in Seq(Addr) /\ Len(Tail(List)) = Len(List) - 1
        /\ \A i \in 1 .. Len(List) - 1 : Tail(List)[i] = List[i + 1]
    BY <1>1, <1>4, HeadTailProperties
  <2>2. DOMAIN List' = 1 .. Len(List) - 1
    BY <1>1, <2>1, LenProperties
  <2>3. Stack' = [i \in 1 .. Len(List) - 1 |-> value[List'[i]]]
    BY <1>2, <2>2 DEF Stack
  <2> HIDE DEF Stack
  <2>4. /\ Tail(Stack) \in Seq(Values \cup {Nothing}) /\ Len(Tail(Stack)) = Len(Stack) - 1
        /\ \A i \in 1 .. Len(Stack) - 1 : Tail(Stack)[i] = Stack[i + 1]
    BY <1>3, HeadTailProperties
  <2> DEFINE r == Tail(Stack)
  <2>5. r = [i \in 1 .. Len(r) |-> r[i]]
    <3>1. r \in Seq(Values \cup {Nothing})
      BY <2>4
    <3> HIDE DEF r
    <3> QED  BY <3>1
  <2>6. \A i \in 1 .. Len(List) - 1 : r[i] = value[List'[i]]
    BY <1>1, <1>3, <1>4, <2>1, <2>4
  <2> HIDE DEF r
  <2> QED  BY <1>3, <2>3, <2>4, <2>5, <2>6 DEF r
<1>8. nullptr \notin Addr /\ \A u \in Owners : Owner(u) # nullptr
  BY AddrFacts DEF IInv, OwnersOK
<1>9. Looks(t, "done", Head(Stack))
  <2> HIDE DEF Stack
  <2> QED  BY <1>2, <1>6, <1>8, OthersLookTheSame DEF Looks
<1> QED  BY <1>3, <1>6, <1>7, <1>9, AbstractSteps

LEMMA StartMaps == Init => Atomic!Init
<1> SUFFICES ASSUME Init PROVE Atomic!Init
  OBVIOUS
<1>1. IInv /\ head_.ptr = nullptr
  BY StartInv DEF Init, StackInit, Null
<1>2. Stack = <<>>
  BY <1>1, ListFacts, StackOf
<1>3. Phases = [t \in Threads |-> "idle"] /\ Data = [t \in Threads |-> Nothing]
  BY DEF Init, StackInit, Phases, Phase, Data, Datum
<1> QED  BY <1>2, <1>3 DEF Atomic!Init, Stack, Phases, Data

LEMMA NextMaps == ASSUME IInv, [Next]_stackVars PROVE [Atomic!Next]_Atomic!vars
<1>1. CASE UNCHANGED stackVars
  <2>1. List' = List /\ value' = value /\ pc' = pc /\ node' = node /\ old' = old
    BY <1>1, StutterKeeps DEF stackVars, heapVars
  <2>2. Stack' = Stack /\ Phases' = Phases /\ Data' = Data
    BY <2>1 DEF Stack, Phases, Phase, Data, Datum
  <2> QED  BY <2>2, AbstractStutter
<1>2. ASSUME NEW t \in Threads, InPush(t) PROVE [Atomic!Next]_Atomic!vars
  <2>1. CASE PushLink(t)
    BY <2>1, PushLinkMaps
  <2>2. CASE PushSwap(t)
    BY <2>2, PushSwapMaps, FailedPushMaps DEF PushSwap
  <2> QED  BY <1>2, <2>1, <2>2 DEF InPush
<1>3. ASSUME NEW t \in Threads, InPop(t) PROVE [Atomic!Next]_Atomic!vars
  <2>1. CASE PopLoad(t)
    BY <2>1, ProceedMaps DEF PopLoad
  <2>2. CASE PopReadNext(t)
    BY <2>2, PopReadNextMaps
  <2>3. CASE PopSwap(t)
    BY <2>3, PopSwapMaps, ProceedMaps DEF PopSwap
  <2>4. CASE PopTake(t)
    BY <2>4, PopTakeMaps
  <2>5. CASE PopEmpty(t)
    BY <2>5, PopEmptyMaps
  <2> QED  BY <1>3, <2>1, <2>2, <2>3, <2>4, <2>5 DEF InPop
<1> QED  BY <1>1, <1>2, <1>3, PushStartMaps, PopStartMaps DEF Next

(* The class is a linearizable stack: a push takes effect at its exchange, *)
(* a pop at its exchange or where it finds a null head.                    *)
THEOREM StackIsLinearizable == Spec => Linearizable
<1>1. Spec => Atomic!Init
  BY StartMaps DEF Spec
<1>2. []IInv /\ [][Next]_stackVars => [][Atomic!Next]_Atomic!vars
  BY NextMaps, PTL
<1> QED  BY <1>1, <1>2, AlwaysInv, PTL DEF Spec, Linearizable, Atomic!Spec
=============================================================================
