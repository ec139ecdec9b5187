------------------------- MODULE BoundedBufferMain -------------------------
(***************************************************************************)
(* The program of concurrency/bounded_buffer.cpp: producers push a fixed   *)
(* number of items each; consumers first take a ticket with a compare-and- *)
(* swap on consumed and only then pop, so that together they pop exactly   *)
(* as often as items are pushed and none is left waiting at the end.       *)
(***************************************************************************)
EXTENDS BoundedBuffer, SequencesExt

CONSTANTS kProducers, kItemsPerProducer   \* 3 and 20 in the code

ASSUME MainAssumption ==
  /\ kProducers \in Nat /\ kItemsPerProducer \in Nat \ {0} /\ Consumers # {}
  /\ Producers = 0 .. kProducers - 1
  /\ Items = Producers \X (0 .. kItemsPerProducer - 1)

kTotal == kProducers * kItemsPerProducer

(* The value pushed for item number i of producer p.                       *)
Value(x) == x[1] * 100 + x[2]

VARIABLES consumed,  \* the atomic ticket counter
          total,     \* the atomic sum
          step,      \* per thread: "push" or, for consumers, "load", "cas",
                     \* "pop", "add"; "done" at the end of its loop
          i,         \* per producer: items pushed
          prev,      \* per consumer: the ticket it has loaded
          got,       \* per consumer: the items it has popped, in order
          joined

mainVars == <<consumed, total, step, i, prev, got, joined>>
vars == <<bufferVars, mainVars>>

MainInit ==
  /\ buf_ = <<>>
  /\ pc = [t \in Threads |-> "out"]
  /\ item = [p \in Producers |-> <<p, 0>>]
  /\ consumed = 0 /\ total = 0
  /\ step = [t \in Threads |-> IF t \in Producers THEN "push" ELSE "load"]
  /\ i = [p \in Producers |-> 0]
  /\ prev = [c \in Consumers |-> 0]
  /\ got = [c \in Consumers |-> <<>>]
  /\ joined = FALSE

Goto(t, there) == step' = [step EXCEPT ![t] = there]

-----------------------------------------------------------------------------
(* Mistakes the checks are tested with: a ticket taken without comparing,  *)
(* and loops that take one ticket too many or too few.                     *)
TakeTicketBlindly(c) ==
  /\ step[c] = "cas"
  /\ consumed' = prev[c] + 1 /\ Goto(c, "pop")
  /\ UNCHANGED <<bufferVars, total, i, prev, got, joined>>

LoadTicketLate(c) ==
  /\ step[c] = "load"
  /\ prev' = [prev EXCEPT ![c] = consumed]
  /\ Goto(c, IF consumed > kTotal THEN "done" ELSE "cas")
  /\ UNCHANGED <<bufferVars, consumed, total, i, got, joined>>

LoadTicketEarly(c) ==
  /\ step[c] = "load"
  /\ prev' = [prev EXCEPT ![c] = consumed]
  /\ Goto(c, IF consumed >= kTotal - 1 THEN "done" ELSE "cas")
  /\ UNCHANGED <<bufferVars, consumed, total, i, got, joined>>

-----------------------------------------------------------------------------
(* buf.push(p * 100 + i), in as many attempts as it takes, and ++i.        *)
PushNext(p) ==
  /\ step[p] = "push"
  /\ Push(p, <<p, i[p]>>)
  /\ i' = IF pc'[p] = "out" THEN [i EXCEPT ![p] = @ + 1] ELSE i
  /\ Goto(p, IF i'[p] = kItemsPerProducer THEN "done" ELSE "push")
  /\ UNCHANGED <<consumed, total, prev, got, joined>>

(* prev = consumed.load(); if (prev >= kTotal) break                       *)
LoadTicket(c) ==
  /\ step[c] = "load"
  /\ prev' = [prev EXCEPT ![c] = consumed]
  /\ Goto(c, IF consumed >= kTotal THEN "done" ELSE "cas")
  /\ UNCHANGED <<bufferVars, consumed, total, i, got, joined>>

(* compare_exchange_weak fails if the counter has moved, and may fail even *)
(* if it has not; either way the loop starts over.                         *)
TakeTicket(c) ==
  /\ step[c] = "cas"
  /\ \/ consumed = prev[c] /\ consumed' = prev[c] + 1 /\ Goto(c, "pop")
     \/ UNCHANGED consumed /\ Goto(c, "load")
  /\ UNCHANGED <<bufferVars, total, i, prev, got, joined>>

PopItem(c) ==
  /\ step[c] = "pop"
  /\ Pop(c)
  /\ IF pc'[c] = "out"
       THEN got' = [got EXCEPT ![c] = Append(@, Head(buf_))] /\ Goto(c, "add")
       ELSE UNCHANGED <<got, step>>
  /\ UNCHANGED <<consumed, total, i, prev, joined>>

(* total += the popped value, an atomic read-modify-write.                 *)
AddToTotal(c) ==
  /\ step[c] = "add"
  /\ total' = total + Value(Last(got[c]))
  /\ Goto(c, "load")
  /\ UNCHANGED <<bufferVars, consumed, i, prev, got, joined>>

Wakeup(t) == SpuriousWakeup(t) /\ UNCHANGED mainVars

Join == /\ ~joined
        /\ \A t \in Threads : step[t] = "done"
        /\ joined' = TRUE
        /\ UNCHANGED <<bufferVars, consumed, total, step, i, prev, got>>

Returned == joined /\ UNCHANGED vars

Consume(c) == LoadTicket(c) \/ TakeTicket(c) \/ PopItem(c) \/ AddToTotal(c)

MainNext == \/ \E p \in Producers : PushNext(p)
            \/ \E c \in Consumers : Consume(c)
            \/ \E t \in Threads : Wakeup(t)
            \/ Join
            \/ Returned

(* Every thread is scheduled until it is done, and a compare-and-swap that *)
(* is retried for ever does not fail for ever on an unchanged counter.     *)
MainSpec ==
  /\ MainInit /\ [][MainNext]_vars
  /\ \A p \in Producers : WF_vars(PushNext(p))
  /\ \A c \in Consumers : /\ WF_vars(Consume(c))
                          /\ SF_vars(TakeTicket(c) /\ step'[c] = "pop")
  /\ WF_vars(Join)

-----------------------------------------------------------------------------
MainTypeOK == /\ TypeOK
              /\ consumed \in 0 .. kTotal
              /\ total \in Nat
              /\ step \in [Threads -> {"push", "load", "cas", "pop", "add", "done"}]
              /\ i \in [Producers -> 0 .. kItemsPerProducer]
              /\ prev \in [Consumers -> 0 .. kTotal]
              /\ got \in [Consumers -> Seq(Items)]
              /\ joined \in BOOLEAN

Popped == UNION {ToSet(got[c]) : c \in Consumers}
PoppedCount == FoldFunction(LAMBDA s, n : Len(s) + n, 0, got)

(* Tickets and pops agree: consumed runs ahead of the pops performed by    *)
(* exactly the consumers that hold a ticket and have not popped yet.  No   *)
(* consumer can then be left waiting for an item that nobody will push.    *)
TicketsMatchPops ==
  consumed = PoppedCount + Cardinality({c \in Consumers : step[c] = "pop"})

(* Exactly once: what producers have pushed is what lies in the buffer and *)
(* what has been popped, each item in one place only; and total is the sum *)
(* of the popped values, but for those about to be added.  When main has   *)
(* joined, this is the sum it expects (bounded_buffer.cpp:86-87).          *)
NothingLostOrDoubled ==
  LET Pushed == {x \in Items : x[2] < i[x[1]]}
      Adding == {c \in Consumers : step[c] = "add"}
  IN  /\ Pushed = ToSet(buf_) \cup Popped
      /\ Cardinality(Pushed) = Len(buf_) + PoppedCount
      /\ total + MapThenSumSet(LAMBDA c : Value(Last(got[c])), Adding)
           = MapThenSumSet(Value, Popped)
      /\ joined => Popped = Items

(* main returns: producers and consumers never all wait on one another.    *)
MainReturns == <>joined
=============================================================================
