# shorter-algorithms in TLA+

The repository is a collection of small C++ programs, one algorithm or data
structure each, and one larger program, the route planning server in `server/`.
Most files are a class (or a function) followed by a `main` that exercises it.
This directory holds TLA+ models of them, the TLC runs that check the models on
small instances, and proofs, checked by TLAPS, of what holds for every instance.

Contents: [the system](#the-parts-of-the-system) ·
[modules](#modules-and-the-code-they-model) · [runs](#the-runs) ·
[fairness](#fairness) · [proofs](#what-is-proved) ·
[disagreements](#where-code-and-comments-disagree) ·
[not modelled](#what-is-not-modelled) · [plan](#plan)

To repeat the checks, in this directory:

    tlc -workers 2 -config RWLock.cfg RWLock.tla         # any run, see below
    tlapm LockProofs.tla                                 # any *Proofs module

## The parts of the system

| part | where | state it keeps | what is hard about it | what makes it correct |
|---|---|---|---|---|
| reader-writer lock | `include/rw_lock.hpp`, copy in `concurrency/rw_lock.cpp` | three counters behind a mutex, one condition variable | wakeups lost or too early, starvation | exclusion, exact counters, nobody asleep who could run, writers preferred |
| spinlock | `concurrency/spinlock.cpp` | an `atomic_flag`, the plain counter of `main` | an increment is a load and a store | no update lost, everyone finishes |
| bounded buffer | `concurrency/bounded_buffer.cpp` | a queue, a mutex, two condition variables; tickets in `main` | stolen wakeups, all threads asleep, a consumer waiting for an item nobody pushes | a FIFO channel; each item consumed once; `main` returns |
| lock-free stack | `concurrency/lockfree_stack.cpp` | a linked list behind a pointer with a tag | ABA, reads of deleted nodes | linearizable, every node has one owner |
| lock-free queue | `concurrency/lockfree_queue.cpp` | a linked list, a head and a tail that may lag | nodes deleted while others hold them | FIFO in the phases of `main`; nothing lost |
| route server | `server/*.hpp`, `server/main.cpp` | Bloom filter, cache, alpha per grid cell, statistics | an answer depends on the history of queries; a heuristic that overestimates | routes within alpha of the best, the cache never skipped, counts that agree |
| distributed systems | `distributed_systems/*.cpp` | clocks, replicas, a ring, rumours, votes | late, repeated and overtaken messages | causality, exact counts, few keys moved, a leader with the votes it counted |
| probabilistic structures | `probabilistic_data_structures/*.cpp`, `include/probabilistic.hpp` | bit arrays, counters, buckets | evictions, collisions | no false negatives, no undercounts |
| graph algorithms | `graph/*.cpp`, `include/graph.hpp` | local to one call | unreachable nodes, negative cycles, the root of a search, residual edges | the result is the one a definition demands |
| experiments on road graphs | `scripts/*.cpp` | a map, tables of results | an estimate scaled beyond what is admissible, queries sampled at random | what is counted is what the searches did; costs within alpha of the best |
| sorting, dynamic programming, optimization | `include/sorting.hpp`, `include/dynamic_programming.hpp`, `optimization/*.cpp` | local to one call; a tour for annealing | off-by-one at the ends of a range, moves taken back | in order; optimal; the best one seen |

The parts interact in few places. `RouteCache` guards its map with `RWLock`
(`server/cache.hpp:64,74`); the server's `main` calls the filter, the cache, the
selector, and the router, twice for the one query in twenty that it verifies; the
test runner, the benchmarks and the command line call the header library. Everything
else is a program of its own. The server has one thread: locks and atomics in it are
never contended.

`PROJECT.json` lists the components with their status, and under `hazards` what in this
code is hard to test, line by line, with the property that covers it or the reason
why none does.

## Modules and the code they model

Names of variables and operators are those of the source wherever TLA+ allows;
`map` in `PROJECT.json` gives the lines of each definition.

**Concurrency.** The granularity follows from what other threads can see.

| module | models | an action is |
|---|---|---|
| `RWLock` | class `RWLock`, used by any threads at any time | the code between two points where `mu_` is free: a call up to its return or its first sleep, or a wakeup up to the next |
| `SharedExclusive` | (abstract) shared and exclusive sections | an entry or an exit |
| `Spinlock` | class and `main`, `++counter` as load and store | one access to the flag or the counter |
| `BoundedBuffer` | `push` and `pop`, used by any threads | as for `RWLock`; `notify_one` wakes any one sleeper |
| `BoundedBufferMain` | `main` around the buffer: producers, tickets, join | a call of the buffer, or one access to an atomic |
| `BoundedChannel` | (abstract) a FIFO queue with a capacity | a send or a receive |
| `LockFreeStack` | `push` and `pop` | one access to shared memory |
| `AtomicStack` | (abstract) each operation takes effect at one instant between call and return | call, effect, return |
| `LockFreeQueue` | `enqueue` and `dequeue`, used by any threads | one access to shared memory |
| `LockFreeQueueMain` | `main` around the queue: produce, join, stop values, consume, destroy | as above |
| `LinkedLists` | the nodes that pointers link, as a sequence; also the parents of the server's router | (an operator) |

A condition variable may wake a sleeper for no reason, and a woken thread competes
for the mutex with threads that never slept. `compare_exchange_weak` may fail for no
reason. `new` may return the address of a node deleted before; a read of a deleted
node, which is undefined behaviour, returns any value of its type, and a
compare-and-swap on it succeeds or fails. Memory is sequentially consistent.

**Route server.** `Router` is `route` of `router.hpp`, one turn of its loop per
action; `RouteCache` is filter and cache; `AlphaSelector` is the grid of alphas;
`RouteServer` composes the three into the loop of `main`: `Hit` answers from the
cache, `Miss` begins a search, `Turn` is a turn of it, `RespondUnverified` stores and
answers, `Verify` begins the second search with alpha 0, `RespondVerified` observes,
stores and answers. Lengths are integers, alpha is in hundredths and cost ratios in
thousandths; comparisons of means are multiplied out. `haversine` and `std::hash` are
tables. That no road is shorter than the straight line (`Consistent`) is assumed of
the tables of the run only, as `FINDINGS.md:13` says of the maps.

**Distributed and probabilistic structures.** `CausalClocks`, `GCounter`, `HashRing`,
`Gossip`, `LeaderElection`, `Sketches` (Bloom filter, count-min sketch and the two classes HyperLogLog fed by one
stream) and `CuckooFilter`, each with the operations of its class; `SimulatedAnnealing`, where each turn may pick any
two towns and keep or undo a longer tour. The programs use
them in one thread and in one order; the models let messages be late, repeated,
overtaken or lost and operations come in any order, because that is what the classes
are offered for. History variables (`known`, `seen`, `added`, `members`, `proposed`) record what
really happened, and the properties compare.

**Pure algorithms.** `ShortestPaths`, `GraphStructure`, `PageRank`, `RoadAnalysis`, `RoadExperiments`, `Sorting`,
`Optimization` and `MinHash` define the algorithms as operators, in the steps of the
code (queues, layers, index arithmetic, tables), and next to them what they are
compared with: least length over all simple paths, components without a node,
all matchings, all cuts, all tours. `ShortestPaths` is written so that theorems can be about it: loops over edges and nodes are folds, and the loops
that empty a queue are folds over a number of turns after which it is empty (one per edge and one for the source, or one per node;
the theorems show that it suffices). A path is walked back from the goal in one step for each node that has a parent, which the theorems show is enough
to come to the start. `guidedSearch` is the search that `astar_search.cpp` and four of the
scripts repeat: a node is closed when it is popped and not opened again, although its distance may still improve. The
scripts differ in the estimate they give it (`Estimate`, `IdEstimate`, none) and in what they count; alpha is in hundredths,
places lie on a line, and where a script draws queries at random the model takes all that it may draw. `PageRank`
computes with exact fractions of a common denominator. Infinity is the absence of a node from a function,
and integers have no width.

`MC*` modules give constants their values and, for the last two groups, put
independent parts into one behaviour: `MCDataStructures` and `MCAlgorithms` choose a
structure or a problem at the start and stay with it. The problems about paths, and the properties of their answers, are in `PathProblems`, which bounds
nothing: any graph with integer weights for Bellman-Ford (`signed`), weights of at least zero with an estimate for each goal (`ways`), numbers of hops (`reached`),
roads at least as long as the straight line with queries and alphas (`journeys`), links between ids (`hops`). `IsPathProblem` says which
problems these are. `MCAlgorithms` takes small families of them, of which TLC checks that they are such problems (`PathProblemsAssumption`), and adds
the problems of the other modules.

## The runs

| run | instance | shows |
|---|---|---|
| `RWLock` | 3 readers, 2 writers, calling for ever | counters exact, no wakeup lost, no reader passes a waiting writer, refinement of `SharedExclusive`; some waiting writer gets in, and readers return once writers stay away (`WaitersGetIn`) |
| `Spinlock` | 3 threads, 3 rounds | no lost update, `main` returns |
| `BoundedBufferMain` | 2 producers of 2 items, 2 consumers, capacity 1 | one notification per call is enough, tickets match pops, every item consumed once, FIFO channel, `main` returns |
| `LockFreeStack` | 2 threads, 3 calls each, 3 addresses, 2 values | one owner per node, ABA defeated, linearizable, calls return |
| `LockFreeQueueMain` | 2 producers, 2 consumers, one item each, 5 addresses | list stays whole, FIFO, the value read early is the one returned, stop values suffice, totals right, nothing leaked |
| `LockFreeQueueFreed` | 1 producer, 2 consumers | *violation*: a value is read from a deleted node |
| `LockFreeQueueMPMC` | 2 threads, 3 values, 3 addresses | *violation*: an item whose enqueue returned is lost |
| `RouteServer` | 7 nodes, 8 queries of which 5 are asked, grid 1 x 2, filter of 8 bits | routes and cached routes within alpha, walks back end, filter covers cache, counts agree, answers repeat, observations at least 1, queries answered |
| `DataStructures` | 3 clocks and 5 events; 3 replicas, 2 increments each, 2 copies under way; 4 servers on 12 positions; 5 gossiping nodes; 4 electors with 3 timeouts; 4 items in the sketches; 5 items in 4 buckets; 5 towns and 3 turns | causality, exact counts, minimal reshuffling, doubling, a majority behind the leader, no undercount and distinct counts (`SketchesHoldStream`), no false negative before a refusal, best tour kept |
| `CuckooRefused` | the same | *violation*: a false negative after a refused insertion |
| `Algorithms` | all inputs of twelve families: graphs of 3 nodes with weights -1, 1, 3; roads among 4 places; journeys with alpha 0, 0.5, 1, 2, 4 among 4 places; hops among 5 numbered nodes; digraphs of 4 nodes; matchings 3 x 3; flows through 7 pipes; arrays up to length 5; words up to length 4; knapsacks of 3 items; tours of 4 towns; pairs of sets of 5 shingles | each algorithm returns what its definition demands; the experiments measure what they say (`ExperimentsAgree`) |
| `Divergences` | the journeys | *violation*: a query counted as suboptimal has no divergence |

Why the bounds are enough for the cases that matter:

- *Locks and buffer.* Stolen and wasted wakeups need a sleeper, a waker and a third
  thread of the sleeper's side; three readers and two writers, or two of each side with one slot, have
  them. A second slot adds no wait that one slot does not have, since what matters is
  full, empty, and neither. What is safe for these sizes is proved for all sizes.
- *Stack.* ABA needs one thread stopped in `pop` while another pops, pops and pushes
  the first address again: three calls and addresses that are reused.
- *Queue.* The violations need a thread stopped between two lines while others take
  one node (`MPMC`) or two (`Freed`). `LockFreeQueueMain` has both consumers compete
  for the same nodes with the tail behind.
- *Server.* The map is drawn so that alpha 1.15 changes the route and a node closed
  already gets cheaper; reaching that alpha takes three verified queries of one cell,
  and the fourth and fifth meet it. Filter collisions are frequent because the bits
  depend on the goal alone, as they do in the code.
- *Data structures.* In the cuckoo filter two items share a fingerprint and one has the
  same bucket twice. Five events are enough for two nodes to learn of a third by
  different ways.
- *Experiments.* With alpha 2 and 4 and roads longer than their straight line there are costs above the best, closed
  nodes that get cheaper, and paths better than the cost reported for them; ids two apart count for one hop, so that the estimate
  from the ids is right on some of the graphs and wrong on others.
- *Annealing, ranks.* Three turns are enough for a longer tour kept, one undone and a better one after it. Three
  iterations compare two distances of successive ranks; a further one would overflow the numbers of TLC.
- *Algorithms.* Graphs of four nodes contain a cycle with a chord, a bridge, two components, and a
  root with one or two branches.

Each property of a passing run has a mutant in `PROJECT.json`: a mistake one could make
in the code, for which the run fails. They are the operators introduced by
"a mistake the checks are tested with".

`CHECK_DEADLOCK FALSE` stands where a model ends because a bound is used up or a problem is solved
(`LockFreeStack`, `LockFreeQueueMPMC`, the server, the structures, the algorithms). The lock, the spinlock,
the buffer and the queue's `main` are checked for deadlock: there the only end is the
one of the program, and it is a step of its own (`Returned`).

## Fairness

- `RWLock`: weak fairness of the steps of a thread that was woken or holds the lock:
  the scheduler runs it and the mutex does not starve it. No thread has to
  call, and no spurious wakeup has to happen. A sleeping thread gets no fairness: that it
  is woken is what is checked. A single writer may starve; *some* writer gets in.
- `Spinlock`: weak fairness of each thread. While others take turns `test_and_set` may
  fail again and again; the program ends because the others run out of rounds.
- `BoundedBufferMain`: weak fairness of each thread, and strong fairness of a successful
  exchange at line 73: `compare_exchange_weak` is allowed to fail for no reason but does
  not do so for ever.
- `LockFreeStack`: the same two, for calls that have begun. The number of calls is bounded: without a bound a
  thread may lose every race, which lock-freedom allows (`concurrency/README.md:16` speaks of wait-free).
- `RouteServer`: weak fairness of the one thread while it works on a query. Nobody has to ask.

Nothing is claimed of the liveness of the queue: a consumer whose exchanges all fail spins.

## What is proved

Proofs are for all values of the constants under the named assumptions of the modules; where a
constant bounds a run (calls, events, rounds, turns), the theorem is for every bound. They concern the
specifications without fairness.

`DataFacts` is what the others rest on. The prover cannot use an induction principle that takes an operator, so
induction is stated of a *set* that holds 0 and the successor of what it holds (`SetInduction`), and recursion of a
function that carries one value to the next (`Iterates`). From these: every non-empty set of naturals has a least element;
a list is a sequence whose entries link to one another and end in null (`IsChain`), and `Chain` returns it;
chains that are extended, shortened and left alone; sums over finite sets; powers of two, quotients and remainders, and the bits of a shifted word.

`LockProofs`, reader-writer lock (assumption: `Readers` and `Writers` finite and disjoint). Exclusion is
not inductive: who may enter is decided by counters. The inductive invariant

    IInv == TypeOK /\ CountersExact /\ Exclusion /\ NoLostWakeup

says what the counters count; each action changes one of the counted sets by one
thread, and lemmas on finite sets turn that into counting up or down. `NoLostWakeup` goes along
because after a step that makes a predicate true everyone asleep was woken. From it: type correctness,
exclusion, exact counters, no lost wakeup, writer preference as an action property,
and the refinement of `SharedExclusive`.

`LockProofs`, spinlock (finitely many workers). `SpinInv` joins mutual exclusion, "the counter is the
number of increments stored", and "joined means everyone done". The counting set
`Stored` names increments by thread and round, so that a store adds exactly one. From it the final value:
the number of threads times their rounds.

`BoundedBufferProofs` (finite, disjoint sides). That no wakeup is lost is here inductive
with the types: while a thread sleeps, the free slots (or the items) are at most as many as the threads of its side that
are awake from a notification. A push uses one slot and one waking producer and notifies one consumer,
or finds none asleep. From it: types and capacity, the two sides are never all asleep, and the
refinement of `BoundedChannel`. The second half is the program (at least one item per producer, and some consumer).
Each of its steps is a step of the buffer or leaves it alone, so that all this holds of it too. `MInv` adds where each thread
is in its loop (`Loops`), that an item is still to come, in the buffer, or with one consumer (`OnePlace`), and that the counts
agree (`CountsAgree`): the tickets drawn, less the consumers that hold one, are the pops. From it: tickets
match pops, and when `main` returns every item was popped once and the total is right.

`LockFreeStackProofs` (finitely many addresses; any threads, values and calls). The inductive invariant

    IInv == TypeOK /\ ListOK /\ OwnersOK /\ TagsOK /\ LocalsOK /\ SwapOutIsCurrent

says that the nodes from the head on end in null and are all different, that an allocated node is on the list or
belongs to exactly one thread in mid-call, and that the tag only grows and names one pointer at a time. So a thread whose
`compare_exchange` would succeed read the *same* head, and the list behind it is the one it read (`SwapOutIsCurrent`, ABA
defeated): what the exchange installs is the second node now, although it was read before. With it: every node has one owner, and
the refinement of `AtomicStack` (linearizability), whose stack is the values along the list and whose effects are the
successful exchanges and the load of a null head.

`LockFreeQueueProofs` (finite addresses, disjoint sides, at least one consumer). The class alone does not keep the tail on
the list: the run `LockFreeQueueMPMC` breaks it. The program does, because its producers have ended before anybody dequeues, and so the
invariant goes by its phases. Its parts: where each thread can be in each phase; `PointersOK` (the list is whole, the tail is on
its last node or the one before, what has been allocated is on the list or is a node not linked yet, and what a thread has read is still so, *or*
the node it has read is deleted and its exchange will fail); `ValuesOK` (no value twice, none both in the queue and gone);
`OrderOK` (stop values come last); `FillOK` and `DrainOK` (the counters are the values entered, or gone). From it: the tail
stays on the list, a consumer that is still in its loop finds a value, totals are right and every item is dequeued once, a successful exchange
returns the front value, and the queue is a FIFO.

`RouteServerProofs` (the assumptions of the modules, among them non-negative weights; no
assumption that the heuristic is consistent, and none on the hash functions). `IInv` has four parts.
`SearchInv`: the start keeps the cost 0, so that no node that is relaxed, and never the start, improves on
itself; then a step of the loop can only make a parent cheaper (`ParentsDescend`). `CacheInv`: what is being
searched for is not in the cache, because the filter, which contains the cache, would have let it by; so
that a store adds an entry and replaces none (`BloomNeverForgets`, `AnswersRepeat`). `ServerTypes`. `CountInv`: a query that
is searched for has been counted and its nodes have not, a route that is verified exists and will be stored
(`Accounting`).

The second half is about costs. The cheapest walks are a table built by numbers of edges; a table that an extension does not
change is the best one (`IsBest`: no edge improves it, and every cost in it is traced back to the start along edges that cost what they
gain), and the `n - 1` extensions of the definition reach it because k of them settle at least k + 1 nodes, or all that can be reached.
Of a search, `QueueInv` says that recorded costs are never below the least and that a node that is not closed is in the queue with
its cost; `ClosedInv` that a closed node costs at most the factor of its alpha times the least, and has offered its neighbours
at most that. The step that closes a node needs that it is good (`TopIsGood`): on a cheapest walk to it let y be the first node not
closed; y was offered a good cost and is in the queue, and since the heuristic loses at most the length of the walk
from y on, the node taken before y is no worse than the factor. A closed node may still get cheaper, which harms neither. `NoParentCycle` (no set of nodes is closed under
going to the parent) makes the path walkable: a set that the relaxing of u closes under
parents contains u, and since costs never rise along parents, its nodes that cost at most what u costs were such a set before.
`RouteInv` joins these with the cells, the work in progress and the cache.

- `ThmRoutesWithinAlpha` assumes `Consistent`, that no road is shorter than the straight line: searches, paths and cached routes
  are within alpha of the cheapest walk. It is the only theorem that assumes anything of the table of distances; its hypothesis is met by the
  maps of the repository (`FINDINGS.md:13`) and by the run.
- `ThmExcessNeverNegative` does not assume it: with alpha 0, with which `verify` searches, the heuristic is multiplied away, and
  the route that is verified costs at least the cheapest walk whatever it was found with.

`DataStructuresProofs` has one chapter per structure.

- *Election* (at least one node; timeouts are natural numbers). That there is a candidate at all is a lemma:
  of the least timeouts the one of the least node. `ElectionInv` says what `LeaderHasMajority` does not: before the election everybody is fresh,
  afterwards nobody but the candidate has votes, and whoever voted for it is in its term. A node that is
  asked has not voted for it yet, so that a granted vote adds exactly one voter.
- *Ring* (servers have virtual nodes of their own, as many as may be). `RingInv`: a server has all its
  positions on the ring or none. A key is at the first position at or after it, or the first of all; when a server comes or
  goes that position changes only to one of its own, or from one.
- *G-counter.* `CounterInv`: the increments a replica has seen are those below its counts, for the replicas and for the copies under way.
  Merging takes the greater of each entry, which is the union of what was seen; the value is a sum, and so the size of that union.
- *Vector clocks.* Not inductive by itself: it speaks of pairs of events, and the clocks of the nodes and messages that will make the next one
  are not events. `ClockInv`: the clock of each event, and of each node, is a *true view* of a set of events, that is, it exceeds exactly the clocks of
  the events in the set, and no entry is ahead of the node that it counts.
- *Gossip.* `GossipInv` adds types: a round informs at most as many as tell.
- *Annealing* (distances are natural numbers). `AnnealingInv`: the costs carried along are those of the tours carried along, and the best is the least of what was looked at.
- *Cuckoo filter* (the exclusive or of bucket numbers is any table that is its own inverse; the run gives the real one). `CuckooInv`: until an insertion
  is refused, every fingerprint is in two buckets exactly as often as there are items in the filter that have it and these two
  buckets. An eviction moves a fingerprint within its pair. So a removal finds one, and leaves as many as the others need, whichever it takes.
- *Sketches* (any word size, hashes, and bound on counts). `SketchInv`: the bits of what came are set, each cell of an item is at least what was
  added of it, a register is the greatest rank of the items that came and fall on it. Beyond that, `RankIsFirstOne`: the header's class counts the
  zeros of all bits of the shifted word, and yet the rank is the place of the first one after the index, because bit i of
  the shifted word is 0 below the shift and the bit i - b of the hash above it (`ShiftedBit`). The facts about powers of two come from
  counting subsets, the only thing the library says of them.

`PathProofs` is about the algorithms that measure paths and the programs that use them.

- *Bellman-Ford* (any graph with integer weights). A fold takes its elements one after another (`FoldExists`, `FoldSteps` of `DataFacts`), and a
  path has a cost at each of its nodes (`Costs`). `Attained`: each distance is that of some simple path or more, as long as there is no negative cycle;
  after i passes it is at most that of every path with i edges. A path with more nodes than there are is not simple, so n - 1 passes
  do (`NothingImproves`). If nothing improves, the gains along a cycle add up to nothing negative (`BellmanFordIsRight`).
- *Dijkstra and A\** (weights of at least zero; an estimate that contradicts no edge, also when only scaled by a / k). `Searching` and `Guided` are
  the invariants of the loops: distances are attained, a node that is not closed waits in the queue with its priority, and a closed one was
  closed at a cost within a / k of the least and has offered that to its successors. The node popped is within that bound for the
  reason given above (`TopIsBounded`). `TurnsLeft` (entries in the queue, and edges whose ends have yet to offer them) goes down in every turn, so that the
  queue is empty when the turns are over (`DijkstraIsRight`, `GuidedIsRight`, `AStarIsRight`).
- *Floyd-Warshall* (weights of at least zero, one for each pair of nodes). The matrix is updated in place. `StagedOn`: within the stage of k its row and its column
  do not change, for the way from k to itself costs nothing. `Connected`: entries are attained, and none is more than the way over a node whose stage is
  done (`Shortcut`); after all stages the matrix obeys the triangle inequality, and entries of edges are at most their weights (`FloydIsRight`).
- *The way back* (weights of at least zero; any estimate at all). `Rooted`: every node reached but the start has a parent, an edge away and nearer by at least that edge, and no
  set of nodes is closed under going to the parent. Zero weights allow no argument from distances alone; instead, a set that was closed after the parent of v
  changed would contain v, and so u, which is being relaxed, and its ancestors as near as u were closed before. So parents lead back along a simple path, no longer
  than the distance kept (`WaysLeadBack`), and the fold that walks back returns that path (`AnswersAreWays`). It may be shorter than the cost
  reported, when a closed node got cheaper.
- *What is left out.* `NoneNearer`: once the goal is closed, no node that is open is nearer, with what is estimated to remain of it, than the goal was; it holds at the
  turn that pops the goal, as the least of the queue, and the search ends there. So it has explored everything, if there is no way, or leaves out only nodes as far as
  the goal or further (`NoneNearerIsLeft`). With what `GuidedIsRight` says of the nodes that are explored, the experiments' counts of nodes saved can be compared.
- *Breadth-first search* (any limit on the hops). `Queued`: the distances along the queue do not go down, and none anywhere is more than one above that of its head.
  `Followed`: a node that has left the queue below the limit has offered its neighbours. A node is queued only when it is first reached, so that one turn per
  node is enough (`BfsIsRight`, `BfsPathIsRight`).
- *All problems about paths.* `PathsAreRight` and `ExperimentsAreRight` are the two invariants of the run, for `PathSpec`, that is for every problem that
  `IsPathProblem` admits. They are inductive together with `IsPathProblem(problem)` (`PathsKept`, `ExperimentsKept`), and each answer is right by the theorems above.
  What remains is arithmetic of the scripts: a road in both directions (`EachWayIs`), the scaled straight line as an estimate that contradicts no edge up to alpha
  (`EstimateSteers`), the estimate from ids, wrong by at most the factor n (`IdSteers`), pairs drawn at least `minHops` and at most three times as many apart, which are those
  that have a way (`SampledHaveWays`, `SampledAre`), and what is counted (`RowRight`, `AnalysisRight`).

Only model-checked:

- liveness and everything under fairness, which the prover cannot treat (`WaitersGetIn`, `MainReturns`, `CallsReturn`, `QueryAnswered`);
- of the pure algorithms, those on the structure of graphs (`StructureIsFound`, with the betweenness and the nearly optimal links of `RoadAnalysis`), and sorting, dynamic
  programming, tours, ranks and signatures (`OrdersAndOptima`): most are recursive operators, with which the prover does not work, and what a recursive definition computes
  for every input is an induction over data that it cannot do.

## Where code and comments disagree

Shown by runs:

1. `LockFreeQueueFreed`: `lockfree_queue.cpp:73` says the value is read before the exchange because another thread may free the
   node after it. The node may be free already: `head_` is last checked at line 63. The value is thrown away, since
   the exchange then fails (`ReturnsFront` holds); the read is of freed memory.
2. `LockFreeQueueMPMC`: `lockfree_queue.cpp:3` offers the queue to many producers and
   consumers. With both at once `enqueue` may link its node behind a deleted one and
   return; the item is lost. The program's own `main` joins the producers first.
3. `Divergences`: `divergence_analysis.cpp:3` promises the exact node where a suboptimal path leaves the optimal one. The
   loop at line 125 looks for a node that is not on the optimal path; a path that takes a direct road between two nodes of it has none, and
   is counted as suboptimal but not as a divergence. The logs under `results/` show the difference (449 and 361).
4. `CuckooRefused`: `cuckoo_filter.cpp:1` says it is like a Bloom filter; an insertion
   that is refused (line 45) drops the fingerprint of some other item.

Seen while modelling, about text or numbers that the models leave out:

- `server/alpha_selector.hpp:15` says the selector falls back to alpha 1.0 when a region exceeds the budget; line 71
  steps back by 0.1 per observation, so that alpha may stay above 1.0 for some queries.
- `scripts/run_real_graph.cpp:122` says the estimate never overestimates the hops; it does where a road joins ids more than
  100 apart, and line 210 has a message for it. `scripts/heuristic_experiment.cpp:124` does not end on a map without two nodes 50 hops apart.
- `distributed_systems/raft_leader_election.cpp:32` says node 2 times out first; the candidate is whoever drew the least timeout.
- `server/alpha_selector.hpp:80` prints statistics to standard output, between the JSON
  answers; `main.cpp:19` says they go to standard error.
- `server/main.cpp:11` calls the cache "LRU-style"; nothing is ever evicted.
- `server/cache.hpp:19-21`: all bits of a query depend on its goal alone, because
  the filter has 2^20 bits and the start is shifted by 20, so that `expectedFPR` is far off when goals repeat.
- `distributed_systems/crdt_counter.cpp:6` announces a PN-counter; there is none.
- `distributed_systems/gossip_protocol.cpp:38` reports full propagation also when the
  loop ended at 20 rounds.
- `probabilistic_data_structures/lsh_minhash.cpp:38` calls hashes independent that are
  one hash under different constants. What holds is what `OrdersAndOptima` says: entries
  agree where the first shingle of all is shared.
- `graph/astar_search.cpp:13` has A* optimal exactly when the heuristic never
  overestimates; with closed nodes that are not opened again it also has to be
  consistent, which straight-line distances are.
- `graph/floyd_warshall.cpp:27` adds without asking whether both distances are finite. With a negative weight the sum of INF and that weight is less than INF; the
  program has none, and the model and its theorem are for weights of at least zero.
- `cli/main.cpp:39` names demos whose sources are not in the repository
  (`strings/`, `sorting_searching/`).

## What is not modelled

- *Rival candidates, restarts and messages of Raft*: `raft_leader_election.cpp` has one candidate that asks fresh voters once, in a straight
  line, and `LeaderElection` has no more.
- *HyperLogLog's estimate, means and deviations of the experiments*: floating-point arithmetic with no exact promise.
- *Python scripts, command line, benchmarks, tests*: measuring,
  converting, printing.
- *Weak memory orders* in the lock-free classes: the models are sequentially consistent.
- *Widths*: keys above 2^20 (`cache.hpp:61`), `int` counters, the 64-bit tag.
- *Reading the map file*, timing, and the wording of output.

## Plan

Done first, because it is where the code is hardest to test: concurrency with its
proofs, then the server, the structures, the algorithms; then the road experiments, PageRank, annealing, the
election, the header's HyperLogLog, shingles; then the proofs of the stack, the queue, the program around the buffer, the costs of routes,
and all data structures; then shortest paths, the ways walked back, breadth-first search, and the road experiments.

Left of the model: ranking of the nodes by betweenness and the statistics over queries, which are floating-point. The
cache under `RWLock` with several threads (the counts through `const_cast` at `cache.hpp:67` would be lost) is left
until the server has more than one thread.

Left of the proofs: the algorithms on the structure of graphs, sorting, and the tables of dynamic programming. They would have to be written as folds
or as functions first, as `ShortestPaths` is.
