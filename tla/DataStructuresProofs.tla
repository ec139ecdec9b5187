------------------------ MODULE DataStructuresProofs ------------------------
(***************************************************************************)
(* The data structures of distributed_systems/,                            *)
(* probabilistic_data_structures/ and optimization/: one chapter each.     *)
(***************************************************************************)
EXTENDS CausalClocks, GCounter, HashRing, Gossip, LeaderElection, SimulatedAnnealing,
        CuckooFilter, Sketches, DataFacts

-----------------------------------------------------------------------------
(* The election for any number of nodes and any timeouts.  The node whose  *)
(* timeout ends first.                                                     *)
LEMMA CandidateExists ==
  ASSUME timeouts \in [Electors -> Timeouts]
  PROVE  candidateId \in Electors /\ EndsFirst(candidateId)
<1> DEFINE Ends == {timeouts[i] : i \in Electors}
<1>1. Ends \subseteq Nat /\ 0 \in Electors
  <2>1. \A i \in Electors : timeouts[i] \in Nat
    BY ElectionAssumption
  <2>2. 0 \in Electors
    BY ElectionAssumption DEF Electors
  <2> QED  BY <2>1, <2>2
<1>2. PICK t \in Ends : \A x \in Ends : t <= x
  <2> HIDE DEF Ends
  <2>1. Ends # {}
    BY <1>1 DEF Ends
  <2> QED  BY <1>1, <2>1, HasLeast
<1> DEFINE Soonest == {i \in Electors : timeouts[i] = t}
<1>3. Soonest \subseteq Nat /\ Soonest # {}
  BY <1>2 DEF Electors
<1>4. PICK c \in Soonest : \A i \in Soonest : c <= i
  <2> HIDE DEF Soonest
  <2> QED  BY <1>3, HasLeast
<1>5. c \in Electors /\ timeouts[c] = t
  BY <1>4
<1>6. ASSUME NEW i \in Electors
      PROVE  timeouts[c] < timeouts[i] \/ (timeouts[c] = timeouts[i] /\ c <= i)
  <2>1. timeouts[i] \in Nat /\ t \in Nat /\ t <= timeouts[i]
    BY <1>1, <1>2
  <2>2. CASE timeouts[i] = t
    BY <1>4, <1>5, <2>2
  <2>3. CASE timeouts[i] # t
    BY <1>5, <2>1, <2>3
  <2> QED  BY <2>2, <2>3
<1>7. EndsFirst(c)
  BY <1>6 DEF EndsFirst
<1> QED  BY <1>5, <1>7 DEF candidateId

-----------------------------------------------------------------------------
(* Before the election nothing has happened; from then on only the         *)
(* candidate has a role and votes, and it has the votes of itself and of   *)
(* the nodes that have been asked.                                         *)
Fresh ==
  \A i \in Electors : /\ role[i] = "FOLLOWER" /\ term[i] = 0
                      /\ votedFor[i] = Nobody /\ votesReceived[i] = 0
Underway ==
  LET c == candidateId
  IN  /\ votedFor[c] = c
      /\ votesReceived[c] = Cardinality(VotersOf(c))
      /\ role[c] = "LEADER" => votesReceived[c] >= majority
      /\ \A i \in Electors : votedFor[i] \in {c, Nobody} /\ (votedFor[i] = c => term[i] = term[c])
      /\ \A i \in Electors \ {c} : role[i] = "FOLLOWER" /\ votesReceived[i] = 0
ElectionInv ==
  /\ ElectionTypeOK
  /\ IF asked = Nobody THEN Fresh ELSE Underway

LEMMA ElectorsFacts == IsFiniteSet(Electors) /\ Nobody \notin Electors
<1>1. IsFiniteSet(0 .. numElectors - 1)
  BY ElectionAssumption, FS_Interval
<1> QED  BY <1>1 DEF Electors, Nobody

LEMMA VotersFinite == ASSUME NEW c PROVE IsFiniteSet(VotersOf(c))
BY ElectorsFacts, FS_Subset DEF VotersOf

LEMMA ElectionStarts == ElectionInit => ElectionInv
<1> SUFFICES ASSUME ElectionInit PROVE ElectionInv
  OBVIOUS
<1>1. ElectionTypeOK
  BY DEF ElectionInit, ElectionTypeOK
<1>2. asked = Nobody /\ Fresh
  BY DEF ElectionInit, Fresh
<1> QED  BY <1>1, <1>2 DEF ElectionInv

LEMMA StandKeeps == ASSUME ElectionInv, Stand PROVE ElectionInv'
<1> DEFINE c == candidateId
<1>1. c \in Electors
  BY CandidateExists DEF ElectionInv, ElectionTypeOK
<1>2. c' = c
  BY DEF Stand, candidateId, EndsFirst
<1>3. ElectionTypeOK /\ Fresh /\ asked = Nobody
  BY DEF ElectionInv, Stand
<1> HIDE DEF c
<1>4. /\ role' = [role EXCEPT ![c] = "CANDIDATE"] /\ term' = [term EXCEPT ![c] = @ + 1]
      /\ votedFor' = [votedFor EXCEPT ![c] = c] /\ votesReceived' = [votesReceived EXCEPT ![c] = 1]
      /\ asked' = 0 /\ timeouts' = timeouts
  BY DEF Stand, c
<1>5. ElectionTypeOK'
  BY <1>1, <1>3, <1>4, ElectionAssumption DEF ElectionTypeOK
<1>6. VotersOf(c)' = {c}
  BY <1>1, <1>2, <1>3, <1>4, ElectorsFacts DEF VotersOf, Fresh, ElectionTypeOK
<1>7. votesReceived'[c] = Cardinality(VotersOf(c)')
  BY <1>1, <1>3, <1>4, <1>6, FS_Singleton DEF ElectionTypeOK
<1>8. Underway'
  BY <1>1, <1>2, <1>3, <1>4, <1>7, ElectorsFacts DEF Underway, Fresh, ElectionTypeOK, c
<1> QED  BY <1>4, <1>5, <1>8 DEF ElectionInv, Nobody

LEMMA RequestVoteKeeps == ASSUME ElectionInv, RequestVote PROVE ElectionInv'
<1> DEFINE c == candidateId
<1>1. c \in Electors
  BY CandidateExists DEF ElectionInv, ElectionTypeOK
<1>2. c' = c
  BY DEF RequestVote, candidateId, EndsFirst
<1>3. ElectionTypeOK /\ Underway /\ asked \in Electors /\ asked' = asked + 1
  BY ElectorsFacts DEF ElectionInv, RequestVote
<1>4. asked' \in 0 .. numElectors /\ asked' # Nobody
  BY <1>3, ElectionAssumption DEF Electors, Nobody
<1>5. CASE asked # c /\ grantVote(asked)
  <2> HIDE DEF c
  <2>1. /\ term' = [term EXCEPT ![asked] = term[c]]
        /\ votedFor' = [votedFor EXCEPT ![asked] = c]
        /\ votesReceived' = [votesReceived EXCEPT ![c] = @ + 1]
        /\ UNCHANGED <<timeouts, role>>
    BY <1>5 DEF RequestVote, c
  <2>2. ElectionTypeOK'
    BY <1>1, <1>3, <1>4, <2>1 DEF ElectionTypeOK
  <2>3. votedFor[asked] # c
    BY <1>1, <1>3, <1>5 DEF grantVote, Underway, ElectionTypeOK, c, Electors, Nobody
  <2>4. VotersOf(c)' = VotersOf(c) \cup {asked} /\ asked \notin VotersOf(c)
    BY <1>1, <1>2, <1>3, <2>1, <2>3 DEF VotersOf, ElectionTypeOK
  <2>5. Cardinality(VotersOf(c)') = Cardinality(VotersOf(c)) + 1
    BY <2>4, VotersFinite, FS_AddElement
  <2>6. votesReceived'[c] = Cardinality(VotersOf(c)')
    BY <1>1, <1>3, <2>1, <2>5 DEF Underway, ElectionTypeOK, c
  <2>7. role'[c] = "LEADER" => votesReceived'[c] >= majority
    BY <1>1, <1>3, <2>1, ElectionAssumption DEF Underway, ElectionTypeOK, c, majority
  <2>8. Underway'
    BY <1>1, <1>2, <1>3, <1>5, <2>1, <2>6, <2>7 DEF Underway, ElectionTypeOK, c, majority
  <2> QED  BY <1>4, <2>2, <2>8 DEF ElectionInv
<1>6. CASE ~(asked # c /\ grantVote(asked))
  <2>1. UNCHANGED <<term, votedFor, votesReceived, timeouts, role>>
    BY <1>6 DEF RequestVote
  <2>2. ElectionTypeOK'
    BY <1>3, <1>4, <2>1 DEF ElectionTypeOK
  <2>3. Underway'
    BY <1>2, <1>3, <2>1 DEF Underway, VotersOf, majority
  <2> QED  BY <1>4, <2>2, <2>3 DEF ElectionInv
<1> QED  BY <1>5, <1>6

LEMMA ConcludeKeeps == ASSUME ElectionInv, Conclude PROVE ElectionInv'
<1> DEFINE c == candidateId
<1>1. c \in Electors
  BY CandidateExists DEF ElectionInv, ElectionTypeOK
<1>2. c' = c
  BY DEF Conclude, candidateId, EndsFirst
<1>3. ElectionTypeOK /\ Underway /\ asked # Nobody
  BY ElectionAssumption DEF ElectionInv, Conclude, Nobody
<1>4. VotersOf(c)' = VotersOf(c)
  BY <1>2 DEF Conclude, VotersOf
<1> HIDE DEF c
<1>5. role' = [role EXCEPT ![c] = "LEADER"] /\ votesReceived[c] >= majority
      /\ UNCHANGED <<timeouts, term, votedFor, votesReceived, asked>>
  BY DEF Conclude, c
<1>6. ElectionTypeOK'
  BY <1>3, <1>5 DEF ElectionTypeOK
<1>7. Underway'
  BY <1>1, <1>2, <1>3, <1>4, <1>5 DEF Underway, ElectionTypeOK, c, majority
<1> QED  BY <1>3, <1>5, <1>6, <1>7 DEF ElectionInv

LEMMA ElectionStutters == ASSUME ElectionInv, UNCHANGED electionVars PROVE ElectionInv'
<1>1. candidateId' = candidateId
  BY DEF electionVars, candidateId, EndsFirst
<1>2. UNCHANGED <<timeouts, role, term, votedFor, votesReceived, asked>>
  BY DEF electionVars
<1>3. ElectionTypeOK'
  BY <1>2 DEF ElectionInv, ElectionTypeOK
<1>4. CASE asked = Nobody
  BY <1>2, <1>3, <1>4 DEF ElectionInv, Fresh
<1>5. CASE asked # Nobody
  <2>1. Underway'
    BY <1>1, <1>2, <1>5 DEF ElectionInv, Underway, VotersOf, majority
  <2> QED  BY <1>2, <1>3, <1>5, <2>1 DEF ElectionInv
<1> QED  BY <1>4, <1>5

LEMMA InvImpliesMajority == ElectionInv => LeaderHasMajority
<1> SUFFICES ASSUME ElectionInv, NEW i \in Electors
             PROVE  /\ votesReceived[i] = Cardinality(VotersOf(i))
                    /\ role[i] = "LEADER" =>
                         /\ 2 * Cardinality(VotersOf(i)) > numElectors
                         /\ \A j \in VotersOf(i) : term[j] = term[i]
                         /\ \A j \in Electors : role[j] = "LEADER" => j = i
                         /\ \A j \in Electors : timeouts[i] <= timeouts[j]
  BY DEF LeaderHasMajority
<1> DEFINE c == candidateId
<1>1. c \in Electors /\ EndsFirst(c)
  BY CandidateExists DEF ElectionInv, ElectionTypeOK
<1>2. VotersOf(i) = {} => Cardinality(VotersOf(i)) = 0
  BY FS_EmptySet
<1>3. CASE asked = Nobody
  BY <1>2, <1>3, ElectorsFacts DEF ElectionInv, Fresh, VotersOf
<1>4. CASE asked # Nobody /\ i # c
  BY <1>2, <1>4, ElectorsFacts DEF ElectionInv, Underway, VotersOf
<1>5. CASE asked # Nobody /\ i = c
  <2>1. votesReceived[c] = Cardinality(VotersOf(c)) /\ votesReceived[c] \in Nat
    BY <1>1, <1>5 DEF ElectionInv, Underway, ElectionTypeOK
  <2>2. \A j \in VotersOf(c) : term[j] = term[c]
    BY <1>5 DEF ElectionInv, Underway, VotersOf
  <2>3. \A j \in Electors : timeouts[c] <= timeouts[j]
    <3>1. \A j \in Electors : timeouts[j] \in Nat
      BY ElectionAssumption DEF ElectionInv, ElectionTypeOK
    <3>2. \A j \in Electors : timeouts[c] < timeouts[j] \/ timeouts[c] = timeouts[j]
      BY <1>1 DEF EndsFirst
    <3> HIDE DEF c
    <3> QED  BY <1>1, <3>1, <3>2
  <2>4. role[c] = "LEADER" =>
          /\ 2 * votesReceived[c] > numElectors
          /\ \A j \in Electors : role[j] = "LEADER" => j = c
    BY <1>1, <1>5, <2>1, ElectionAssumption DEF ElectionInv, Underway, majority
  <2> QED  BY <1>5, <2>1, <2>2, <2>3, <2>4
<1> QED  BY <1>3, <1>4, <1>5

(* The candidate counts exactly the votes given to it, so that a leader    *)
(* has a majority of any number of nodes in its term and is the only one.  *)
THEOREM LeaderIsElected == ElectionSpec => []LeaderHasMajority
<1>1. ElectionInv /\ [ElectionNext]_electionVars => ElectionInv'
  BY StandKeeps, RequestVoteKeeps, ConcludeKeeps, ElectionStutters DEF ElectionNext
<1> QED  BY ElectionStarts, <1>1, InvImpliesMajority, PTL DEF ElectionSpec

-----------------------------------------------------------------------------
(* Consistent hashing.  The invariant: a point of the ring belongs to the  *)
(* server whose virtual node it is, and all its other virtual nodes are on *)
(* the ring with it.  A point is then on the ring as long as its server.   *)
RingInv ==
  /\ DOMAIN ring \subseteq Positions
  /\ ring = [p \in DOMAIN ring |-> ring[p]]
  /\ \A p \in DOMAIN ring : /\ ring[p] \in Servers
                            /\ p \in VirtualNodes[ring[p]]
                            /\ VirtualNodes[ring[p]] \subseteq DOMAIN ring

(* p is the first point of D at or after k, or the first of all.           *)
IsPoint(D, k, p) ==
  /\ p \in D
  /\ \/ p >= k /\ \A q \in D : q >= k => p <= q
     \/ \A q \in D : q < k /\ p <= q

FirstFrom(D, k) ==
  LET from == {p \in D : p >= k}
      S == IF from = {} THEN D ELSE from
  IN  CHOOSE p \in S : \A q \in S : p <= q

LEMMA FirstIsPoint ==
  ASSUME NEW D, D \subseteq Nat, D # {}, NEW k \in Nat
  PROVE  IsPoint(D, k, FirstFrom(D, k))
<1> DEFINE from == {p \in D : p >= k}
           S == IF from = {} THEN D ELSE from
           x == CHOOSE p \in S : \A q \in S : p <= q
<1>1. S \subseteq Nat /\ S # {}
  OBVIOUS
<1>2. \E p \in S : \A q \in S : p <= q
  <2> HIDE DEF S
  <2> QED  BY <1>1, HasLeast
<1>3. x \in S /\ \A q \in S : x <= q
  <2> HIDE DEF S
  <2> QED  BY <1>2
<1>4. FirstFrom(D, k) = x
  BY DEF FirstFrom
<1> HIDE DEF x
<1>5. IsPoint(D, k, x)
  BY <1>3 DEF IsPoint
<1> QED  BY <1>4, <1>5

LEMMA PointIsOne ==
  ASSUME NEW D, D \subseteq Nat, NEW k \in Nat,
         NEW p, IsPoint(D, k, p), NEW q, IsPoint(D, k, q)
  PROVE  p = q
BY DEF IsPoint

LEMMA RingKept == RingInv /\ [RingNext]_ring => RingInv'
<1> SUFFICES ASSUME RingInv, [RingNext]_ring PROVE RingInv'
  OBVIOUS
<1>1. ASSUME NEW s \in Servers, addServer(s) PROVE RingInv'
  <2>1. VirtualNodes[s] \subseteq Positions
    BY RingAssumption
  <2>2. ring' = [p \in DOMAIN ring \cup VirtualNodes[s] |->
                   IF p \in VirtualNodes[s] THEN s ELSE ring[p]]
    BY <1>1 DEF addServer
  <2> QED  BY <2>1, <2>2 DEF RingInv
<1>2. ASSUME NEW s \in Servers, removeServer(s) PROVE RingInv'
  <2>1. ring' = [p \in DOMAIN ring \ VirtualNodes[s] |-> ring[p]]
    BY <1>2 DEF removeServer
  <2>2. ASSUME NEW p \in DOMAIN ring', NEW q \in VirtualNodes[ring[p]] PROVE q \notin VirtualNodes[s]
    <3>1. p \in DOMAIN ring /\ p \notin VirtualNodes[s]
      BY <2>1, <2>2
    <3>2. ring[p] \in Servers /\ ring[p] # s
      BY <3>1 DEF RingInv
    <3> QED  BY <2>2, <3>2, RingAssumption
  <2> QED  BY <2>1, <2>2 DEF RingInv
<1>3. CASE UNCHANGED ring
  BY <1>3 DEF RingInv
<1> QED  BY <1>1, <1>2, <1>3 DEF RingNext

(* A server that is on the ring is at each of its virtual nodes.           *)
LEMMA MemberIsEverywhere ==
  ASSUME RingInv, NEW s \in Servers
  PROVE  /\ s \in Members => VirtualNodes[s] \subseteq DOMAIN ring
         /\ \A p \in DOMAIN ring : p \in VirtualNodes[s] => ring[p] = s
<1>1. s \in Members => VirtualNodes[s] \subseteq DOMAIN ring
  BY DEF RingInv, Members
<1>2. ASSUME NEW p \in DOMAIN ring, p \in VirtualNodes[s] PROVE ring[p] = s
  BY <1>2, RingAssumption DEF RingInv
<1> QED  BY <1>1, <1>2

LEMMA KeyStays ==
  ASSUME RingInv, RingInv', RingNext, NEW k \in Positions, getServer(k)' # getServer(k)
  PROVE  \/ getServer(k)' \in Members' \ Members
         \/ getServer(k) \in (Members \cup {NoServer}) \ Members'
<1> DEFINE D == DOMAIN ring  p == Point(k)
<1>1. k \in Nat /\ D \subseteq Nat
  BY RingAssumption DEF RingInv
<1>2. D # {} => IsPoint(D, k, p)
  <2>1. p = FirstFrom(D, k)
    BY DEF Point, FirstFrom
  <2> HIDE DEF p, D
  <2> QED  BY <1>1, <2>1, FirstIsPoint
<1>3. DOMAIN ring' # {} => IsPoint(DOMAIN ring', k, Point(k)')
  <2>1. Point(k)' = FirstFrom(DOMAIN ring', k)
    BY DEF Point, FirstFrom
  <2>2. DOMAIN ring' \subseteq Nat
    BY RingAssumption DEF RingInv
  <2> QED  BY <1>1, <2>1, <2>2, FirstIsPoint
<1>4. D = {} => ring = [q \in {} |-> NoServer]
  BY DEF RingInv
<1>5. getServer(k) = IF D = {} THEN NoServer ELSE ring[p]
  BY <1>4 DEF getServer
<1>6. getServer(k)' = IF DOMAIN ring' = {} THEN NoServer ELSE ring'[Point(k)']
  <2>1. DOMAIN ring' = {} => ring' = [q \in {} |-> NoServer]
    BY DEF RingInv
  <2> QED  BY <2>1 DEF getServer
<1>7. ASSUME NEW s \in Servers, addServer(s) PROVE getServer(k)' \in Members' \ Members
  <2>1. ring' = [q \in D \cup VirtualNodes[s] |->
                   IF q \in VirtualNodes[s] THEN s ELSE ring[q]]
    BY <1>7 DEF addServer
  <2>2. DOMAIN ring' # {} /\ DOMAIN ring' = D \cup VirtualNodes[s]
    <3>1. VirtualNodes[s] # {}
      BY RingAssumption
    <3> QED  BY <2>1, <3>1
  <2>3. IsPoint(DOMAIN ring', k, Point(k)')
    BY <1>3, <2>2
  <2> DEFINE r == Point(k)'
  <2>4. getServer(k)' = ring'[r] /\ r \in DOMAIN ring'
    BY <1>6, <2>2, <2>3 DEF IsPoint
  <2> HIDE DEF r, p
  <2>5. r \in VirtualNodes[s]
    <3>1. SUFFICES ASSUME r \notin VirtualNodes[s] PROVE FALSE
      OBVIOUS
    <3>2. r \in D /\ IsPoint(D, k, r)
      BY <2>2, <2>3, <3>1 DEF IsPoint, r
    <3>3. r = p
      BY <1>1, <1>2, <3>2, PointIsOne
    <3> QED  BY <1>5, <2>1, <2>4, <3>1, <3>2, <3>3
  <2>6. getServer(k)' = s /\ s \in Members'
    BY <2>1, <2>4, <2>5 DEF Members
  <2>7. s \notin Members
    <3>1. SUFFICES ASSUME s \in Members PROVE FALSE
      OBVIOUS
    <3>2. VirtualNodes[s] \subseteq D /\ \A q \in D : q \in VirtualNodes[s] => ring[q] = s
      BY <3>1, MemberIsEverywhere
    <3>3. ring' = ring
      BY <2>1, <3>2 DEF RingInv
    <3>4. getServer(k)' = getServer(k)
      BY <3>3 DEF getServer, Point
    <3> QED  BY <3>4
  <2> QED  BY <2>6, <2>7
<1>8. ASSUME NEW s \in Servers, removeServer(s)
      PROVE  getServer(k) \in Members \ Members'
  <2>1. ring' = [q \in D \ VirtualNodes[s] |-> ring[q]]
    BY <1>8 DEF removeServer
  <2>2. D # {}
    BY <1>5, <1>6, <2>1
  <2>3. IsPoint(D, k, p) /\ p \in D /\ getServer(k) = ring[p]
    BY <1>2, <1>5, <2>2 DEF IsPoint
  <2> DEFINE r == Point(k)'
  <2> HIDE DEF p, r
  <2>4. p \in VirtualNodes[s]
    <3>1. SUFFICES ASSUME p \notin VirtualNodes[s] PROVE FALSE
      OBVIOUS
    <3>2. DOMAIN ring' # {} /\ p \in DOMAIN ring' /\ DOMAIN ring' \subseteq D
      BY <2>1, <2>3, <3>1
    <3>3. IsPoint(DOMAIN ring', k, p) /\ IsPoint(DOMAIN ring', k, r)
      BY <1>3, <2>3, <3>2 DEF IsPoint, r
    <3>4. p = r
      BY <1>1, <3>2, <3>3, PointIsOne
    <3> QED  BY <1>6, <2>1, <2>3, <3>1, <3>2, <3>4 DEF r
  <2>5. ring[p] = s /\ s \in Members
    BY <2>3, <2>4, MemberIsEverywhere DEF Members
  <2>6. s \notin Members'
    BY <2>1, RingAssumption DEF Members, RingInv
  <2> QED  BY <2>3, <2>5, <2>6
<1> QED  BY <1>7, <1>8 DEF RingNext

(* When servers come or go, only the keys move that have to: to a server   *)
(* that has come, or from one that has gone.                               *)
THEOREM KeysMoveLittle == RingSpec => MinimalReshuffling
<1>1. RingInit => RingInv
  BY DEF RingInit, RingInv
<1>2. RingInv /\ RingInv' /\ [RingNext]_ring => [KeysStay]_ring
  BY KeyStays DEF KeysStay
<1> QED  BY <1>1, <1>2, RingKept, PTL DEF RingSpec, MinimalReshuffling

-----------------------------------------------------------------------------
(* The G-counter.  The invariant: what a replica, or a copy of one, has    *)
(* learnt of each other replica is its first increments up to some number, *)
(* and that number is its entry.  So a merge, which takes the greater      *)
(* number, takes the union of what both have learnt.                       *)
UpTo(c) == {v \in Replicas \X Nat : v[2] \in 1 .. c[v[1]]}

CounterInv ==
  /\ counts \in [Replicas -> [Replicas -> Nat]]
  /\ seen \in [Replicas -> SUBSET (Replicas \X Nat)]
  /\ \A r \in Replicas : seen[r] = UpTo(counts[r])
  /\ \A m \in copies : m.counts \in [Replicas -> Nat] /\ m.seen = UpTo(m.counts)

LEMMA UpToMerged ==
  ASSUME NEW p \in [Replicas -> Nat], NEW q \in [Replicas -> Nat]
  PROVE  Merged(p, q) \in [Replicas -> Nat] /\ UpTo(Merged(p, q)) = UpTo(p) \cup UpTo(q)
<1> DEFINE m == Merged(p, q)
<1>1. \A i \in Replicas : m[i] = IF p[i] > q[i] THEN p[i] ELSE q[i]
  BY DEF Merged
<1>2. m \in [Replicas -> Nat]
  BY DEF Merged
<1> HIDE DEF m
<1>3. UpTo(m) = UpTo(p) \cup UpTo(q)
  BY <1>1, <1>2 DEF UpTo
<1> QED  BY <1>2, <1>3 DEF m

LEMMA UpToIncrement ==
  ASSUME NEW c \in [Replicas -> Nat], NEW r \in Replicas
  PROVE  LET d == [c EXCEPT ![r] = @ + 1]
         IN  d \in [Replicas -> Nat] /\ UpTo(d) = UpTo(c) \cup {<<r, c[r] + 1>>}
<1> DEFINE d == [c EXCEPT ![r] = @ + 1]
<1>1. \A i \in Replicas : d[i] = IF i = r THEN c[i] + 1 ELSE c[i]
  OBVIOUS
<1>2. d \in [Replicas -> Nat]
  OBVIOUS
<1> HIDE DEF d
<1>3. UpTo(d) = UpTo(c) \cup {<<r, c[r] + 1>>}
  BY <1>1, <1>2 DEF UpTo
<1> QED  BY <1>2, <1>3 DEF d

LEMMA CounterKept == CounterInv /\ [CounterNext]_counterVars => CounterInv'
<1> SUFFICES ASSUME CounterInv, [CounterNext]_counterVars PROVE CounterInv'
  OBVIOUS
<1>1. ASSUME NEW r \in Replicas, increment(r) PROVE CounterInv'
  <2> DEFINE d == [counts[r] EXCEPT ![r] = @ + 1]
  <2>1. counts[r] \in [Replicas -> Nat] /\ seen[r] = UpTo(counts[r])
    BY DEF CounterInv
  <2>2. d \in [Replicas -> Nat] /\ UpTo(d) = seen[r] \cup {<<r, counts[r][r] + 1>>}
    BY <2>1, UpToIncrement
  <2>3. /\ counts' = [counts EXCEPT ![r] = d]
        /\ seen' = [seen EXCEPT ![r] = seen[r] \cup {<<r, counts[r][r] + 1>>}]
        /\ copies' = copies
    BY <1>1 DEF increment, CounterInv
  <2>4. UpTo(d) \subseteq Replicas \X Nat
    BY DEF UpTo
  <2> HIDE DEF d
  <2> QED  BY <2>2, <2>3, <2>4 DEF CounterInv
<1>2. ASSUME NEW r \in Replicas, Copy(r) PROVE CounterInv'
  BY <1>2 DEF Copy, CounterInv
<1>3. ASSUME NEW r \in Replicas, NEW m \in copies, Merge(r, m) PROVE CounterInv'
  <2> DEFINE d == Merged(counts[r], m.counts)
  <2>1. counts[r] \in [Replicas -> Nat] /\ seen[r] = UpTo(counts[r])
    BY DEF CounterInv
  <2>2. m.counts \in [Replicas -> Nat] /\ m.seen = UpTo(m.counts)
    BY DEF CounterInv
  <2>3. d \in [Replicas -> Nat] /\ UpTo(d) = seen[r] \cup m.seen
    BY <2>1, <2>2, UpToMerged
  <2>4. /\ counts' = [counts EXCEPT ![r] = d] /\ seen' = [seen EXCEPT ![r] = seen[r] \cup m.seen]
        /\ copies' = copies
    BY <1>3 DEF Merge, CounterInv
  <2>5. UpTo(d) \subseteq Replicas \X Nat
    BY DEF UpTo
  <2> HIDE DEF d
  <2> QED  BY <2>3, <2>4, <2>5 DEF CounterInv
<1>4. ASSUME NEW m \in copies, Lose(m) PROVE CounterInv'
  BY <1>4 DEF Lose, CounterInv
<1>5. CASE UNCHANGED counterVars
  BY <1>5 DEF counterVars, CounterInv
<1> QED  BY <1>1, <1>2, <1>3, <1>4, <1>5 DEF CounterNext

LEMMA ValueIsSum ==
  ASSUME NEW c \in [Replicas -> Nat]
  PROVE  value(c) = Cardinality(UpTo(c))
<1>1. IsFiniteSet(Replicas)
  <2>1. 0 \in Int /\ numReplicas - 1 \in Int
    BY CounterAssumption
  <2> QED  BY <2>1, FS_Interval DEF Replicas
<1> DEFINE g == CHOOSE g : g = [s \in SUBSET Replicas |->
                  IF s = {} THEN 0 ELSE c[CHOOSE x \in s : TRUE] + g[s \ {CHOOSE x \in s : TRUE}]]
<1>2. value(c) = g[Replicas]
  <2>1. DOMAIN c = Replicas
    OBVIOUS
  <2> QED  BY <2>1 DEF value, FoldFunction, FoldFunctionOnSet, MapThenFoldSet
<1>3. PICK k : IsSum(k, c, Replicas)
  BY <1>1, SumExists
<1>4. k = [s \in SUBSET Replicas |->
             IF s = {} THEN 0 ELSE c[CHOOSE x \in s : TRUE] + k[s \ {CHOOSE x \in s : TRUE}]]
  BY <1>3 DEF IsSum, AnyOf
<1>5. g = [s \in SUBSET Replicas |->
             IF s = {} THEN 0 ELSE c[CHOOSE x \in s : TRUE] + g[s \ {CHOOSE x \in s : TRUE}]]
  BY <1>4
<1> HIDE DEF g
<1>6. IsSum(g, c, Replicas)
  <2>1. g = [s \in SUBSET Replicas |-> IF s = {} THEN 0 ELSE c[AnyOf(s)] + g[s \ {AnyOf(s)}]]
    BY <1>5, Zenon DEF AnyOf
  <2>2. c \in [Replicas -> Int]
    OBVIOUS
  <2> QED  BY <1>1, <2>1, <2>2, SumIs
<1>7. Cardinality(Pairs(c, Replicas, Replicas)) = g[Replicas]
  BY <1>1, <1>6, SumCounts
<1>8. Pairs(c, Replicas, Replicas) = UpTo(c)
  BY DEF Pairs, UpTo
<1> QED  BY <1>2, <1>7, <1>8

(* The value of a replica is the number of increments it has made or       *)
(* learnt of, whatever was merged late, twice or never.                    *)
THEOREM IncrementsCountedOnce == CounterSpec => []EachCountedOnce
<1>1. CounterInit => CounterInv
  BY DEF CounterInit, CounterInv, UpTo
<1>2. CounterInv => EachCountedOnce
  BY ValueIsSum DEF CounterInv, EachCountedOnce
<1> QED  BY <1>1, <1>2, CounterKept, PTL DEF CounterSpec

-----------------------------------------------------------------------------
(* Vector clocks.  A clock is a true view of a set of events K when all in *)
(* K have lesser clocks, when an event whose own entry the clock has       *)
(* reached is in K, and when no entry is ahead of the node it counts.  The *)
(* invariant: each event's clock is a true view of the event and its past, *)
(* and each node's clock of what the node knows.  own[i] is the node of    *)
(* event i.                                                                *)
Event == [clock : [NodeIds -> Nat], past : SUBSET Nat]

IsViewOf(evs, clk, own, c, K) ==
  /\ c \in [NodeIds -> Nat] /\ K \subseteq DOMAIN evs
  /\ \A i \in DOMAIN evs : /\ i \in K => LessEq(evs[i].clock, c)
                           /\ evs[i].clock[own[i]] <= c[own[i]] => i \in K
  /\ \A q \in NodeIds : c[q] <= clk[q][q]

IsView(own, c, K) == IsViewOf(events, clock, own, c, K)

Past(j) == events[j].past \cup {j}

TrueViews(own) ==
  /\ own \in [DOMAIN events -> NodeIds]
  /\ \A j \in DOMAIN events : /\ events[j].past \subseteq 1 .. j - 1
                              /\ IsView(own, events[j].clock, Past(j))
  /\ \A p \in NodeIds : IsView(own, clock[p], known[p])

ClockInv ==
  /\ events \in Seq(Event)
  /\ clock \in [NodeIds -> [NodeIds -> Nat]]
  /\ known \in [NodeIds -> SUBSET Nat]
  /\ \E own : TrueViews(own)

(* The greater of two views, entry by entry, is a view of both sets.       *)
LEMMA ViewsMerged ==
  ASSUME ClockInv, NEW own, TrueViews(own), NEW a, NEW J, IsView(own, a, J),
         NEW c, NEW K, IsView(own, c, K)
  PROVE  IsView(own, [q \in NodeIds |-> IF a[q] > c[q] THEN a[q] ELSE c[q]], J \cup K)
<1> DEFINE m == [q \in NodeIds |-> IF a[q] > c[q] THEN a[q] ELSE c[q]]
<1>1. a \in [NodeIds -> Nat] /\ c \in [NodeIds -> Nat]
  BY DEF IsView, IsViewOf
<1>2. /\ m \in [NodeIds -> Nat]
      /\ \A q \in NodeIds : m[q] = IF a[q] > c[q] THEN a[q] ELSE c[q]
  BY <1>1
<1> HIDE DEF m
<1>3. \A q \in NodeIds : m[q] <= clock[q][q]
  BY <1>2 DEF IsView, IsViewOf
<1>4. ASSUME NEW i \in DOMAIN events
      PROVE  /\ i \in J \cup K => LessEq(events[i].clock, m)
             /\ events[i].clock[own[i]] <= m[own[i]] => i \in J \cup K
  <2>1. events[i].clock \in [NodeIds -> Nat] /\ own[i] \in NodeIds
    BY DEF TrueViews, IsView, IsViewOf
  <2>2. i \in J \cup K => LessEq(events[i].clock, a) \/ LessEq(events[i].clock, c)
    BY DEF IsView, IsViewOf
  <2>3. LessEq(events[i].clock, a) \/ LessEq(events[i].clock, c) => LessEq(events[i].clock, m)
    BY <1>1, <1>2, <2>1 DEF LessEq
  <2>4. events[i].clock[own[i]] <= m[own[i]] => i \in J \cup K
    BY <1>1, <1>2, <2>1 DEF IsView, IsViewOf
  <2> QED  BY <2>2, <2>3, <2>4
<1>5. J \cup K \subseteq DOMAIN events
  BY DEF IsView, IsViewOf
<1>6. IsView(own, m, J \cup K)
  BY <1>2, <1>3, <1>4, <1>5 DEF IsView, IsViewOf
<1> QED  BY <1>6 DEF m

(* A tick of node p makes its own entry greater than any clock has it, so  *)
(* that no clock from before is a view of the new event.                   *)
LEMMA NewEvent ==
  ASSUME ClockInv, NEW own, TrueViews(own), NEW p \in NodeIds,
         NEW m, NEW K, IsView(own, m, K), m[p] = clock[p][p], known[p] \subseteq K,
         Happen(p, Ticked(p, m), K)
  PROVE  ClockInv'
<1> DEFINE n == Len(events)
           c == Ticked(p, m)
           now == [i \in 1 .. n + 1 |-> IF i = n + 1 THEN p ELSE own[i]]
<1>1. /\ n \in Nat /\ DOMAIN events = 1 .. n
      /\ clock \in [NodeIds -> [NodeIds -> Nat]] /\ known \in [NodeIds -> SUBSET Nat]
      /\ events \in Seq(Event) /\ m \in [NodeIds -> Nat] /\ K \in SUBSET Nat /\ K \subseteq 1 .. n
  BY LenProperties DEF ClockInv, IsView, IsViewOf
<1>0. n + 1 \in Nat /\ \A i \in 1 .. n : i # n + 1
  BY <1>1
<1>2. /\ c \in [NodeIds -> Nat] /\ c[p] = m[p] + 1
      /\ \A q \in NodeIds : q # p => c[q] = m[q]
  BY <1>1 DEF Ticked
<1> HIDE DEF c, now, n
<1>3. /\ clock' = [clock EXCEPT ![p] = c]
      /\ events' = Append(events, [clock |-> c, past |-> K])
      /\ known' = [known EXCEPT ![p] = K \cup {n + 1}]
  BY DEF Happen, c, n
<1>4. /\ events' \in Seq(Event) /\ Len(events') = n + 1 /\ DOMAIN events' = 1 .. n + 1
      /\ \A i \in 1 .. n : events'[i] = events[i]
      /\ events'[n + 1] = [clock |-> c, past |-> K]
  <2>1. [clock |-> c, past |-> K] \in Event
    BY <1>1, <1>2 DEF Event
  <2>2. /\ events' \in Seq(Event) /\ Len(events') = n + 1
        /\ \A i \in 1 .. n : events'[i] = events[i]
        /\ events'[n + 1] = [clock |-> c, past |-> K]
    BY <1>1, <1>3, <2>1, AppendProperties DEF n
  <2> QED  BY <2>2, LenProperties
<1>5. /\ clock' \in [NodeIds -> [NodeIds -> Nat]] /\ known' \in [NodeIds -> SUBSET Nat]
      /\ clock'[p] = c /\ known'[p] = K \cup {n + 1}
      /\ \A q \in NodeIds : q # p => clock'[q] = clock[q] /\ known'[q] = known[q]
  BY <1>0, <1>1, <1>2, <1>3
<1>6. /\ now \in [1 .. n + 1 -> NodeIds] /\ now[n + 1] = p
      /\ \A i \in 1 .. n : now[i] = own[i] /\ own[i] \in NodeIds
  <2>1. own \in [1 .. n -> NodeIds]
    BY <1>1 DEF TrueViews
  <2> QED  BY <1>0, <1>1, <2>1 DEF now
<1>7. ASSUME NEW q \in NodeIds
      PROVE  clock[q][q] \in Nat /\ clock'[q][q] \in Nat /\ clock[q][q] <= clock'[q][q]
  <2>1. clock[q] \in [NodeIds -> Nat]
    BY <1>1
  <2>2. CASE q = p
    BY <1>2, <1>5, <2>1, <2>2
  <2>3. CASE q # p
    BY <1>5, <2>1, <2>3
  <2> QED  BY <2>2, <2>3
<1>8. ASSUME NEW a, NEW J, IsView(own, a, J) PROVE IsViewOf(events', clock', now, a, J)
  <2>1. a \in [NodeIds -> Nat] /\ J \subseteq 1 .. n
    BY <1>1, <1>8 DEF IsView, IsViewOf
  <2>2. ASSUME NEW q \in NodeIds PROVE a[q] <= clock'[q][q]
    <3>1. a[q] \in Nat /\ a[q] <= clock[q][q]
      BY <1>8, <2>1 DEF IsView, IsViewOf
    <3> QED  BY <1>7, <3>1
  <2>3. ASSUME NEW i \in 1 .. n
        PROVE  /\ i \in J => LessEq(events'[i].clock, a)
               /\ events'[i].clock[now[i]] <= a[now[i]] => i \in J
    BY <1>1, <1>4, <1>6, <1>8, <2>3 DEF IsView, IsViewOf
  <2>4. ~ (events'[n + 1].clock[now[n + 1]] <= a[now[n + 1]]) /\ n + 1 \notin J
    <3>1. events'[n + 1].clock[now[n + 1]] = clock[p][p] + 1
      BY <1>2, <1>4, <1>6
    <3>2. a[p] <= clock[p][p] /\ a[p] \in Nat /\ clock[p][p] \in Nat
      BY <1>1, <1>8, <2>1 DEF IsView, IsViewOf
    <3> QED  BY <1>1, <1>6, <2>1, <3>1, <3>2
  <2>5. \A i \in 1 .. n + 1 : i \in 1 .. n \/ i = n + 1
    BY <1>1
  <2>6. \A i \in 1 .. n + 1 : /\ i \in J => LessEq(events'[i].clock, a)
                              /\ events'[i].clock[now[i]] <= a[now[i]] => i \in J
    BY <2>3, <2>4, <2>5
  <2>7. J \subseteq 1 .. n + 1
    BY <1>1, <2>1
  <2> QED  BY <1>4, <2>1, <2>2, <2>6, <2>7 DEF IsView, IsViewOf, LessEq
<1>9. IsViewOf(events', clock', now, c, K \cup {n + 1})
  <2>1. K \cup {n + 1} \subseteq 1 .. n + 1
    BY <1>1
  <2>2. ASSUME NEW q \in NodeIds PROVE c[q] <= clock'[q][q]
    <3>1. CASE q = p
      BY <1>2, <1>5, <3>1
    <3>2. CASE q # p
      BY <1>2, <1>5, <3>2 DEF IsView, IsViewOf
    <3> QED  BY <3>1, <3>2
  <2>3. ASSUME NEW i \in 1 .. n
        PROVE  /\ i \in K => LessEq(events'[i].clock, c)
               /\ events'[i].clock[now[i]] <= c[now[i]] => i \in K
    <3>1. events'[i] = events[i] /\ now[i] = own[i] /\ own[i] \in NodeIds /\ i \in DOMAIN events
      BY <1>1, <1>4, <1>6
    <3>2. events[i].clock \in [NodeIds -> Nat]
      BY <3>1 DEF TrueViews, IsView, IsViewOf
    <3>3. i \in K => LessEq(events'[i].clock, c)
      <4>1. i \in K => LessEq(events[i].clock, m)
        BY <3>1 DEF IsView, IsViewOf
      <4>2. LessEq(events[i].clock, m) => LessEq(events[i].clock, c)
        <5>1. ASSUME NEW q \in NodeIds PROVE m[q] \in Nat /\ c[q] \in Nat /\ m[q] <= c[q]
          <6>1. CASE q = p
            BY <1>1, <1>2, <6>1
          <6>2. CASE q # p
            BY <1>1, <1>2, <6>2
          <6> QED  BY <6>1, <6>2
        <5>2. \A q \in NodeIds : events[i].clock[q] \in Nat
          BY <3>2
        <5> QED  BY <5>1, <5>2 DEF LessEq
      <4> QED  BY <3>1, <4>1, <4>2
    <3>4. CASE own[i] # p
      BY <1>2, <3>1, <3>3, <3>4 DEF IsView, IsViewOf
    <3>5. CASE own[i] = p
      <4>1. events[i].clock[p] <= clock[p][p]
        BY <3>1 DEF TrueViews, IsView, IsViewOf
      <4>2. i \in known[p]
        BY <3>1, <3>5, <4>1 DEF TrueViews, IsView, IsViewOf
      <4> QED  BY <3>3, <4>2
    <3> QED  BY <3>4, <3>5
  <2>4. LessEq(events'[n + 1].clock, c)
    BY <1>2, <1>4 DEF LessEq
  <2>5. \A i \in 1 .. n + 1 : i \in 1 .. n \/ i = n + 1
    BY <1>1
  <2>6. \A i \in 1 .. n + 1 :
          /\ i \in K \cup {n + 1} => LessEq(events'[i].clock, c)
          /\ events'[i].clock[now[i]] <= c[now[i]] => i \in K \cup {n + 1}
    BY <1>1, <2>3, <2>4, <2>5
  <2> QED  BY <1>2, <1>4, <2>1, <2>2, <2>6 DEF IsView, IsViewOf, LessEq
<1>10. ASSUME NEW j \in 1 .. n + 1
       PROVE  /\ events'[j].past \subseteq 1 .. j - 1
              /\ IsViewOf(events', clock', now, events'[j].clock, events'[j].past \cup {j})
  <2>1. CASE j = n + 1
    BY <1>1, <1>4, <1>9, <2>1 DEF Past, IsView, IsViewOf, LessEq
  <2>2. CASE j # n + 1
    <3>1. j \in 1 .. n /\ events'[j] = events[j] /\ j \in DOMAIN events
      BY <1>1, <1>4, <2>2
    <3>2. IsView(own, events[j].clock, Past(j)) /\ events[j].past \subseteq 1 .. j - 1
      BY <3>1 DEF TrueViews
    <3>3. events'[j].past \cup {j} = Past(j)
      BY <3>1 DEF Past
    <3>4. IsViewOf(events', clock', now, events[j].clock, Past(j))
      BY <1>8, <3>2
    <3> QED  BY <3>1, <3>2, <3>3, <3>4
  <2> QED  BY <2>1, <2>2
<1>11. ASSUME NEW q \in NodeIds PROVE IsViewOf(events', clock', now, clock'[q], known'[q])
  <2>1. CASE q = p
    BY <1>5, <1>9, <2>1 DEF IsView, IsViewOf, LessEq
  <2>2. CASE q # p
    <3>1. IsView(own, clock[q], known[q])
      BY DEF TrueViews
    <3>2. IsViewOf(events', clock', now, clock[q], known[q])
      BY <1>8, <3>1
    <3> QED  BY <1>5, <2>2, <3>2
  <2> QED  BY <2>1, <2>2
<1>12. PICK o : o = now
  OBVIOUS
<1>13. TrueViews(o)'
  <2>1. \A j \in DOMAIN events' :
          /\ events'[j].past \subseteq 1 .. j - 1
          /\ IsViewOf(events', clock', now, events'[j].clock, events'[j].past \cup {j})
    BY <1>4, <1>10
  <2>2. now \in [DOMAIN events' -> NodeIds]
    BY <1>4, <1>6
  <2> QED  BY <1>11, <1>12, <2>1, <2>2 DEF TrueViews, IsView, Past
<1> QED  BY <1>4, <1>5, <1>13 DEF ClockInv

LEMMA ClockKept == ClockInv /\ [ClockNext]_clockVars => ClockInv'
<1> SUFFICES ASSUME ClockInv, [ClockNext]_clockVars PROVE ClockInv'
  OBVIOUS
<1>1. PICK own : TrueViews(own)
  BY DEF ClockInv
<1>2. ASSUME NEW p \in NodeIds, tick(p) PROVE ClockInv'
  <2>1. IsView(own, clock[p], known[p])
    BY <1>1 DEF TrueViews
  <2>2. Happen(p, Ticked(p, clock[p]), known[p])
    BY <1>2 DEF tick
  <2> QED  BY <1>1, <2>1, <2>2, NewEvent
<1>3. ASSUME NEW p \in NodeIds, NEW e \in DOMAIN events, merge(p, e) PROVE ClockInv'
  <2> DEFINE a == clock[p]  d == events[e].clock
             m == [q \in NodeIds |-> IF a[q] > d[q] THEN a[q] ELSE d[q]]
             K == known[p] \cup Past(e)
  <2>1. IsView(own, a, known[p]) /\ IsView(own, d, Past(e))
    BY <1>1 DEF TrueViews
  <2>2. IsView(own, m, K)
    BY <1>1, <2>1, ViewsMerged
  <2>3. m[p] = clock[p][p]
    <3>1. a \in [NodeIds -> Nat] /\ d \in [NodeIds -> Nat] /\ d[p] <= clock[p][p]
      BY <2>1 DEF IsView, IsViewOf
    <3> QED  BY <3>1
  <2>4. Happen(p, Ticked(p, m), K)
    <3>1. Received(p, e) = Ticked(p, m)
      BY DEF Received
    <3>2. known[p] \cup events[e].past \cup {e} = K
      BY DEF Past
    <3> QED  BY <1>3, <3>1, <3>2 DEF merge
  <2>5. known[p] \subseteq K
    OBVIOUS
  <2> HIDE DEF m, K
  <2> QED  BY <1>1, <2>2, <2>3, <2>4, <2>5, NewEvent
<1>4. CASE UNCHANGED clockVars
  BY <1>4 DEF clockVars, ClockInv, TrueViews, IsView, IsViewOf, Past
<1> QED  BY <1>2, <1>3, <1>4 DEF ClockNext

LEMMA ClocksAreCausality == ClockInv => CompareIsCausality
<1> SUFFICES ASSUME ClockInv, NEW i \in DOMAIN events, NEW j \in DOMAIN events
             PROVE  compare(events[i].clock, events[j].clock) =
                      (IF i = j THEN "EQUAL" ELSE IF i \in events[j].past THEN "BEFORE"
                       ELSE IF j \in events[i].past THEN "AFTER" ELSE "CONCURRENT")
  BY DEF CompareIsCausality
<1>1. PICK own : TrueViews(own)
  BY DEF ClockInv
<1>2. i \in Nat /\ j \in Nat
  BY LenProperties DEF ClockInv
<1>3. ASSUME NEW k \in DOMAIN events, NEW l \in DOMAIN events
      PROVE  LessEq(events[k].clock, events[l].clock) <=> k \in Past(l)
  <2>1. IsView(own, events[l].clock, Past(l)) /\ own[k] \in NodeIds
    BY <1>1 DEF TrueViews
  <2> QED  BY <2>1 DEF IsView, IsViewOf, LessEq
<1>4. ~ (i \in events[j].past /\ j \in events[i].past)
  <2>1. events[j].past \subseteq 1 .. j - 1 /\ events[i].past \subseteq 1 .. i - 1
    BY <1>1 DEF TrueViews
  <2> QED  BY <1>2, <2>1
<1> QED  BY <1>3, <1>4 DEF compare, Past

(* compare() tells from two clocks alone which event led to the other,     *)
(* whatever clocks were merged late or twice.                              *)
THEOREM ClocksTellCausality == ClockSpec => []CompareIsCausality
<1>1. ClockInit => ClockInv
  <2> SUFFICES ASSUME ClockInit PROVE ClockInv
    OBVIOUS
  <2>1. /\ DOMAIN events = {} /\ events \in Seq(Event)
        /\ clock \in [NodeIds -> [NodeIds -> Nat]] /\ known \in [NodeIds -> SUBSET Nat]
    BY DEF ClockInit
  <2>2. TrueViews([k \in {} |-> 0])
    BY <2>1 DEF ClockInit, TrueViews, IsView, IsViewOf
  <2> QED  BY <2>1, <2>2 DEF ClockInv
<1> QED  BY <1>1, ClockKept, ClocksAreCausality, PTL DEF ClockSpec

-----------------------------------------------------------------------------
(* Simulated annealing.  The cost of a tour is a natural number; the       *)
(* invariant adds to the property that the current cost is among those     *)
(* looked at, so that a longer route, swapped back, is longer than the     *)
(* best one too.                                                           *)
AnnealingInv ==
  /\ route \in [Cities -> Cities] /\ IsTour(route) /\ currentCost = routeCost(route)
  /\ bestRoute \in [Cities -> Cities] /\ IsTour(bestRoute) /\ bestCost = routeCost(bestRoute)
  /\ proposed \subseteq Int /\ currentCost \in proposed /\ bestCost \in proposed
  /\ \A c \in proposed : bestCost <= c

LEMMA CostIsNumber == ASSUME NEW r \in [Cities -> Cities] PROVE routeCost(r) \in Int
<1> DEFINE leg == [i \in Cities |-> dist[r[i]][r[(i + 1) % numCities]]]
<1>1. IsFiniteSet(Cities)
  <2>1. 0 \in Int /\ numCities - 1 \in Int
    BY AnnealingAssumption
  <2> QED  BY <2>1, FS_Interval DEF Cities
<1>2. ASSUME NEW i \in Cities PROVE dist[r[i]][r[(i + 1) % numCities]] \in Nat
  <2>1. (i + 1) % numCities \in Cities
    <3>1. ASSUME NEW m \in Nat, NEW n \in Nat \ {0} PROVE m % n \in 0 .. n - 1
      OBVIOUS
    <3>2. i + 1 \in Nat /\ numCities \in Nat \ {0}
      BY AnnealingAssumption DEF Cities
    <3> QED  BY <3>1, <3>2 DEF Cities
  <2>2. r[i] \in Cities /\ r[(i + 1) % numCities] \in Cities
    BY <2>1
  <2>3. dist \in [Cities -> [Cities -> Nat]]
    BY AnnealingAssumption
  <2> HIDE DEF leg
  <2> QED  BY <2>2, <2>3
<1>3. leg \in [Cities -> Int]
  BY <1>2
<1> DEFINE g == CHOOSE g : g = [s \in SUBSET Cities |->
                  IF s = {} THEN 0
                  ELSE dist[r[CHOOSE x \in s : TRUE]][r[((CHOOSE x \in s : TRUE) + 1) % numCities]]
                       + g[s \ {CHOOSE x \in s : TRUE}]]
<1>4. routeCost(r) = g[Cities]
  BY DEF routeCost, MapThenSumSet, MapThenFoldSet
<1>5. PICK k : IsSum(k, leg, Cities)
  <2> HIDE DEF leg
  <2> QED  BY <1>1, <1>3, SumExists
<1>6. ASSUME NEW s \in SUBSET Cities, s # {}
      PROVE  leg[AnyOf(s)] = dist[r[CHOOSE x \in s : TRUE]][r[((CHOOSE x \in s : TRUE) + 1) % numCities]]
  <2>1. AnyOf(s) \in Cities
    BY <1>6 DEF AnyOf
  <2> QED  BY <2>1 DEF AnyOf
<1>7. k = [s \in SUBSET Cities |->
             IF s = {} THEN 0
             ELSE dist[r[CHOOSE x \in s : TRUE]][r[((CHOOSE x \in s : TRUE) + 1) % numCities]]
                  + k[s \ {CHOOSE x \in s : TRUE}]]
  <2>1. k = [s \in SUBSET Cities |-> IF s = {} THEN 0 ELSE leg[AnyOf(s)] + k[s \ {AnyOf(s)}]]
    BY <1>5 DEF IsSum
  <2> HIDE DEF leg
  <2> QED  BY <1>6, <2>1 DEF AnyOf
<1>8. g = [s \in SUBSET Cities |->
             IF s = {} THEN 0
             ELSE dist[r[CHOOSE x \in s : TRUE]][r[((CHOOSE x \in s : TRUE) + 1) % numCities]]
                  + g[s \ {CHOOSE x \in s : TRUE}]]
  BY <1>7
<1> HIDE DEF g, leg
<1>9. g = [s \in SUBSET Cities |-> IF s = {} THEN 0 ELSE leg[AnyOf(s)] + g[s \ {AnyOf(s)}]]
  BY <1>6, <1>8, SMTT(30) DEF AnyOf
<1>10. IsSum(g, leg, Cities)
  BY <1>1, <1>3, <1>9, SumIs
<1>11. g[Cities] \in Int
  BY <1>1, <1>3, <1>10, SumStep
<1> QED  BY <1>4, <1>11

LEMMA SwapIsTour ==
  ASSUME NEW r \in [Cities -> Cities], IsTour(r), NEW i \in Cities, NEW j \in Cities
  PROVE  Swapped(r, i, j) \in [Cities -> Cities] /\ IsTour(Swapped(r, i, j))
<1> DEFINE n == Swapped(r, i, j)
<1>1. /\ n \in [Cities -> Cities] /\ n[j] = r[i] /\ n[i] = r[j]
      /\ \A k \in Cities : k # i /\ k # j => n[k] = r[k]
  BY DEF Swapped
<1> HIDE DEF n
<1>2. ASSUME NEW c \in Cities PROVE \E k \in Cities : n[k] = c
  <2>1. PICK k \in Cities : r[k] = c
    BY DEF IsTour
  <2> QED  BY <1>1, <2>1
<1>3. IsTour(n)
  BY <1>1, <1>2 DEF IsTour
<1> QED  BY <1>1, <1>3 DEF n

LEMMA AnnealingKept == AnnealingInv /\ [Propose]_annealingVars => AnnealingInv'
<1> SUFFICES ASSUME AnnealingInv, [Propose]_annealingVars PROVE AnnealingInv'
  OBVIOUS
<1>1. ASSUME NEW i \in Cities, NEW j \in Cities, Accept(i, j) \/ Reject(i, j),
             proposed' = proposed \cup {routeCost(Swapped(route, i, j))}
      PROVE  AnnealingInv'
  <2> DEFINE n == Swapped(route, i, j)
  <2>1. n \in [Cities -> Cities] /\ IsTour(n) /\ routeCost(n) \in Int
    BY SwapIsTour, CostIsNumber DEF AnnealingInv
  <2>2. currentCost \in Int /\ bestCost \in Int /\ bestCost <= currentCost
    BY DEF AnnealingInv
  <2> HIDE DEF n
  <2>3. CASE Accept(i, j) /\ routeCost(n) < bestCost
    <3>1. /\ route' = n /\ currentCost' = routeCost(n) /\ bestRoute' = n /\ bestCost' = routeCost(n)
          /\ proposed' = proposed \cup {routeCost(n)}
      BY <1>1, <2>3 DEF Accept, n
    <3>2. ASSUME NEW c \in proposed' PROVE bestCost' <= c
      BY <2>1, <2>2, <2>3, <3>1 DEF AnnealingInv
    <3>3. currentCost' \in proposed' /\ bestCost' \in proposed' /\ proposed' \subseteq Int
      BY <2>1, <3>1 DEF AnnealingInv
    <3> QED  BY <2>1, <3>1, <3>2, <3>3 DEF AnnealingInv, IsTour
  <2>4. CASE Accept(i, j) /\ ~ (routeCost(n) < bestCost)
    <3>1. /\ route' = n /\ currentCost' = routeCost(n) /\ bestRoute' = bestRoute /\ bestCost' = bestCost
          /\ proposed' = proposed \cup {routeCost(n)}
      BY <1>1, <2>4 DEF Accept, n
    <3>2. ASSUME NEW c \in proposed' PROVE bestCost' <= c
      BY <2>1, <2>2, <2>4, <3>1 DEF AnnealingInv
    <3>3. currentCost' \in proposed' /\ bestCost' \in proposed' /\ proposed' \subseteq Int
      BY <2>1, <3>1 DEF AnnealingInv
    <3> QED  BY <2>1, <3>1, <3>2, <3>3 DEF AnnealingInv, IsTour
  <2>5. CASE Reject(i, j)
    <3>1. /\ route' = route /\ currentCost' = currentCost /\ bestRoute' = bestRoute
          /\ bestCost' = bestCost /\ routeCost(n) > currentCost
          /\ proposed' = proposed \cup {routeCost(n)}
      BY <1>1, <2>5 DEF Reject, n
    <3>2. ASSUME NEW c \in proposed' PROVE bestCost' <= c
      BY <2>1, <2>2, <3>1 DEF AnnealingInv
    <3>3. currentCost' \in proposed' /\ bestCost' \in proposed' /\ proposed' \subseteq Int
      BY <2>1, <3>1 DEF AnnealingInv
    <3> QED  BY <2>1, <3>1, <3>2, <3>3 DEF AnnealingInv, IsTour
  <2> QED  BY <1>1, <2>3, <2>4, <2>5
<1>2. CASE UNCHANGED annealingVars
  BY <1>2 DEF annealingVars, AnnealingInv, IsTour
<1> QED  BY <1>1, <1>2 DEF Propose

(* The best cost is that of the best route, and the least of all that were *)
(* looked at, though the search goes on from longer ones.                  *)
THEOREM BestIsKept == AnnealingSpec => []BestIsBestSeen
<1>1. AnnealingInit => AnnealingInv
  <2> SUFFICES ASSUME AnnealingInit PROVE AnnealingInv
    OBVIOUS
  <2>1. route \in [Cities -> Cities] /\ IsTour(route)
    BY DEF AnnealingInit, IsTour
  <2>2. routeCost(route) \in Int
    BY <2>1, CostIsNumber
  <2> QED  BY <2>1, <2>2 DEF AnnealingInit, AnnealingInv
<1>2. AnnealingInv => BestIsBestSeen
  <2> SUFFICES ASSUME AnnealingInv PROVE BestIsBestSeen
    OBVIOUS
  <2>1. bestCost \in proposed /\ proposed \subseteq Int /\ \A c \in proposed : bestCost <= c
    BY DEF AnnealingInv
  <2>2. Min(proposed) = bestCost
    <3> DEFINE x == CHOOSE x \in proposed : \A y \in proposed : x <= y
    <3>1. x \in proposed /\ \A y \in proposed : x <= y
      BY <2>1
    <3>2. Min(proposed) = x
      BY DEF Min
    <3> HIDE DEF x
    <3> QED  BY <2>1, <3>1, <3>2
  <2> QED  BY <2>2 DEF AnnealingInv, BestIsBestSeen
<1> QED  BY <1>1, <1>2, AnnealingKept, PTL DEF AnnealingSpec

-----------------------------------------------------------------------------
(* Gossip.  Those that are told in a round are no more than those that     *)
(* tell.                                                                   *)
GossipInv ==
  /\ knownInfo \subseteq Peers /\ IsFiniteSet(knownInfo)
  /\ round \in Nat
  /\ AtMostDoubles

LEMMA PowersOfTwo ==
  /\ PowerOfTwo[0] = 1
  /\ \A n \in Nat : PowerOfTwo[n] \in Nat /\ PowerOfTwo[n + 1] = 2 * PowerOfTwo[n]
<1> DEFINE twice == [n \in Nat |-> 2 * n]
           Powers(f) == f = [n \in Nat |-> IF n = 0 THEN 1 ELSE 2 * f[n - 1]]
<1>1. PICK f : Iterates(f, Nat, 1, twice, Nat)
  <2>1. twice \in [Nat -> Nat]
    OBVIOUS
  <2> HIDE DEF twice
  <2> QED  BY <2>1, IteratesOnNat
<1>2. /\ f \in [Nat -> Nat] /\ f[0] = 1
      /\ \A n \in Nat : f[n + 1] = 2 * f[n]
  <2>1. f \in [Nat -> Nat] /\ f[0] = 1 /\ \A n \in Nat : n + 1 \in Nat => f[n + 1] = twice[f[n]]
    <3> HIDE DEF twice
    <3> QED  BY <1>1 DEF Iterates
  <2>2. ASSUME NEW n \in Nat PROVE f[n + 1] = 2 * f[n]
    <3>1. n + 1 \in Nat /\ f[n] \in Nat
      BY <2>1
    <3>2. f[n + 1] = twice[f[n]]
      BY <2>1, <3>1
    <3> QED  BY <3>1, <3>2
  <2> QED  BY <2>1, <2>2
<1>3. Powers(f)
  <2>1. ASSUME NEW n \in Nat PROVE f[n] = IF n = 0 THEN 1 ELSE 2 * f[n - 1]
    <3>1. CASE n = 0
      BY <1>2, <3>1
    <3>2. CASE n # 0
      <4>1. n - 1 \in Nat /\ (n - 1) + 1 = n
        BY <3>2
      <4> QED  BY <1>2, <3>2, <4>1
    <3> QED  BY <3>1, <3>2
  <2>2. f = [n \in Nat |-> f[n]]
    BY <1>2
  <2> QED  BY <2>1, <2>2
<1>4. PowerOfTwo = CHOOSE g : Powers(g)
  BY DEF PowerOfTwo
<1>5. Powers(PowerOfTwo)
  <2> HIDE DEF Powers
  <2> QED  BY <1>3, <1>4
<1> DEFINE g == PowerOfTwo
<1> HIDE DEF g
<1>6. \A n \in Nat : g[n] = IF n = 0 THEN 1 ELSE 2 * g[n - 1]
  <2>1. g = [n \in Nat |-> IF n = 0 THEN 1 ELSE 2 * g[n - 1]]
    BY <1>5 DEF g
  <2> QED  BY <2>1, Zenon
<1>7. \A n \in Nat : g[n + 1] = 2 * g[n]
  <2> TAKE n \in Nat
  <2>1. n + 1 \in Nat /\ n + 1 # 0 /\ (n + 1) - 1 = n
    OBVIOUS
  <2>2. g[n + 1] = 2 * g[(n + 1) - 1]
    BY <1>6, <2>1
  <2> QED  BY <2>1, <2>2
<1>8. \A n \in Nat : g[n] \in Nat
  <2> DEFINE T == {n \in Nat : g[n] \in Nat}
  <2>1. 0 \in T
    BY <1>6
  <2>2. ASSUME NEW n \in Nat, n \in T PROVE n + 1 \in T
    BY <1>7, <2>2
  <2>3. \A n \in Nat : n \in T
    <3> HIDE DEF T
    <3> QED  BY <2>1, <2>2, SetInduction
  <2> QED  BY <2>3
<1> QED  BY <1>6, <1>7, <1>8 DEF g

LEMMA RoundDoubles == GossipInv /\ [Round]_gossipVars => GossipInv'
<1> SUFFICES ASSUME GossipInv, [Round]_gossipVars PROVE GossipInv'
  OBVIOUS
<1>1. CASE Round
  <2>1. PICK peer \in [knownInfo -> Peers] : knownInfo' = knownInfo \cup {peer[i] : i \in knownInfo}
    BY <1>1 DEF Round
  <2> DEFINE told == {peer[i] : i \in knownInfo}
  <2>2. IsFiniteSet(told) /\ Cardinality(told) <= Cardinality(knownInfo)
    <3>1. peer \in Surjection(knownInfo, told)
      BY DEF Surjection
    <3> HIDE DEF told
    <3> QED  BY <3>1, FS_Surjection DEF GossipInv
  <2>3. told \subseteq Peers
    OBVIOUS
  <2> HIDE DEF told
  <2>4. /\ IsFiniteSet(knownInfo \cup told)
        /\ Cardinality(knownInfo \cup told) =
             Cardinality(knownInfo) + Cardinality(told) - Cardinality(knownInfo \cap told)
    BY <2>2, FS_Union DEF GossipInv
  <2>5. /\ Cardinality(knownInfo) \in Nat /\ Cardinality(told) \in Nat
        /\ Cardinality(knownInfo \cap told) \in Nat
    <3>1. IsFiniteSet(knownInfo \cap told)
      BY <2>2, FS_Subset
    <3> QED  BY <2>2, <3>1, FS_CardinalityType DEF GossipInv
  <2>6. Cardinality(knownInfo') <= 2 * Cardinality(knownInfo) /\ Cardinality(knownInfo') \in Nat
    <3>1. knownInfo' = knownInfo \cup told
      BY <2>1 DEF told
    <3> QED  BY <2>2, <2>4, <2>5, <3>1, FS_CardinalityType
  <2>7. /\ round' = round + 1 /\ round \in Nat /\ PowerOfTwo[round] \in Nat
        /\ PowerOfTwo[round + 1] = 2 * PowerOfTwo[round]
    BY <1>1, PowersOfTwo DEF Round, GossipInv
  <2>8. AtMostDoubles'
    BY <2>5, <2>6, <2>7 DEF GossipInv, AtMostDoubles
  <2>9. knownInfo' \subseteq Peers /\ IsFiniteSet(knownInfo')
    BY <2>1, <2>3, <2>4 DEF GossipInv, told
  <2> QED  BY <2>7, <2>8, <2>9 DEF GossipInv
<1>2. CASE UNCHANGED gossipVars
  BY <1>2 DEF gossipVars, GossipInv, AtMostDoubles
<1> QED  BY <1>1, <1>2

(* After any number of rounds, and whomever the informed nodes told, they  *)
(* are no more than doubling in each round would make them.                *)
THEOREM InformedAtMostDouble == GossipSpec => []AtMostDoubles
<1>1. GossipInit => GossipInv
  <2>1. IsFiniteSet({0}) /\ Cardinality({0}) = 1
    BY FS_Singleton
  <2>2. 0 \in Peers
    BY GossipAssumption DEF Peers
  <2> QED  BY <2>1, <2>2, PowersOfTwo DEF GossipInit, GossipInv, AtMostDoubles
<1>2. GossipInv => AtMostDoubles
  BY DEF GossipInv
<1> QED  BY <1>1, <1>2, RoundDoubles, PTL DEF GossipSpec

-----------------------------------------------------------------------------
(* The cuckoo filter.  While no insertion has been refused, the number of  *)
(* fingerprints g in a pair of buckets is the number of items in the       *)
(* filter that have this fingerprint and this pair, whichever of the items *)
(* each of them was put there for.                                         *)
Prints == {fingerprint[x] : x \in CuckooItems}
Tables == [Buckets -> Prints \cup {0}]

Pair(a, g) == {a, Other(a, g)}

In(T, i, g) == IF T[i] = g THEN 1 ELSE 0
Held(T, a, g) == In(T, a, g) + IF Other(a, g) = a THEN 0 ELSE In(T, Other(a, g), g)

Class(a, g) == {x \in CuckooItems : fingerprint[x] = g /\ First(x) \in Pair(a, g)}

PairsHold ==
  \A a \in Buckets, g \in Prints : Held(buckets, a, g) = Total(members, Class(a, g))

CuckooInv ==
  /\ buckets \in Tables
  /\ members \in [CuckooItems -> Nat]
  /\ refused \/ PairsHold

(* A fingerprint v that lies in bucket i, seen from the pair of a and g.   *)
Counts(v, i, a, g) == IF v = g /\ i \in Pair(a, g) THEN 1 ELSE 0

LEMMA OtherLeadsBack ==
  ASSUME NEW i \in Buckets, NEW g \in Prints
  PROVE  Other(i, g) \in Buckets /\ Other(Other(i, g), g) = i
<1>1. hash2[g] \in Buckets
  BY CuckooAssumption DEF Prints
<1> QED  BY <1>1, CuckooAssumption DEF Other

LEMMA PrintsFacts ==
  /\ 0 \notin Prints /\ IsFiniteSet(CuckooItems) /\ maxKicks \in Nat
  /\ \A x \in CuckooItems : /\ fingerprint[x] \in Prints /\ fingerprint[x] # 0
                            /\ First(x) \in Buckets /\ Second(x) \in Buckets
                            /\ Second(x) = Other(First(x), fingerprint[x])
<1>1. /\ IsFiniteSet(CuckooItems) /\ maxKicks \in Nat
      /\ \A x \in CuckooItems : hash1[x] \in Buckets /\ fingerprint[x] # 0
  BY CuckooAssumption
<1>2. \A x \in CuckooItems : fingerprint[x] \in Prints
  BY DEF Prints
<1>3. 0 \notin Prints
  BY <1>1 DEF Prints
<1>4. ASSUME NEW x \in CuckooItems
      PROVE  Second(x) \in Buckets /\ Second(x) = Other(First(x), fingerprint[x])
  BY <1>1, <1>2, OtherLeadsBack DEF Second, First
<1> QED  BY <1>1, <1>2, <1>3, <1>4 DEF First

(* The two buckets of a pair count for the same pairs.                     *)
LEMMA CountsAsOther ==
  ASSUME NEW i \in Buckets, NEW v \in Prints, NEW a \in Buckets, NEW g \in Prints
  PROVE  Counts(v, Other(i, v), a, g) = Counts(v, i, a, g)
<1>1. ASSUME v = g
      PROVE  Other(i, v) \in Pair(a, g) <=> i \in Pair(a, g)
  BY <1>1, OtherLeadsBack DEF Pair
<1> QED  BY <1>1 DEF Counts

LEMMA HeldIsNat == ASSUME NEW T, NEW a, NEW g PROVE Held(T, a, g) \in Nat
BY DEF Held, In

(* What a pair holds after something else has been put in bucket i.        *)
LEMMA BucketSet ==
  ASSUME NEW T \in Tables, NEW U \in Tables, NEW i \in Buckets, \A j \in Buckets \ {i} : U[j] = T[j],
         NEW a \in Buckets, NEW g \in Prints
  PROVE  Held(U, a, g) + Counts(T[i], i, a, g) = Held(T, a, g) + Counts(U[i], i, a, g)
<1> DEFINE c == Other(a, g)
<1>1. c \in Buckets /\ a \in Buckets
  BY OtherLeadsBack
<1> HIDE DEF c
<1>2. /\ \A j \in Buckets \ {i} : In(U, j, g) = In(T, j, g)
      /\ In(T, i, g) = IF T[i] = g THEN 1 ELSE 0
      /\ In(U, i, g) = IF U[i] = g THEN 1 ELSE 0
      /\ \A j : In(T, j, g) \in Nat
  BY DEF In
<1> QED  BY <1>1, <1>2 DEF Held, Counts, Pair, c

(* The loop of evictions holds the fingerprint that is to go into bucket i *)
(* next, unless it has found a bucket that was empty.                      *)
KickStates == {s \in [buckets : Tables, i : Buckets, fp : Prints, ok : BOOLEAN] :
                 s.ok \/ s.buckets[s.i] # 0}
InHand(s, a, g) == IF s.ok THEN 0 ELSE Counts(s.fp, s.i, a, g)

(* A turn takes one fingerprint out and puts one in, of the same pair as   *)
(* that which it then holds.                                               *)
LEMMA KickedHolds ==
  ASSUME NEW s \in KickStates
  PROVE  /\ Kicked(s) \in KickStates
         /\ \A a \in Buckets, g \in Prints :
              Held(Kicked(s).buckets, a, g) + InHand(Kicked(s), a, g)
                = Held(s.buckets, a, g) + InHand(s, a, g)
<1>1. CASE s.ok
  BY <1>1 DEF Kicked
<1>2. CASE ~ s.ok
  <2> DEFINE T == s.buckets
             i == s.i
             e == T[i]
             j == Other(i, e)
             B == [T EXCEPT ![i] = s.fp]
             C == IF B[j] = 0 THEN [B EXCEPT ![j] = e] ELSE B
             r == [buckets |-> C, i |-> j, fp |-> e, ok |-> B[j] = 0]
  <2>1. T \in Tables /\ i \in Buckets /\ s.fp \in Prints /\ e # 0
    BY <1>2 DEF KickStates
  <2>2. e \in Prints
    BY <2>1 DEF Tables
  <2>3. j \in Buckets
    BY <2>1, <2>2, OtherLeadsBack
  <2>4. Kicked(s) = r
    BY <1>2 DEF Kicked
  <2>5. ASSUME NEW a \in Buckets, NEW g \in Prints
        PROVE  /\ B \in Tables /\ C \in Tables
               /\ Held(C, a, g) + InHand(r, a, g) = Held(T, a, g) + Counts(s.fp, i, a, g)
    <3>1. /\ B \in Tables /\ Held(B, a, g) + Counts(e, i, a, g) = Held(T, a, g) + Counts(s.fp, i, a, g)
          /\ Held(T, a, g) \in Nat
      <4>1. B \in Tables /\ B[i] = s.fp /\ \A k \in Buckets \ {i} : B[k] = T[k]
        <5> HIDE DEF T, i
        <5> QED  BY <2>1 DEF Tables
      <4> HIDE DEF T, i, B
      <4> QED  BY <2>1, <4>1, BucketSet, HeldIsNat
    <3>2. Counts(e, j, a, g) = Counts(e, i, a, g)
      <4> HIDE DEF e, i
      <4> QED  BY <2>1, <2>2, CountsAsOther
    <3>3. CASE B[j] = 0
      <4>1. C = [B EXCEPT ![j] = e] /\ InHand(r, a, g) = 0
        BY <3>3 DEF InHand
      <4>2. Counts(B[j], j, a, g) = 0
        BY <3>3, PrintsFacts DEF Counts
      <4> HIDE DEF B, C, j, e, r, T, i
      <4>3. C \in Tables /\ Held(C, a, g) + Counts(B[j], j, a, g) = Held(B, a, g) + Counts(e, j, a, g)
            /\ Held(C, a, g) \in Nat /\ Held(B, a, g) \in Nat
        <5>1. C \in Tables /\ C[j] = e /\ \A k \in Buckets \ {j} : C[k] = B[k]
          BY <2>2, <2>3, <3>1, <4>1 DEF Tables
        <5>2. Held(C, a, g) + Counts(B[j], j, a, g) = Held(B, a, g) + Counts(e, j, a, g)
          BY <2>3, <3>1, <5>1, BucketSet
        <5> QED  BY <5>1, <5>2, HeldIsNat
      <4> QED  BY <3>1, <3>2, <4>1, <4>2, <4>3
    <3>4. CASE B[j] # 0
      <4>1. C = B /\ InHand(r, a, g) = Counts(e, j, a, g)
        BY <3>4 DEF InHand
      <4> HIDE DEF B, C, j, e, r, T, i
      <4> QED  BY <3>1, <3>2, <4>1
    <3> QED  BY <3>3, <3>4
  <2>6. C \in Tables
    <3>1. B \in Tables
      BY <2>1 DEF Tables
    <3> HIDE DEF B, j, e
    <3> QED  BY <2>2, <3>1 DEF Tables
  <2>7. r \in KickStates
    <3>1. r.ok \/ C[j] # 0
      OBVIOUS
    <3> HIDE DEF C, j, e, B
    <3> QED  BY <2>2, <2>3, <2>6, <3>1 DEF KickStates
  <2> QED
    <3>1. ASSUME NEW a \in Buckets, NEW g \in Prints
          PROVE  InHand(s, a, g) = Counts(s.fp, i, a, g) /\ r.buckets = C
      BY <1>2 DEF InHand
    <3> HIDE DEF r, T, C, B, i
    <3> QED  BY <2>4, <2>5, <2>7, <3>1 DEF T
<1> QED  BY <1>1, <1>2

LEMMA KicksHold ==
  ASSUME buckets \in Tables, NEW x \in CuckooItems, buckets[First(x)] # 0
  PROVE  /\ Kicks(x) \in KickStates
         /\ \A a \in Buckets, g \in Prints :
              Held(Kicks(x).buckets, a, g) + InHand(Kicks(x), a, g)
                = Held(buckets, a, g) + Counts(fingerprint[x], First(x), a, g)
<1> DEFINE zero == [buckets |-> buckets, i |-> First(x), fp |-> fingerprint[x], ok |-> FALSE]
           more == [s \in KickStates |-> Kicked(s)]
           By(f) == f = [k \in Nat |-> IF k = 0 THEN zero ELSE Kicked(f[k - 1])]
           m == maxKicks
<1>1. /\ zero \in KickStates /\ zero.buckets = buckets
      /\ \A a \in Buckets, g \in Prints : InHand(zero, a, g) = Counts(fingerprint[x], First(x), a, g)
  BY PrintsFacts DEF KickStates, InHand
<1>2. more \in [KickStates -> KickStates]
  BY KickedHolds
<1>3. Kicks(x) = (CHOOSE f : By(f))[m]
  BY DEF Kicks
<1>4. m \in Nat
  BY PrintsFacts
<1> HIDE DEF zero, m
<1>5. PICK f : Iterates(f, KickStates, zero, more, Nat)
  <2> HIDE DEF more
  <2> QED  BY <1>1, <1>2, IteratesOnNat
<1>6. /\ f \in [Nat -> KickStates] /\ f[0] = zero
      /\ \A k \in Nat : f[k + 1] = Kicked(f[k])
  <2>1. f \in [Nat -> KickStates] /\ f[0] = zero /\ \A k \in Nat : k + 1 \in Nat => f[k + 1] = more[f[k]]
    <3> HIDE DEF more
    <3> QED  BY <1>5 DEF Iterates
  <2>2. ASSUME NEW k \in Nat PROVE f[k + 1] = Kicked(f[k])
    <3>1. k + 1 \in Nat /\ f[k] \in KickStates
      BY <2>1
    <3>2. f[k + 1] = more[f[k]]
      BY <2>1, <3>1
    <3> QED  BY <3>1, <3>2
  <2> QED  BY <2>1, <2>2
<1>7. By(f)
  <2>1. ASSUME NEW k \in Nat PROVE f[k] = IF k = 0 THEN zero ELSE Kicked(f[k - 1])
    <3>1. CASE k = 0
      BY <1>6, <3>1
    <3>2. CASE k # 0
      <4>1. k - 1 \in Nat /\ (k - 1) + 1 = k
        BY <3>2
      <4> QED  BY <1>6, <3>2, <4>1
    <3> QED  BY <3>1, <3>2
  <2>2. f = [k \in Nat |-> f[k]]
    BY <1>6
  <2> QED  BY <2>1, <2>2
<1> DEFINE K == CHOOSE g : By(g)
<1>8. By(K)
  <2> HIDE DEF By
  <2> QED  BY <1>7
<1>9. Kicks(x) = K[m]
  BY <1>3
<1> HIDE DEF K
<1>10. \A k \in Nat : K[k] = IF k = 0 THEN zero ELSE Kicked(K[k - 1])
  <2>1. K = [k \in Nat |-> IF k = 0 THEN zero ELSE Kicked(K[k - 1])]
    BY <1>8
  <2> QED  BY <2>1, Zenon
<1>11. \A k \in Nat : K[k + 1] = Kicked(K[k])
  <2> TAKE k \in Nat
  <2>1. k + 1 \in Nat /\ k + 1 # 0 /\ (k + 1) - 1 = k
    OBVIOUS
  <2>2. K[k + 1] = Kicked(K[(k + 1) - 1])
    BY <1>10, <2>1
  <2> QED  BY <2>1, <2>2
<1> DEFINE Kept(s) == \A a \in Buckets, g \in Prints :
                        Held(s.buckets, a, g) + InHand(s, a, g)
                          = Held(buckets, a, g) + Counts(fingerprint[x], First(x), a, g)
           S == {k \in Nat : K[k] \in KickStates /\ Kept(K[k])}
<1>12. \A k \in Nat : k \in S
  <2>1. 0 \in S
    BY <1>1, <1>10
  <2>2. ASSUME NEW k \in Nat, k \in S PROVE k + 1 \in S
    <3>1. Kicked(K[k]) \in KickStates /\ Kept(Kicked(K[k]))
      BY <2>2, KickedHolds
    <3> HIDE DEF Kept
    <3> QED  BY <1>11, <3>1
  <2> HIDE DEF S
  <2> QED  BY <2>1, <2>2, SetInduction
<1> QED  BY <1>4, <1>9, <1>12

-----------------------------------------------------------------------------
LEMMA ClassFacts ==
  ASSUME NEW a, NEW g
  PROVE  /\ IsFiniteSet(Class(a, g)) /\ Class(a, g) \subseteq CuckooItems
         /\ \A x \in CuckooItems : Counts(fingerprint[x], First(x), a, g) = IF x \in Class(a, g) THEN 1 ELSE 0
<1>1. Class(a, g) \subseteq CuckooItems
  BY DEF Class
<1>2. IsFiniteSet(Class(a, g))
  BY <1>1, PrintsFacts, FS_Subset
<1> QED  BY <1>1, <1>2 DEF Class, Counts

LEMMA MembersChanged ==
  ASSUME members \in [CuckooItems -> Nat], NEW e \in [CuckooItems -> Nat],
         NEW x \in CuckooItems, \A y \in CuckooItems \ {x} : e[y] = members[y], NEW a, NEW g
  PROVE  /\ Total(members, Class(a, g)) \in Nat
         /\ Total(e, Class(a, g))
              = Total(members, Class(a, g)) + IF x \in Class(a, g) THEN e[x] - members[x] ELSE 0
<1> DEFINE D == Class(a, g)
<1>1. IsFiniteSet(D) /\ D \subseteq CuckooItems
  BY ClassFacts
<1> HIDE DEF D
<1>2. /\ \A y \in D : members[y] \in Nat
      /\ \A y \in D : members[y] \in Int /\ e[y] \in Int
      /\ \A y \in D \ {x} : members[y] = e[y]
  BY <1>1
<1>3. Total(members, D) \in Nat
  BY <1>1, <1>2, TotalAtLeast
<1>4. CASE x \in D
  <2>1. Total(e, D) = Total(members, D) - members[x] + e[x]
    BY <1>1, <1>2, <1>4, TotalChanged
  <2> QED  BY <1>2, <1>3, <1>4, <2>1 DEF D
<1>5. CASE x \notin D
  <2>1. Total(members, D) = Total(e, D)
    BY <1>2, <1>5, TotalAlike
  <2> QED  BY <1>3, <1>5, <2>1 DEF D
<1> QED  BY <1>4, <1>5

(* While none was refused, the fingerprint of an item in the filter is in  *)
(* one of its two buckets.                                                 *)
LEMMA MembersAreHeld ==
  ASSUME CuckooInv, PairsHold, NEW x \in CuckooItems, members[x] > 0
  PROVE  mightContain(x)
<1> DEFINE a == First(x)
           g == fingerprint[x]
<1>1. a \in Buckets /\ g \in Prints /\ Second(x) = Other(a, g) /\ x \in Class(a, g)
  BY PrintsFacts DEF Class, Pair
<1>2. IsFiniteSet(Class(a, g)) /\ \A y \in Class(a, g) : members[y] \in Nat
  BY ClassFacts DEF CuckooInv
<1>3. Held(buckets, a, g) = Total(members, Class(a, g))
  BY <1>1 DEF PairsHold
<1> HIDE DEF a, g
<1>4. members[x] <= Total(members, Class(a, g)) /\ Total(members, Class(a, g)) \in Nat
  BY <1>1, <1>2, TotalAtLeast
<1>5. Held(buckets, a, g) # 0
  BY <1>1, <1>2, <1>3, <1>4
<1>6. buckets[a] = g \/ buckets[Other(a, g)] = g
  BY <1>5 DEF Held, In
<1> QED  BY <1>1, <1>6 DEF mightContain, a, g

LEMMA InsertedHolds ==
  ASSUME CuckooInv, NEW x \in CuckooItems
  PROVE  /\ Inserted(x).buckets \in Tables
         /\ Inserted(x).ok => \A a \in Buckets, g \in Prints :
              Held(Inserted(x).buckets, a, g)
                = Held(buckets, a, g) + Counts(fingerprint[x], First(x), a, g)
<1> DEFINE v == fingerprint[x]
           i == First(x)
           j == Second(x)
<1>1. /\ i \in Buckets /\ j \in Buckets /\ v \in Prints /\ v \in Prints \cup {0} /\ 0 \notin Prints
      /\ buckets \in Tables /\ j = Other(i, v)
  BY PrintsFacts DEF CuckooInv
<1>2. ASSUME NEW k \in {i, j}, buckets[k] = 0
      PROVE  /\ [buckets EXCEPT ![k] = v] \in Tables
             /\ \A a \in Buckets, g \in Prints :
                  Held([buckets EXCEPT ![k] = v], a, g) = Held(buckets, a, g) + Counts(v, i, a, g)
  <2>1. ASSUME NEW a \in Buckets, NEW g \in Prints
        PROVE  /\ [buckets EXCEPT ![k] = v] \in Tables
               /\ Held([buckets EXCEPT ![k] = v], a, g) = Held(buckets, a, g) + Counts(v, i, a, g)
    <3>1. Counts(buckets[k], k, a, g) = 0
      BY <1>1, <1>2 DEF Counts
    <3>2. Counts(v, k, a, g) = Counts(v, i, a, g)
      BY <1>1, CountsAsOther
    <3> DEFINE U == [buckets EXCEPT ![k] = v]
    <3> HIDE DEF v, i, j
    <3>3. k \in Buckets /\ U \in Tables /\ U[k] = v /\ \A m \in Buckets \ {k} : U[m] = buckets[m]
      BY <1>1 DEF Tables
    <3> HIDE DEF U
    <3>4. Held(U, a, g) + Counts(buckets[k], k, a, g) = Held(buckets, a, g) + Counts(v, k, a, g)
      BY <1>1, <3>3, BucketSet
    <3> QED  BY <3>1, <3>2, <3>3, <3>4, HeldIsNat DEF U
  <2>2. [buckets EXCEPT ![k] = v] \in Tables
    BY <1>1 DEF Tables
  <2> QED  BY <2>1, <2>2
<1>3. CASE buckets[i] = 0
  <2>1. Inserted(x) = [buckets |-> [buckets EXCEPT ![i] = v], ok |-> TRUE]
    BY <1>3 DEF Inserted
  <2>2. /\ [buckets EXCEPT ![i] = v] \in Tables
        /\ \A a \in Buckets, g \in Prints :
             Held([buckets EXCEPT ![i] = v], a, g) = Held(buckets, a, g) + Counts(v, i, a, g)
    BY <1>2, <1>3
  <2>3. Inserted(x).buckets = [buckets EXCEPT ![i] = v]
    BY <2>1
  <2> QED  BY <2>2, <2>3
<1>4. CASE buckets[i] # 0 /\ buckets[j] = 0
  <2>1. Inserted(x) = [buckets |-> [buckets EXCEPT ![j] = v], ok |-> TRUE]
    BY <1>4 DEF Inserted
  <2>2. /\ [buckets EXCEPT ![j] = v] \in Tables
        /\ \A a \in Buckets, g \in Prints :
             Held([buckets EXCEPT ![j] = v], a, g) = Held(buckets, a, g) + Counts(v, i, a, g)
    BY <1>2, <1>4
  <2>3. Inserted(x).buckets = [buckets EXCEPT ![j] = v]
    BY <2>1
  <2> QED  BY <2>2, <2>3
<1>5. CASE buckets[i] # 0 /\ buckets[j] # 0
  <2>1. Inserted(x) = Kicks(x)
    BY <1>5 DEF Inserted
  <2>2. /\ Kicks(x) \in KickStates
        /\ \A a \in Buckets, g \in Prints :
             Held(Kicks(x).buckets, a, g) + InHand(Kicks(x), a, g) = Held(buckets, a, g) + Counts(v, i, a, g)
    BY <1>1, <1>5, KicksHold
  <2>3. Kicks(x).buckets \in Tables
    BY <2>2 DEF KickStates
  <2>4. ASSUME Kicks(x).ok, NEW a \in Buckets, NEW g \in Prints
        PROVE  Held(Kicks(x).buckets, a, g) = Held(buckets, a, g) + Counts(v, i, a, g)
    <3>1. InHand(Kicks(x), a, g) = 0
      BY <2>4 DEF InHand
    <3> QED  BY <2>2, <3>1, HeldIsNat
  <2> QED  BY <2>1, <2>3, <2>4
<1> QED  BY <1>3, <1>4, <1>5

LEMMA CuckooKept == CuckooInv /\ [CuckooNext]_cuckooVars => CuckooInv'
<1> SUFFICES ASSUME CuckooInv, [CuckooNext]_cuckooVars PROVE CuckooInv'
  OBVIOUS
<1>1. buckets \in Tables /\ members \in [CuckooItems -> Nat] /\ (refused \/ PairsHold)
  BY DEF CuckooInv
<1>2. ASSUME NEW x \in CuckooItems, insert(x) PROVE CuckooInv'
  <2>1. buckets' = Inserted(x).buckets /\ buckets' \in Tables
    BY <1>2, InsertedHolds DEF insert
  <2>2. CASE ~ Inserted(x).ok
    BY <1>1, <1>2, <2>1, <2>2 DEF insert, CuckooInv
  <2>3. CASE Inserted(x).ok
    <3>1. /\ members' = [members EXCEPT ![x] = members[x] + 1] /\ refused' = refused
          /\ members[x] \in Nat /\ members[x] + 1 \in Nat
      BY <1>1, <1>2, <2>3 DEF insert
    <3>2. members' \in [CuckooItems -> Nat]
      BY <1>1, <3>1
    <3>3. ASSUME PairsHold, NEW a \in Buckets, NEW g \in Prints
          PROVE  Held(buckets', a, g) = Total(members', Class(a, g))
      <4>1. Held(buckets', a, g) = Held(buckets, a, g) + Counts(fingerprint[x], First(x), a, g)
        BY <2>1, <2>3, InsertedHolds
      <4>2. /\ Total(members, Class(a, g)) \in Nat
            /\ Total(members', Class(a, g)) = Total(members, Class(a, g))
                 + IF x \in Class(a, g) THEN members'[x] - members[x] ELSE 0
        <5>1. \A y \in CuckooItems \ {x} : members'[y] = members[y]
          BY <1>1, <3>1
        <5> QED  BY <1>1, <3>2, <5>1, MembersChanged
      <4>3. Counts(fingerprint[x], First(x), a, g) = IF x \in Class(a, g) THEN 1 ELSE 0
        BY ClassFacts
      <4>4. Held(buckets, a, g) = Total(members, Class(a, g))
        BY <3>3 DEF PairsHold
      <4>5. members'[x] - members[x] = 1
        BY <1>1, <3>1
      <4> QED  BY <4>1, <4>2, <4>3, <4>4, <4>5
    <3> QED  BY <1>1, <2>1, <3>1, <3>2, <3>3 DEF CuckooInv, PairsHold
  <2> QED  BY <2>2, <2>3
<1>3. ASSUME NEW x \in CuckooItems, remove(x) PROVE CuckooInv'
  <2> DEFINE v == fingerprint[x]
             i == First(x)
             j == Second(x)
  <2>1. /\ i \in Buckets /\ j \in Buckets /\ v \in Prints /\ 0 \in Prints \cup {0} /\ 0 \notin Prints
        /\ j = Other(i, v)
    BY PrintsFacts
  <2>2. /\ members' = [members EXCEPT ![x] = members[x] - 1] /\ refused' = refused
        /\ members[x] \in Nat /\ members[x] - 1 \in Nat /\ members[x] > 0
    BY <1>1, <1>3 DEF remove
  <2>3. members' \in [CuckooItems -> Nat]
    BY <1>1, <2>2
  <2>4. ASSUME NEW k \in {i, j}, buckets[k] = v, buckets' = [buckets EXCEPT ![k] = 0]
        PROVE  CuckooInv'
    <3>1. buckets' \in Tables
      BY <1>1, <2>4 DEF Tables
    <3>2. ASSUME PairsHold, NEW a \in Buckets, NEW g \in Prints
          PROVE  Held(buckets', a, g) = Total(members', Class(a, g))
      <4>1. Counts(buckets[k], k, a, g) = Counts(v, i, a, g)
        BY <2>1, <2>4, CountsAsOther
      <4>2. Counts(0, k, a, g) = 0
        BY <2>1 DEF Counts
      <4>3. Held(buckets', a, g) + Counts(buckets[k], k, a, g) = Held(buckets, a, g) + Counts(0, k, a, g)
        <5> HIDE DEF v, i, j
        <5>1. k \in Buckets /\ buckets'[k] = 0 /\ \A m \in Buckets \ {k} : buckets'[m] = buckets[m]
          BY <1>1, <2>1, <2>4 DEF Tables
        <5> QED  BY <1>1, <3>1, <5>1, BucketSet
      <4>4. /\ Total(members, Class(a, g)) \in Nat
            /\ Total(members', Class(a, g)) = Total(members, Class(a, g))
                 + IF x \in Class(a, g) THEN members'[x] - members[x] ELSE 0
        <5>1. \A y \in CuckooItems \ {x} : members'[y] = members[y]
          BY <1>1, <2>2
        <5> QED  BY <1>1, <2>3, <5>1, MembersChanged
      <4>5. Counts(v, i, a, g) = IF x \in Class(a, g) THEN 1 ELSE 0
        BY ClassFacts
      <4>6. Held(buckets, a, g) = Total(members, Class(a, g))
        BY <3>2 DEF PairsHold
      <4> HIDE DEF v, i, j
      <4>7. members'[x] - members[x] = -1
        BY <1>1, <2>2
      <4> QED  BY <4>1, <4>2, <4>3, <4>4, <4>5, <4>6, <4>7, HeldIsNat
    <3> QED  BY <1>1, <2>2, <2>3, <3>1, <3>2 DEF CuckooInv, PairsHold
  <2>5. CASE buckets[i] # v /\ buckets[j] # v
    <3>1. ~ mightContain(x)
      BY <2>5 DEF mightContain
    <3>2. refused
      BY <1>1, <2>2, <3>1, MembersAreHeld
    <3>3. buckets' = buckets
      BY <1>3, <2>5 DEF remove
    <3> QED  BY <1>1, <2>2, <2>3, <3>2, <3>3 DEF CuckooInv
  <2> QED  BY <1>3, <2>4, <2>5 DEF remove
<1>4. CASE UNCHANGED cuckooVars
  BY <1>1, <1>4 DEF cuckooVars, CuckooInv, PairsHold
<1> QED  BY <1>2, <1>3, <1>4 DEF CuckooNext

(* As long as no insertion has been refused the filter has no false        *)
(* negative, however fingerprints were moved and removed, and whichever    *)
(* items share them (cuckoo_filter.cpp:28-63).                             *)
THEOREM FilterHoldsMembers == CuckooSpec => []NoneUntilRefused
<1>1. CuckooInit => CuckooInv
  <2> SUFFICES ASSUME CuckooInit PROVE CuckooInv
    OBVIOUS
  <2>1. buckets \in Tables /\ members \in [CuckooItems -> Nat]
    BY DEF CuckooInit, Tables
  <2>2. ASSUME NEW a \in Buckets, NEW g \in Prints
        PROVE  Held(buckets, a, g) = Total(members, Class(a, g))
    <3>1. g # 0 /\ \A k \in Buckets : buckets[k] = 0
      BY PrintsFacts DEF CuckooInit
    <3>2. Held(buckets, a, g) = 0
      BY <3>1, OtherLeadsBack DEF Held, In
    <3>3. IsFiniteSet(Class(a, g)) /\ \A x \in Class(a, g) : members[x] = 0
      BY ClassFacts DEF CuckooInit
    <3>4. Total(members, Class(a, g)) = 0
      BY <3>3, TotalOfZeros
    <3> QED  BY <3>2, <3>4
  <2> QED  BY <2>1, <2>2 DEF CuckooInv, PairsHold
<1>2. CuckooInv => NoneUntilRefused
  BY MembersAreHeld DEF CuckooInv, NoneUntilRefused, NoFalseNegatives
<1> QED  BY <1>1, <1>2, CuckooKept, PTL DEF CuckooSpec

-----------------------------------------------------------------------------
(* The sketches for any width, depth, number of registers and hashes.      *)
(* What is recorded as a greatest value.                                   *)
IsGreatest(v, S) == v \in S /\ \A x \in S : x <= v

LEMMA MaxIs == ASSUME NEW S, S \subseteq Int, NEW v, IsGreatest(v, S) PROVE Max(S) = v
<1>1. \A x \in S : (\A y \in S : x >= y) <=> x = v
  BY DEF IsGreatest
<1>2. v \in S
  BY DEF IsGreatest
<1> QED  BY <1>1, <1>2 DEF Max

LEMMA MinIs == ASSUME NEW S, S \subseteq Nat, S # {} PROVE Min(S) \in S /\ \A x \in S : Min(S) <= x
<1>1. PICK v \in S : \A x \in S : v <= x
  BY HasLeast
<1>2. \A x \in S : (\A y \in S : x <= y) <=> x = v
  BY <1>1
<1> QED  BY <1>1, <1>2 DEF Min

(* A non-empty set of numbers below a bound has a greatest.                *)
LEMMA HasGreatest ==
  ASSUME NEW n \in Nat, NEW S, S \subseteq 0 .. n, S # {}
  PROVE  IsGreatest(Max(S), S)
<1> DEFINE T == {n - x : x \in S}
<1>1. PICK d \in T : \A e \in T : d <= e
  <2>1. T \subseteq Nat /\ T # {}
    <3>1. \A x \in S : n - x \in Nat
      OBVIOUS
    <3> QED  BY <3>1
  <2> HIDE DEF T
  <2> QED  BY <2>1, HasLeast
<1>2. PICK v \in S : d = n - v
  BY <1>1
<1>3. \A x \in S : x <= v
  <2> SUFFICES ASSUME NEW x \in S PROVE x <= v
    OBVIOUS
  <2>1. n - v <= n - x
    BY <1>1, <1>2
  <2> QED  BY <2>1
<1>4. IsGreatest(v, S)
  BY <1>2, <1>3 DEF IsGreatest
<1>5. Max(S) = v
  <2>1. S \subseteq Int
    OBVIOUS
  <2> QED  BY <1>4, <2>1, MaxIs
<1> QED  BY <1>4, <1>5

-----------------------------------------------------------------------------
(* The header's class: although it counts the zeros of the whole word, its *)
(* rank is the place of the first one after the index, because the shift   *)
(* leaves nothing but zeros below.                                         *)
LEMMA RankIsFirstOne == ASSUME NEW s \in Stream PROVE rank(s) = FirstOne(s) /\ FirstOne(s) \in Nat
<1> DEFINE m == W - b
           word == (h(s) * 2 ^ b) % 2 ^ W
           ones == {i \in 0 .. W - 1 : (word \div 2 ^ i) % 2 = 1}
<1>1. W \in Nat /\ b \in Nat /\ m \in Nat /\ W = b + m
  BY SketchAssumption
<1>2. h(s) \in Nat
  <2>1. hashOf[s] \in Nat /\ golden \in Nat /\ 2 ^ W \in Nat \ {0}
    BY <1>1, SketchAssumption, PowersPositive
  <2>2. hashOf[s] * golden \in Nat
    BY <2>1, Products
  <2> QED  BY <2>1, <2>2, Divided DEF h
<1>3. ASSUME NEW i \in 0 .. W - 1 PROVE i \in ones <=> W - i \in AfterIndex(s)
  <2>1. i \in 0 .. b + m - 1
    BY <1>1
  <2>2. (word \div 2 ^ i) % 2 = IF i < b THEN 0 ELSE (h(s) \div 2 ^ (i - b)) % 2
    <3> DEFINE x == h(s)
    <3> HIDE DEF m, x
    <3>1. b \in Nat /\ m \in Nat /\ x \in Nat
      BY <1>1, <1>2 DEF x
    <3>2. (((x * 2 ^ b) % 2 ^ (b + m)) \div 2 ^ i) % 2 = IF i < b THEN 0 ELSE (x \div 2 ^ (i - b)) % 2
      BY <2>1, <3>1, ShiftedBit
    <3> QED  BY <1>1, <3>2 DEF x
  <2>3. CASE i < b
    BY <1>1, <2>2, <2>3 DEF AfterIndex
  <2>4. CASE ~ (i < b)
    <3>1. W - i \in 1 .. W - b /\ W - b - (W - i) = i - b
      BY <1>1, <2>4
    <3> QED  BY <2>2, <2>4, <3>1 DEF AfterIndex
  <2> QED  BY <2>3, <2>4
<1>4. AfterIndex(s) \subseteq 1 .. W
  BY <1>1 DEF AfterIndex
<1>5. rank(s) = (IF ones = {} THEN W ELSE W - 1 - Max(ones)) + 1
  BY DEF rank, clz
<1>6. ones \subseteq 0 .. W - 1
  OBVIOUS
<1> HIDE DEF ones, word, m
<1>7. CASE AfterIndex(s) = {}
  <2>1. ones = {}
    BY <1>3, <1>6, <1>7
  <2> QED  BY <1>1, <1>5, <1>7, <2>1 DEF FirstOne
<1>8. CASE AfterIndex(s) # {}
  <2> DEFINE k == Min(AfterIndex(s))
  <2>1. k \in AfterIndex(s) /\ \A x \in AfterIndex(s) : k <= x
    BY <1>4, <1>8, MinIs
  <2> HIDE DEF k
  <2>2. k \in 1 .. W /\ W - k \in 0 .. W - 1 /\ W - (W - k) = k
    BY <1>1, <1>4, <2>1
  <2>3. W - k \in ones
    BY <1>3, <2>1, <2>2
  <2>4. ASSUME NEW i \in ones PROVE i <= W - k
    <3>1. i \in 0 .. W - 1 /\ k <= W - i
      BY <1>3, <1>6, <2>1
    <3> QED  BY <1>1, <2>2, <3>1
  <2>5. Max(ones) = W - k
    <3>1. ones \subseteq Int
      BY <1>1, <1>6
    <3> QED  BY <2>3, <2>4, <3>1, MaxIs DEF IsGreatest
  <2>6. rank(s) = k
    BY <1>1, <1>5, <2>2, <2>3, <2>5
  <2> QED  BY <1>8, <2>2, <2>6 DEF FirstOne, k
<1> QED  BY <1>7, <1>8

(* Every hash falls on a register, in both classes.                        *)
LEMMA RegistersHit ==
  ASSUME NEW s \in Stream
  PROVE  /\ Index(s) \in 0 .. 2 ^ b - 1 /\ reg(s) \in 0 .. 2 ^ b - 1
         /\ Rank(s) \in Nat
<1> DEFINE m == W - b
<1>1. W \in Nat /\ b \in Nat /\ m \in Nat /\ W = b + m /\ 2 ^ W \in Nat \ {0}
  BY SketchAssumption, PowersPositive
<1> HIDE DEF m
<1>2. \A x \in 0 .. 2 ^ W - 1 : x \div 2 ^ m \in 0 .. 2 ^ b - 1
  BY <1>1, QuotientBelow
<1>3. hashOf[s] \in 0 .. 2 ^ W - 1
  BY SketchAssumption
<1>4. h(s) \in 0 .. 2 ^ W - 1
  <2>1. hashOf[s] * golden \in Nat
    BY <1>1, <1>3, SketchAssumption, Products
  <2> QED  BY <1>1, <2>1, Divided DEF h
<1>5. Rank(s) \in Nat
  <2> DEFINE rest == (hashOf[s] * 2 ^ b) % 2 ^ W
             ones == {i \in 0 .. m - 1 : (rest \div 2 ^ i) % 2 = 1}
  <2>1. Rank(s) = IF ones = {} THEN m + 1 ELSE m - Max(ones)
    BY DEF Rank, leadingZeros, m
  <2>2. ones \subseteq 0 .. m - 1
    OBVIOUS
  <2> HIDE DEF ones
  <2>3. CASE ones = {}
    BY <1>1, <2>1, <2>3
  <2>4. CASE ones # {}
    <3>1. ones \subseteq 0 .. m
      BY <1>1, <2>2
    <3>2. Max(ones) \in ones
      BY <1>1, <2>4, <3>1, HasGreatest DEF IsGreatest
    <3>3. Max(ones) \in Nat /\ m - Max(ones) \in Nat
      <4>1. \A x \in ones : x \in Nat /\ m - x \in Nat
        BY <1>1, <2>2
      <4> QED  BY <3>2, <4>1
    <3> QED  BY <2>1, <2>4, <3>3
  <2> QED  BY <2>3, <2>4
<1> QED  BY <1>2, <1>3, <1>4, <1>5 DEF Index, reg, m

-----------------------------------------------------------------------------
Rows == 0 .. depth - 1
Column(s, r) == mixOf[s][r] % width
RegisterIds == 0 .. 2 ^ b - 1
RanksAt(i) == {0} \cup {Rank(s) : s \in {t \in Seen : Index(t) = i}}
PlacesAt(i) == {0} \cup {FirstOne(s) : s \in {t \in Seen : reg(t) = i}}

SketchTypes ==
  /\ added \in [Stream -> Nat]
  /\ table \in [Rows \X (0 .. width - 1) -> Nat]
  /\ registers \in [RegisterIds -> Nat] /\ regs_ \in [RegisterIds -> Nat]
BitsSet == \A s \in Stream : added[s] > 0 => BloomBits(s) \subseteq bits
CellsHold == \A s \in Stream : \A r \in Rows : table[<<r, Column(s, r)>>] >= added[s]
RegistersHold ==
  \A i \in RegisterIds : IsGreatest(registers[i], RanksAt(i)) /\ IsGreatest(regs_[i], PlacesAt(i))
SketchInv == SketchTypes /\ BitsSet /\ CellsHold /\ RegistersHold

LEMMA ColumnsHit == ASSUME NEW s \in Stream, NEW r \in Rows PROVE Column(s, r) \in 0 .. width - 1
<1>1. mixOf[s][r] \in Nat /\ width \in Nat \ {0}
  BY SketchAssumption DEF Rows
<1> QED  BY <1>1, Divided DEF Column

LEMMA SketchStarts == SketchInit => SketchInv
<1> SUFFICES ASSUME SketchInit PROVE SketchInv
  OBVIOUS
<1>1. SketchTypes
  BY DEF SketchInit, SketchTypes, Rows, RegisterIds
<1>2. Seen = {} /\ BitsSet
  BY DEF SketchInit, BitsSet, Seen
<1>3. CellsHold
  <2> SUFFICES ASSUME NEW s \in Stream, NEW r \in Rows PROVE table[<<r, Column(s, r)>>] >= added[s]
    BY DEF CellsHold
  <2>1. table[<<r, Column(s, r)>>] = 0
    BY ColumnsHit DEF SketchInit, Rows
  <2> QED  BY <2>1 DEF SketchInit
<1>4. RegistersHold
  BY <1>2 DEF SketchInit, RegistersHold, RanksAt, PlacesAt, IsGreatest, RegisterIds
<1> QED  BY <1>1, <1>2, <1>3, <1>4 DEF SketchInv

(* The greatest of what was there and one more.                            *)
LEMMA GreatestRaised ==
  ASSUME NEW S, S \subseteq Nat, NEW v, IsGreatest(v, S), NEW x \in Nat
  PROVE  IsGreatest(Max({v, x}), S \cup {x})
<1>1. v \in Nat
  BY DEF IsGreatest
<1> DEFINE u == IF v >= x THEN v ELSE x
<1>2. IsGreatest(u, {v, x})
  BY <1>1 DEF IsGreatest
<1>3. {v, x} \subseteq Int
  BY <1>1
<1> HIDE DEF u
<1>4. Max({v, x}) = u
  BY <1>2, <1>3, MaxIs
<1>5. IsGreatest(u, S \cup {x})
  BY <1>1 DEF IsGreatest, u
<1> QED  BY <1>4, <1>5

LEMMA FeedKeeps ==
  ASSUME SketchInv, NEW s \in Stream, NEW count \in 1 .. MaxCount, Feed(s, count)
  PROVE  SketchInv'
<1>1. /\ added \in [Stream -> Nat] /\ table \in [Rows \X (0 .. width - 1) -> Nat]
      /\ registers \in [RegisterIds -> Nat] /\ regs_ \in [RegisterIds -> Nat]
      /\ count \in Nat \ {0}
  BY SketchAssumption DEF SketchInv, SketchTypes
<1>2. \A t \in Stream : added'[t] = IF t = s THEN added[t] + count ELSE added[t]
  BY <1>1 DEF Feed
<1>3. \A r \in Rows, c \in 0 .. width - 1 :
         table'[<<r, c>>] = table[<<r, c>>] + IF c = Column(s, r) THEN count ELSE 0
  BY <1>1 DEF Feed, CellsAdded, Column
<1>4. Seen' = Seen \cup {s}
  BY <1>1, <1>2 DEF Seen
<1>5. SketchTypes'
  <2>1. added' \in [Stream -> Nat]
    BY <1>1 DEF Feed
  <2>2. table' \in [Rows \X (0 .. width - 1) -> Nat]
    BY <1>1 DEF Feed, CellsAdded
  <2>3. registers' \in [RegisterIds -> Nat] /\ regs_' \in [RegisterIds -> Nat]
    <3>1. \A v, x \in Nat : Max({v, x}) \in Nat
      <4> SUFFICES ASSUME NEW v \in Nat, NEW x \in Nat PROVE Max({v, x}) \in Nat
        OBVIOUS
      <4>1. IsGreatest(v, {v})
        BY DEF IsGreatest
      <4>2. IsGreatest(Max({v, x}), {v} \cup {x})
        BY <4>1, GreatestRaised
      <4> QED  BY <4>2 DEF IsGreatest
    <3>2. Rank(s) \in Nat /\ rank(s) \in Nat
      BY RegistersHit, RankIsFirstOne
    <3>3. \A i \in RegisterIds : /\ Max({registers[i], Rank(s)}) \in Nat
                                 /\ Max({regs_[i], rank(s)}) \in Nat
      BY <1>1, <3>1, <3>2
    <3>4. Index(s) \in RegisterIds /\ reg(s) \in RegisterIds
      BY RegistersHit DEF RegisterIds
    <3>5. /\ registers' = [registers EXCEPT ![Index(s)] = Max({registers[Index(s)], Rank(s)})]
          /\ regs_' = [regs_ EXCEPT ![reg(s)] = Max({regs_[reg(s)], rank(s)})]
      BY DEF Feed, Raised
    <3> QED  BY <1>1, <3>3, <3>4, <3>5
  <2> QED  BY <2>1, <2>2, <2>3 DEF SketchTypes
<1>6. BitsSet'
  <2> SUFFICES ASSUME NEW t \in Stream, added'[t] > 0 PROVE BloomBits(t) \subseteq bits'
    BY DEF BitsSet, BloomBits
  <2>1. bits' = bits \cup BloomBits(s)
    BY DEF Feed
  <2>2. t # s => added[t] > 0
    BY <1>2
  <2> QED  BY <2>1, <2>2 DEF SketchInv, BitsSet
<1>7. CellsHold'
  <2> SUFFICES ASSUME NEW t \in Stream, NEW r \in Rows
               PROVE  table'[<<r, Column(t, r)>>] >= added'[t]
    BY DEF CellsHold, Rows, Column
  <2>1. Column(t, r) \in 0 .. width - 1
    BY ColumnsHit
  <2> DEFINE cell == <<r, Column(t, r)>>
  <2>2. table[cell] \in Nat /\ added[t] \in Nat /\ table[cell] >= added[t]
    BY <1>1, <2>1 DEF SketchInv, CellsHold
  <2>3. table'[cell] = table[cell] + IF Column(t, r) = Column(s, r) THEN count ELSE 0
    BY <1>3, <2>1
  <2>4. added'[t] = IF t = s THEN added[t] + count ELSE added[t]
    BY <1>2
  <2> HIDE DEF cell
  <2>5. table'[cell] >= added'[t]
    <3>1. CASE t = s
      BY <1>1, <2>2, <2>3, <2>4, <3>1
    <3>2. CASE t # s
      BY <1>1, <2>2, <2>3, <2>4, <3>2
    <3> QED  BY <3>1, <3>2
  <2> QED  BY <2>5 DEF cell
<1>8. RegistersHold'
  <2> SUFFICES ASSUME NEW i \in RegisterIds
               PROVE  IsGreatest(registers[i], RanksAt(i))' /\ IsGreatest(regs_[i], PlacesAt(i))'
    BY DEF RegistersHold, RegisterIds
  <2>1. IsGreatest(registers[i], RanksAt(i)) /\ IsGreatest(regs_[i], PlacesAt(i))
    BY DEF SketchInv, RegistersHold
  <2>2. /\ RanksAt(i)' = RanksAt(i) \cup IF Index(s) = i THEN {Rank(s)} ELSE {}
        /\ PlacesAt(i)' = PlacesAt(i) \cup IF reg(s) = i THEN {FirstOne(s)} ELSE {}
    BY <1>4 DEF RanksAt, PlacesAt
  <2>3. RanksAt(i) \subseteq Nat /\ PlacesAt(i) \subseteq Nat /\ Rank(s) \in Nat
        /\ rank(s) = FirstOne(s) /\ FirstOne(s) \in Nat
    BY RegistersHit, RankIsFirstOne DEF RanksAt, PlacesAt, Seen
  <2>4. /\ registers'[i] = IF Index(s) = i THEN Max({registers[i], Rank(s)}) ELSE registers[i]
        /\ regs_'[i] = IF reg(s) = i THEN Max({regs_[i], FirstOne(s)}) ELSE regs_[i]
    BY <1>1, <2>3 DEF Feed, Raised
  <2>5. IsGreatest(registers'[i], RanksAt(i)')
    <3>1. CASE Index(s) = i
      BY <2>1, <2>2, <2>3, <2>4, <3>1, GreatestRaised
    <3>2. CASE Index(s) # i
      BY <2>1, <2>2, <2>4, <3>2
    <3> QED  BY <3>1, <3>2
  <2>6. IsGreatest(regs_'[i], PlacesAt(i)')
    <3>1. CASE reg(s) = i
      BY <2>1, <2>2, <2>3, <2>4, <3>1, GreatestRaised
    <3>2. CASE reg(s) # i
      BY <2>1, <2>2, <2>4, <3>2
    <3> QED  BY <3>1, <3>2
  <2> QED  BY <2>5, <2>6 DEF IsGreatest
<1> QED  BY <1>5, <1>6, <1>7, <1>8 DEF SketchInv

LEMMA SketchesSay == SketchInv => SketchesHoldStream
<1> SUFFICES ASSUME SketchInv PROVE SketchesHoldStream
  OBVIOUS
<1>1. NeverForgets
  <2> SUFFICES ASSUME NEW s \in Stream
               PROVE  (added[s] > 0 => mightHave(s)) /\ estimate(s) >= added[s]
    BY DEF NeverForgets
  <2>1. added[s] > 0 => mightHave(s)
    BY DEF SketchInv, BitsSet, mightHave
  <2> DEFINE E == {table[<<r, Column(s, r)>>] : r \in Rows}
  <2>2. E \subseteq Nat /\ E # {} /\ \A e \in E : e >= added[s]
    <3>1. \A r \in Rows : table[<<r, Column(s, r)>>] \in Nat
      BY ColumnsHit DEF SketchInv, SketchTypes
    <3>2. 0 \in Rows
      BY SketchAssumption DEF Rows
    <3> QED  BY <3>1, <3>2 DEF SketchInv, CellsHold
  <2>3. estimate(s) = Min(E)
    BY DEF estimate, Rows, Column
  <2> HIDE DEF E
  <2>4. Min(E) \in E
    BY <2>2, MinIs
  <2> QED  BY <2>1, <2>2, <2>3, <2>4
<1>2. CountsDistinct
  <2> SUFFICES ASSUME NEW i \in RegisterIds
               PROVE  registers[i] = Max(RanksAt(i)) /\ regs_[i] = Max(PlacesAt(i))
    <3>1. DOMAIN registers = RegisterIds
      BY DEF SketchInv, SketchTypes
    <3> QED  BY <3>1 DEF CountsDistinct, RanksAt, PlacesAt
  <2>1. RanksAt(i) \subseteq Int /\ PlacesAt(i) \subseteq Int
    BY RegistersHit, RankIsFirstOne DEF RanksAt, PlacesAt, Seen
  <2> QED  BY <2>1, MaxIs DEF SketchInv, RegistersHold
<1> QED  BY <1>1, <1>2 DEF SketchesHoldStream

(* After any stream: the Bloom filter has all that came, the count-min     *)
(* sketch counts none of it short, and the registers of both classes are   *)
(* the greatest ranks of the distinct items, whatever order they came in   *)
(* and however often (bloom_filter.cpp:1, count_min_sketch.cpp:2,          *)
(* hyperloglog.cpp:1).                                                     *)
THEOREM SketchesHoldAll == SketchSpec => []SketchesHoldStream
<1>1. ASSUME SketchInv, [SketchNext]_sketchVars PROVE SketchInv'
  <2>1. CASE UNCHANGED sketchVars
    BY <1>1, <2>1 DEF sketchVars, SketchInv, SketchTypes, BitsSet, CellsHold, RegistersHold,
                      RanksAt, PlacesAt, IsGreatest, Seen, Rows, RegisterIds, BloomBits, Column
  <2>2. CASE SketchNext
    BY <1>1, <2>2, FeedKeeps DEF SketchNext
  <2> QED  BY <1>1, <2>1, <2>2
<1> QED  BY <1>1, SketchStarts, SketchesSay, PTL DEF SketchSpec
=============================================================================
