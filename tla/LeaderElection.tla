--------------------------- MODULE LeaderElection ---------------------------
(***************************************************************************)
(* distributed_systems/raft_leader_election.cpp: the node whose timeout    *)
(* ends first stands, asks the others in turn for their votes, and becomes *)
(* leader with more than half.  All of it is one thread, and there are no  *)
(* other candidates.                                                       *)
(***************************************************************************)
EXTENDS Integers, FiniteSets

CONSTANTS numElectors,   \* n of the program
          Timeouts       \* what timeoutDist may give: 150 .. 300

ASSUME ElectionAssumption == numElectors \in Nat \ {0} /\ Timeouts \subseteq Nat

Electors == 0 .. numElectors - 1
Nobody == -1

VARIABLES timeouts, role, term, votedFor, votesReceived,   \* per node
          asked   \* the nodes the loop has passed; Nobody before the election

electionVars == <<timeouts, role, term, votedFor, votesReceived, asked>>

ElectionInit ==
  /\ timeouts \in [Electors -> Timeouts]
  /\ role = [i \in Electors |-> "FOLLOWER"]
  /\ term = [i \in Electors |-> 0]
  /\ votedFor = [i \in Electors |-> Nobody]
  /\ votesReceived = [i \in Electors |-> 0]
  /\ asked = Nobody

(* The first of the least.                                                 *)
EndsFirst(c) ==
  \A i \in Electors : timeouts[c] < timeouts[i] \/ (timeouts[c] = timeouts[i] /\ c <= i)
candidateId == CHOOSE c \in Electors : EndsFirst(c)

-----------------------------------------------------------------------------
(* A mistake the checks are tested with: the candidate counts its own vote *)
(* and does not give it.                                                   *)
StandWithoutVoting ==
  /\ asked = Nobody
  /\ role' = [role EXCEPT ![candidateId] = "CANDIDATE"]
  /\ term' = [term EXCEPT ![candidateId] = @ + 1]
  /\ votesReceived' = [votesReceived EXCEPT ![candidateId] = 1]
  /\ asked' = 0
  /\ UNCHANGED <<timeouts, votedFor>>

-----------------------------------------------------------------------------
Stand ==
  /\ asked = Nobody
  /\ role' = [role EXCEPT ![candidateId] = "CANDIDATE"]
  /\ term' = [term EXCEPT ![candidateId] = @ + 1]
  /\ votedFor' = [votedFor EXCEPT ![candidateId] = candidateId]
  /\ votesReceived' = [votesReceived EXCEPT ![candidateId] = 1]
  /\ asked' = 0
  /\ UNCHANGED timeouts

grantVote(voter) == votedFor[voter] = Nobody \/ term[candidateId] > term[voter]

RequestVote ==
  /\ asked \in Electors
  /\ asked' = asked + 1
  /\ IF asked # candidateId /\ grantVote(asked)
       THEN /\ term' = [term EXCEPT ![asked] = term[candidateId]]
            /\ votedFor' = [votedFor EXCEPT ![asked] = candidateId]
            /\ votesReceived' = [votesReceived EXCEPT ![candidateId] = @ + 1]
       ELSE UNCHANGED <<term, votedFor, votesReceived>>
  /\ UNCHANGED <<timeouts, role>>

majority == numElectors \div 2 + 1

Conclude ==
  /\ asked = numElectors /\ role[candidateId] = "CANDIDATE"
  /\ votesReceived[candidateId] >= majority
  /\ role' = [role EXCEPT ![candidateId] = "LEADER"]
  /\ UNCHANGED <<timeouts, term, votedFor, votesReceived, asked>>

ElectionNext == Stand \/ RequestVote \/ Conclude

ElectionSpec == ElectionInit /\ [][ElectionNext]_electionVars

-----------------------------------------------------------------------------
ElectionTypeOK ==
  /\ timeouts \in [Electors -> Timeouts]
  /\ role \in [Electors -> {"FOLLOWER", "CANDIDATE", "LEADER"}]
  /\ term \in [Electors -> Nat]
  /\ votedFor \in [Electors -> Electors \cup {Nobody}]
  /\ votesReceived \in [Electors -> Nat]
  /\ asked \in {Nobody} \cup 0 .. numElectors

VotersOf(c) == {i \in Electors : votedFor[i] = c}

(* A candidate counts exactly the votes given to it, so that a leader has  *)
(* more than half of all nodes behind it, which share its term; there is   *)
(* no second one, and nobody's timeout ends before its own.                *)
LeaderHasMajority ==
  \A c \in Electors :
    /\ votesReceived[c] = Cardinality(VotersOf(c))
    /\ role[c] = "LEADER" =>
         /\ 2 * Cardinality(VotersOf(c)) > numElectors
         /\ \A i \in VotersOf(c) : term[i] = term[c]
         /\ \A i \in Electors : role[i] = "LEADER" => i = c
         /\ \A i \in Electors : timeouts[c] <= timeouts[i]
=============================================================================
