------------------------------ MODULE RaftNode ------------------------------
(***************************************************************************)
(* The members of a raft node (example/raft_server/raft.cc) that elections *)
(* are about - term, vote, role, votes, the believed leader, the packet    *)
(* number of each link - and what each handler and timer event does to     *)
(* them.  The datagrams are left to the modules that extend this one:      *)
(* RaftElection, where they carry elections only, and Raft, where they     *)
(* carry the log too.                                                      *)
(***************************************************************************)
EXTENDS Integers, FiniteSets

CONSTANTS
    Server,         \* the peers brought up with peerUp, on every node
    NOBODY,         \* "no peer": no vote cast, no known leader
    MaxTerm,        \* bound: no election is started beyond this term
    MaxElections,   \* bound: how many elections are started
    MaxUpdates,     \* bound: how many update packets are sent
    MaxRestarts     \* bound: how often a process dies and is started again

ASSUME ServerAssumption  == IsFiniteSet(Server) /\ NOBODY \notin Server
ASSUME BoundsAssumption  ==
    {MaxTerm, MaxElections, MaxUpdates, MaxRestarts} \subseteq Nat

Follower  == "Follower"
Candidate == "Candidate"
Leader    == "Leader"

VARIABLES
    term,       \* m_term
    voteFor,    \* m_voteFor
    role,       \* m_role
    votes,      \* m_votes
    leaderId,   \* m_leaderId
    sequence,   \* sequence[i][j]: m_peers[j]->sequence on node i
    msgs,       \* every datagram sent so far
    aborted,    \* the nodes stopped by a failed assert
    restarts,   \* how many restarts have happened
    voters      \* history: the peers whose vote i counted since its last claim

vars == <<term, voteFor, role, votes, leaderId, sequence, msgs, aborted, restarts, voters>>

peerNum == Cardinality(Server)

\* Mutants: half of the peers suffice, a new count starts from the old one.
HalfSuffices(n) == n >= peerNum \div 2
OneMoreVote(n)  == n + 1

Majority(n) == n * 2 > peerNum

\* m_votes when a claim starts, the node's own vote, after a count of n.
OwnVote(n) == 1
Peers(i) == Server \ {i}

-----------------------------------------------------------------------------
Init ==
    /\ term     = [i \in Server |-> 0]
    /\ voteFor  = [i \in Server |-> NOBODY]
    /\ role     = [i \in Server |-> Follower]
    /\ votes    = [i \in Server |-> 0]
    /\ leaderId = [i \in Server |-> NOBODY]
    /\ sequence = [i \in Server |-> [j \in Server |-> 0]]
    /\ msgs     = {}
    /\ aborted  = {}
    /\ restarts = 0
    /\ voters   = [i \in Server |-> {}]

\* A failed assert kills the process: nothing else of the node matters.
Abort(i) ==
    /\ aborted' = aborted \cup {i}
    /\ UNCHANGED <<term, voteFor, role, votes, leaderId, sequence, msgs, restarts, voters>>

\* The process dies, of itself or by an assert, and is started again.  Nothing
\* is kept on disk: every member has the value the constructor gives it.
Restart(i) ==
    /\ restarts < MaxRestarts
    /\ restarts' = restarts + 1
    /\ term'     = [term EXCEPT ![i] = 0]
    /\ voteFor'  = [voteFor EXCEPT ![i] = NOBODY]
    /\ role'     = [role EXCEPT ![i] = Follower]
    /\ votes'    = [votes EXCEPT ![i] = 0]
    /\ leaderId' = [leaderId EXCEPT ![i] = NOBODY]
    /\ sequence' = [sequence EXCEPT ![i] = [j \in Server |-> 0]]
    /\ aborted'  = aborted \ {i}
    /\ voters'   = [voters EXCEPT ![i] = {}]
    /\ UNCHANGED msgs

\* The next packet to each peer of S has the next number of its link.
Number(i, S) ==
    sequence' = [sequence EXCEPT ![i] =
                    [j \in Server |-> IF j \in S THEN @[j] + 1 ELSE @[j]]]

\* Only bounds the model: `n' more updates may be sent.
MayUpdate(n) == Cardinality({m \in msgs : m.type = "update"}) + n <= MaxUpdates

\* Only bounds the model: one more election may be started.
Elections == {<<m.from, m.curterm>> : m \in {p \in msgs : p.type = "claim"}}
MayClaim(i) == term[i] < MaxTerm /\ Cardinality(Elections) < MaxElections

-----------------------------------------------------------------------------
(* tick: the periodic timer event of a node.                               *)

\* claim, called by tick once the term is raised: the node votes for itself
\* (m_votes = 1, m_voteFor is left alone) and leads at once if its own vote is
\* a majority, else every peer is sent a claim.
StartElection(i) ==
    /\ term'   = [term EXCEPT ![i] = @ + 1]
    /\ votes'  = [votes EXCEPT ![i] = OwnVote(@)]
    /\ voters' = [voters EXCEPT ![i] = {}]
    /\ IF Majority(1)
       THEN /\ role' = [role EXCEPT ![i] = Leader]
            /\ leaderId' = [leaderId EXCEPT ![i] = i]
            /\ UNCHANGED sequence
       ELSE /\ role' = [role EXCEPT ![i] = Candidate]
            /\ leaderId' = [leaderId EXCEPT ![i] = NOBODY]
            /\ Number(i, Peers(i))
    /\ UNCHANGED <<voteFor, aborted, restarts>>

\* checkIsLeaderWithMs: a leader that lately heard of no majority steps down.
\* `recent' is the count of increaseSilentTime, the node itself included.
StayLeader(i, recent) ==
    /\ IF Majority(recent)
       THEN UNCHANGED <<role, leaderId>>
       ELSE /\ role' = [role EXCEPT ![i] = Follower]
            /\ leaderId' = [leaderId EXCEPT ![i] = NOBODY]
    /\ UNCHANGED <<term, voteFor, votes, aborted, restarts, voters>>

-----------------------------------------------------------------------------
(* handleMessage: a higher term is adopted before the message is handled.  *)

Newer(i, m)  == m.curterm > term[i]

\* Mutants: the role is set to an id, the vote is forgotten whatever the term
\* of the message, an update of a term gone by names the leader, an answer to any
\* packet of the past is taken.
RoleIsNobody(i, m)   == IF Newer(i, m) THEN NOBODY ELSE role[i]
VoteForgotten(i, m)  == NOBODY
AnyTerm(i, m)        == TRUE
AnswersAny(i, m)     == m.sequence <= sequence[i][m.from]

TermAt(i, m) == IF Newer(i, m) THEN m.curterm ELSE term[i]
RoleAt(i, m) == IF Newer(i, m) THEN Follower ELSE role[i]
VoteAt(i, m) == IF Newer(i, m) THEN NOBODY ELSE voteFor[i]

\* setTerm, and m_role = Follower
AdoptTerm(i, m) == term' = [term EXCEPT ![i] = TermAt(i, m)]

\* m answers the last packet that i sent to its sender, for the first time.
Answers(i, m) == m.sequence = sequence[i][m.from]

\* An update of no older term than the node is in.
Timely(i, m) == m.curterm >= TermAt(i, m)

\* handleUpdate: the sender of an update that fits the log and is of no older
\* term is taken for the leader.  The role of the receiver is not touched.
TakeUpdate(i, m, fits) ==
    /\ AdoptTerm(i, m)
    /\ role'    = [role EXCEPT ![i] = RoleAt(i, m)]
    /\ voteFor' = [voteFor EXCEPT ![i] = VoteAt(i, m)]
    /\ votes'   = [votes EXCEPT ![i] = IF Newer(i, m) THEN 0 ELSE @]
    /\ IF fits /\ Timely(i, m)
       THEN leaderId' = [leaderId EXCEPT ![i] = m.from]
       ELSE UNCHANGED leaderId
    /\ UNCHANGED <<sequence, aborted, restarts, voters>>

\* handleDone: only a leader takes the answer to its last packet, and only
\* once; if `beats', it then sends the peer its next entry, and beat asserts
\* that the node is its own leader (raft.cc:209).
Takes(i, m) == RoleAt(i, m) = Leader /\ Answers(i, m)
TakeDone(i, m, beats) ==
    /\ AdoptTerm(i, m)
    /\ role'    = [role EXCEPT ![i] = RoleAt(i, m)]
    /\ voteFor' = [voteFor EXCEPT ![i] = VoteAt(i, m)]
    /\ votes'   = [votes EXCEPT ![i] = IF Newer(i, m) THEN 0 ELSE @]
    /\ beats => Takes(i, m) /\ m.curterm >= term[i]
    /\ sequence' = [sequence EXCEPT ![i][m.from] =
                       IF ~ Takes(i, m) THEN @
                       ELSE IF beats /\ leaderId[i] = i THEN @ + 2 ELSE @ + 1]
    /\ aborted' = IF beats /\ leaderId[i] # i THEN aborted \cup {i} ELSE aborted
    /\ UNCHANGED <<leaderId, restarts, voters>>

\* handleClaim: a claim of the current term makes any node a follower.  The
\* vote goes to the candidate if its log passes the check and no other
\* candidate of this term has it.
Grants(i, m, logOk) ==
    /\ m.curterm >= term[i]
    /\ logOk
    /\ VoteAt(i, m) \in {NOBODY, m.from}
TakeClaim(i, m, granted) ==
    /\ AdoptTerm(i, m)
    /\ role'  = [role EXCEPT ![i] = IF m.curterm >= term[i] THEN Follower ELSE @]
    /\ votes' = [votes EXCEPT ![i] = IF Newer(i, m) THEN 0 ELSE @]
    /\ voteFor' = [voteFor EXCEPT ![i] = IF granted THEN m.from ELSE VoteAt(i, m)]
    /\ UNCHANGED <<leaderId, sequence, aborted, restarts, voters>>

\* handleVote: each packet number is answered once, so a peer is counted once.
TakeVote(i, m) ==
    /\ AdoptTerm(i, m)
    /\ voteFor' = [voteFor EXCEPT ![i] = VoteAt(i, m)]
    /\ sequence' = [sequence EXCEPT ![i][m.from] = IF Answers(i, m) THEN @ + 1 ELSE @]
    /\ IF Answers(i, m) /\ m.curterm >= term[i] /\ RoleAt(i, m) = Candidate
       THEN LET count == IF m.granted THEN votes[i] + 1 ELSE votes[i]
            IN  /\ votes'  = [votes EXCEPT ![i] = count]
                /\ voters' = [voters EXCEPT ![i] =
                                 IF m.granted THEN @ \cup {m.from} ELSE @]
                /\ IF Majority(count)
                   THEN /\ role' = [role EXCEPT ![i] = Leader]
                        /\ leaderId' = [leaderId EXCEPT ![i] = i]
                   ELSE UNCHANGED <<role, leaderId>>
       ELSE /\ role'  = [role EXCEPT ![i] = RoleAt(i, m)]
            /\ votes' = [votes EXCEPT ![i] = IF Newer(i, m) THEN 0 ELSE @]
            /\ UNCHANGED <<leaderId, voters>>
    /\ UNCHANGED <<aborted, restarts>>
=============================================================================
