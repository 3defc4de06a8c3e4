---------------------------- MODULE RaftElection ----------------------------
(***************************************************************************)
(* Leader election of the raft_server example (example/raft_server/        *)
(* raft.cc): terms, votes, roles, the believed leader, the per-link packet *)
(* sequence numbers, and the four UDP messages that carry them.            *)
(*                                                                         *)
(* The replicated log is abstracted: whether an entry can be appended,     *)
(* whether the candidate's log passes the check of handleClaim and whether *)
(* a peer still misses entries are free choices, so what holds here holds  *)
(* for any log.  Timers are abstracted too: a tick may find the timer      *)
(* expired or not, and a leader may have heard of any number of peers.     *)
(*                                                                         *)
(* The network is UDP: `msgs' holds every datagram ever sent, and a node   *)
(* may receive any of them at any time, any number of times or never, so   *)
(* loss, duplication and reordering are all behaviours of this module.     *)
(***************************************************************************)
EXTENDS RaftNode

-----------------------------------------------------------------------------
(* Messages.  `to' is the address the datagram is sent to.                 *)

Claims  == [type : {"claim"},  curterm : Nat, from : Server, to : Server, sequence : Nat]
Votes   == [type : {"vote"},   curterm : Nat, from : Server, to : Server, sequence : Nat,
            granted : BOOLEAN]
Updates == [type : {"update"}, curterm : Nat, from : Server, to : Server, sequence : Nat]
Dones   == [type : {"done"},   curterm : Nat, from : Server, to : Server, sequence : Nat]
Message == Claims \cup Votes \cup Updates \cup Dones

Packet(type, t, i, j, s) ==
    [type |-> type, curterm |-> t, from |-> i, to |-> j, sequence |-> s]
Vote(t, i, j, s, g) ==
    [type |-> "vote", curterm |-> t, from |-> i, to |-> j, sequence |-> s, granted |-> g]

Packets(type, t, i, S) == {Packet(type, t, i, j, sequence[i][j] + 1) : j \in S}

-----------------------------------------------------------------------------
Claim(i) ==
    /\ StartElection(i)
    /\ msgs' = IF Majority(1)
               THEN msgs
               ELSE msgs \cup Packets("claim", term[i] + 1, i, Peers(i))

\* The election timer of a follower expires: it forgets the leader and claims.
TickFollower(i) ==
    /\ i \notin aborted
    /\ role[i] = Follower
    /\ MayClaim(i)
    /\ Claim(i)

\* The election timer of a candidate expires: claim asserts that no leader is
\* known (raft.cc:336).
TickCandidate(i) ==
    /\ i \notin aborted
    /\ role[i] = Candidate
    /\ MayClaim(i)
    /\ IF leaderId[i] = NOBODY THEN Claim(i) ELSE Abort(i)

\* beat(NOBODY): one update to each peer.
BeatAll(i) ==
    /\ MayUpdate(peerNum - 1)
    /\ Number(i, Peers(i))
    /\ msgs' = msgs \cup Packets("update", term[i], i, Peers(i))

\* A tick of a leader: a heartbeat to every peer if the timer expired (beat
\* asserts that the node is its own leader), then checkIsLeaderWithMs.
TickLeader(i) ==
    /\ i \notin aborted
    /\ role[i] = Leader
    /\ \E expired \in BOOLEAN, recent \in 1..peerNum :
          IF expired /\ Peers(i) # {} /\ leaderId[i] # i
          THEN Abort(i)
          ELSE /\ IF expired THEN BeatAll(i) ELSE UNCHANGED <<sequence, msgs>>
               /\ StayLeader(i, recent)

\* emit: the server of a leader got a write from a client and beats at once.
Emit(i) ==
    /\ i \notin aborted
    /\ role[i] = Leader
    /\ IF leaderId[i] # i
       THEN Abort(i)
       ELSE /\ BeatAll(i)
            /\ UNCHANGED <<term, voteFor, role, votes, leaderId, aborted, restarts, voters>>

\* An update that may or may not fit the log is answered, whatever its term.
HandleUpdate(i, m) ==
    /\ m.type = "update"
    /\ \E fits \in BOOLEAN : TakeUpdate(i, m, fits)
    /\ msgs' = msgs \cup {Packet("done", TermAt(i, m), i, m.from, m.sequence)}

\* After the answer of a peer the leader may have its next entry to send.
HandleDone(i, m) ==
    /\ m.type = "done"
    /\ \E beats \in BOOLEAN :
          /\ beats => MayUpdate(1)
          /\ TakeDone(i, m, beats)
          /\ msgs' = IF beats /\ leaderId[i] = i
                     THEN msgs \cup {Packet("update", term[i], i, m.from,
                                            sequence[i][m.from] + 2)}
                     ELSE msgs

HandleClaim(i, m) ==
    /\ m.type = "claim"
    /\ \E logOk \in BOOLEAN :
          /\ TakeClaim(i, m, Grants(i, m, logOk))
          /\ msgs' = msgs \cup {Vote(TermAt(i, m), i, m.from, m.sequence, Grants(i, m, logOk))}

HandleVote(i, m) ==
    /\ m.type = "vote"
    /\ TakeVote(i, m)
    /\ UNCHANGED msgs

\* recvMessage: a datagram addressed to the node, from a known peer.
Receive(i, m) ==
    /\ i \notin aborted
    /\ m.to = i
    /\ \/ HandleUpdate(i, m)
       \/ HandleDone(i, m)
       \/ HandleClaim(i, m)
       \/ HandleVote(i, m)

Next ==
    \E i \in Server :
        \/ TickFollower(i)
        \/ TickCandidate(i)
        \/ TickLeader(i)
        \/ Emit(i)
        \/ \E m \in msgs : Receive(i, m)
        \/ Restart(i)

Spec == Init /\ [][Next]_vars

-----------------------------------------------------------------------------
(* Properties.                                                             *)

TypeOK ==
    /\ term     \in [Server -> Nat]
    /\ voteFor  \in [Server -> Server \cup {NOBODY}]
    /\ role     \in [Server -> {Follower, Candidate, Leader}]
    /\ votes    \in [Server -> Nat]
    /\ leaderId \in [Server -> Server \cup {NOBODY}]
    /\ sequence \in [Server -> [Server -> Nat]]
    /\ msgs     \subseteq Message
    /\ aborted  \subseteq Server
    /\ restarts \in Nat
    /\ voters   \in [Server -> SUBSET Server]

\* The votes granted to i for term t.
GrantsTo(i, t) == {m \in Votes \cap msgs : m.granted /\ m.to = i /\ m.curterm = t}
GrantedBy(j, i, t) == \E m \in GrantsTo(i, t) : m.from = j

\* No two nodes act as leader of the same term at the same time, however
\* datagrams are lost, repeated or reordered (handleClaim raft.cc:821,
\* handleVote raft.cc:867, becomeLeader raft.cc:320).
OneLeaderPerTerm ==
    \A i, j \in Server :
        role[i] = Leader /\ role[j] = Leader /\ term[i] = term[j] => i = j

\* A node gives its vote of a term to one candidate only, even though tick
\* raises the term without clearing m_voteFor (raft.cc:415, 421, 853-858).
OneGrantPerTerm ==
    \A v, w \in msgs :
        /\ v.type = "vote" /\ w.type = "vote"
        /\ v.granted /\ w.granted
        /\ v.from = w.from /\ v.curterm = w.curterm
        => v.to = w.to

\* The count a candidate or a leader goes by is that of distinct peers which
\* voted for it in its present term: no vote is counted twice, no vote of an
\* earlier claim is counted (packet numbers, raft.cc:869-878).
VotesAreGrants ==
    \A i \in Server :
        role[i] # Follower =>
            /\ votes[i] = 1 + Cardinality(voters[i])
            /\ \A j \in voters[i] : j # i /\ GrantedBy(j, i, term[i])

\* Whoever sends an update of a term won that term: a majority granted it
\* their votes, the sender's own included (beat raft.cc:196).
UpdatesComeFromWinners ==
    \A m \in msgs :
        m.type = "update" =>
            \E Q \in SUBSET Peers(m.from) :
                /\ 2 * (1 + Cardinality(Q)) > Cardinality(Server)
                /\ \A j \in Q : GrantedBy(j, m.from, m.curterm)

\* When a node takes another one for its leader, that one sent it an update of
\* the very term the node is then in: an update that was delayed until a later
\* term names no leader (handleUpdate raft.cc:661-671).  The node may keep that
\* leader into a later term, as a claim does not make it forget (raft.cc:813).
KnownLeaderSentUpdate ==
    [][\A i \in Server :
          leaderId'[i] \notin {NOBODY, i, leaderId[i]} =>
              \E m \in msgs : /\ m.type = "update" /\ m.to = i
                              /\ m.from = leaderId'[i]
                              /\ m.curterm = term'[i]]_vars

\* A process that keeps running never goes back to an earlier term, and
\* within a term never takes back or moves the vote it cast (setTerm
\* raft.cc:813, handleClaim raft.cc:853-858).
TermAndVoteAreStable ==
    [][restarts' = restarts =>
          \A i \in Server :
              /\ term'[i] >= term[i]
              /\ term'[i] = term[i] /\ voteFor[i] # NOBODY => voteFor'[i] = voteFor[i]]_vars

\* No assertion about elections fails: whoever claims knows no leader
\* (raft.cc:336), and a leader that sends holds itself to be the leader
\* (raft.cc:209, 523).
AssertionsHold == aborted = {}

\* A server without restarts keeps the promise of election to its users: terms
\* only grow and nobody becomes leader of a term that has a leader.
Promise == INSTANCE TermLeadership
               WITH epoch <- term, leads <- {i \in Server : role[i] = Leader}
KeepsPromise == Promise!Init /\ [][Promise!Next]_Promise!vars
-----------------------------------------------------------------------------
(* The inductive invariant that the promise of election rests on when no   *)
(* process restarts.                                                       *)

GrantedVote(m) == m.type = "vote" /\ m.granted

\* Nobody sends itself a packet.
NoSelfPackets == \A m \in msgs : m.from # m.to

\* A link's number is at least that of every packet and reply sent on it.
PacketNumbersBound ==
    \A m \in msgs :
        /\ m.type \in {"claim", "update"} => m.sequence <= sequence[m.from][m.to]
        /\ m.type \in {"vote", "done"}    => m.sequence <= sequence[m.to][m.from]

\* A vote given in the present term is on record, and its giver follows.
GrantsAreRecorded ==
    \A m \in msgs :
        GrantedVote(m) =>
            /\ m.curterm <= term[m.from]
            /\ m.curterm = term[m.from] => /\ voteFor[m.from] = m.to
                                           /\ role[m.from] = Follower

\* A leader counted a majority.
LeadersCountedMajority ==
    \A i \in Server : role[i] = Leader => Majority(votes[i])

\* Once a candidate counted the vote of j, every claim and vote between the
\* two carries a number of the past.
CountedLinksAreSpent ==
    \A i \in Server :
        role[i] = Candidate =>
            \A j \in voters[i], m \in msgs :
                \/ m.type = "claim" /\ m.from = i /\ m.to = j
                \/ m.type = "vote" /\ m.from = j /\ m.to = i
                => m.sequence < sequence[i][j]

ElectionInv ==
    /\ TypeOK
    /\ NoSelfPackets
    /\ PacketNumbersBound
    /\ GrantsAreRecorded
    /\ OneGrantPerTerm
    /\ VotesAreGrants
    /\ LeadersCountedMajority
    /\ CountedLinksAreSpent
=============================================================================
