-------------------------- MODULE RaftPromiseProofs --------------------------
(***************************************************************************)
(* Proofs about the steps of RaftElection: terms and votes are stable, and *)
(* the election implements TermLeadership.                                 *)
(***************************************************************************)
EXTENDS RaftElectionProofs

\* What a step of node i does to the terms, roles and votes of all, unless i
\* is started again: nothing to the others', and its term and its vote of the
\* term stay or grow.
StepOf(i) ==
    /\ \A j \in Server \ {i} :
          term'[j] = term[j] /\ role'[j] = role[j] /\ voteFor'[j] = voteFor[j]
    /\ term'[i] >= term[i]
    /\ term'[i] = term[i] /\ voteFor[i] # NOBODY => voteFor'[i] = voteFor[i]

LEMMA AbortIsStepOf ==
    ASSUME TypeOK, NEW i \in Server, Abort(i)
    PROVE  StepOf(i)
BY DEF Abort, StepOf, TypeOK

LEMMA ClaimIsStepOf ==
    ASSUME TypeOK, NEW i \in Server, Claim(i)
    PROVE  StepOf(i)
BY DEF Claim, StartElection, StepOf, TypeOK

\* A node that takes over the term of a message takes the vote back only with
\* an older term.
LEMMA AdoptTermIsStepOf ==
    ASSUME TypeOK, NEW i \in Server, NEW m \in msgs, AdoptTerm(i, m),
           \A j \in Server \ {i} : role'[j] = role[j] /\ voteFor'[j] = voteFor[j],
           voteFor'[i] = VoteAt(i, m) \/ VoteAt(i, m) \in {NOBODY, voteFor'[i]}
    PROVE  StepOf(i)
<1>1. m.curterm \in Nat
  BY MessageFields DEF TypeOK
<1>2. \A j \in Server \ {i} : term'[j] = term[j]
  BY DEF AdoptTerm, TypeOK
<1>3. CASE Newer(i, m)
  <2>1. term'[i] \in Nat /\ term[i] \in Nat /\ term'[i] > term[i]
    BY <1>1, <1>3 DEF AdoptTerm, TermAt, Newer, TypeOK
  <2>2. QED
    BY <1>2, <2>1 DEF StepOf, TypeOK
<1>4. CASE ~ Newer(i, m)
  <2>1. term'[i] = term[i] /\ VoteAt(i, m) = voteFor[i]
    BY <1>4 DEF AdoptTerm, TermAt, VoteAt, TypeOK
  <2>2. QED
    BY <1>2, <2>1 DEF StepOf, TypeOK
<1>5. QED
  BY <1>3, <1>4

LEMMA ReceiveIsStepOf ==
    ASSUME TypeOK, NEW i \in Server, NEW m \in msgs, Receive(i, m)
    PROVE  StepOf(i)
<1>1. CASE HandleUpdate(i, m)
  <2>1. /\ AdoptTerm(i, m)
        /\ role'    = [role EXCEPT ![i] = RoleAt(i, m)]
        /\ voteFor' = [voteFor EXCEPT ![i] = VoteAt(i, m)]
    BY <1>1 DEF HandleUpdate, TakeUpdate
  <2>2. QED
    BY <2>1, AdoptTermIsStepOf DEF TypeOK
<1>2. CASE HandleDone(i, m)
  <2>1. /\ AdoptTerm(i, m)
        /\ role'    = [role EXCEPT ![i] = RoleAt(i, m)]
        /\ voteFor' = [voteFor EXCEPT ![i] = VoteAt(i, m)]
    BY <1>2 DEF HandleDone, TakeDone
  <2>2. QED
    BY <2>1, AdoptTermIsStepOf DEF TypeOK
<1>3. CASE HandleClaim(i, m)
  <2>1. PICK logOk \in BOOLEAN : TakeClaim(i, m, Grants(i, m, logOk))
    BY <1>3 DEF HandleClaim
  <2>2. /\ AdoptTerm(i, m)
        /\ role' = [role EXCEPT ![i] = IF m.curterm >= term[i] THEN Follower ELSE @]
        /\ voteFor' = [voteFor EXCEPT ![i] = IF Grants(i, m, logOk) THEN m.from ELSE VoteAt(i, m)]
    BY <2>1 DEF TakeClaim
  <2>3. voteFor'[i] = IF Grants(i, m, logOk) THEN m.from ELSE VoteAt(i, m)
    BY <2>2 DEF TypeOK
  <2>4. Grants(i, m, logOk) => VoteAt(i, m) \in {NOBODY, m.from}
    BY DEF Grants
  <2>5. \A j \in Server \ {i} : role'[j] = role[j] /\ voteFor'[j] = voteFor[j]
    BY <2>2 DEF TypeOK
  <2>6. QED
    BY <2>2, <2>3, <2>4, <2>5, AdoptTermIsStepOf
<1>4. CASE HandleVote(i, m)
  <2>1. TakeVote(i, m)
    BY <1>4 DEF HandleVote
  <2>2. AdoptTerm(i, m) /\ voteFor' = [voteFor EXCEPT ![i] = VoteAt(i, m)]
    BY <2>1 DEF TakeVote
  <2>3. \A j \in Server \ {i} : role'[j] = role[j]
    BY <2>1 DEF TakeVote, TypeOK
  <2>4. QED
    BY <2>2, <2>3, AdoptTermIsStepOf DEF TypeOK
<1>5. QED
  BY <1>1, <1>2, <1>3, <1>4 DEF Receive

\* Every step that is no restart is the step of one node.
LEMMA NextIsStepOf ==
    ASSUME TypeOK, Next
    PROVE  (\E i \in Server : StepOf(i)) \/ restarts' # restarts
<1>1. ASSUME NEW i \in Server, TickFollower(i) \/ TickCandidate(i)
      PROVE  StepOf(i)
  BY <1>1, ClaimIsStepOf, AbortIsStepOf DEF TickFollower, TickCandidate
<1>2. ASSUME NEW i \in Server, TickLeader(i)
      PROVE  StepOf(i)
  <2>1. CASE Abort(i)
    BY <2>1, AbortIsStepOf
  <2>2. CASE \E recent \in 1..peerNum : StayLeader(i, recent)
    BY <2>2 DEF StayLeader, StepOf, TypeOK
  <2>3. QED
    BY <1>2, <2>1, <2>2 DEF TickLeader
<1>3. ASSUME NEW i \in Server, Emit(i)
      PROVE  StepOf(i)
  <2>1. CASE Abort(i)
    BY <2>1, AbortIsStepOf
  <2>2. CASE UNCHANGED <<term, role, voteFor>>
    BY <2>2 DEF StepOf, TypeOK
  <2>3. QED
    BY <1>3, <2>1, <2>2 DEF Emit
<1>4. ASSUME NEW i \in Server, Restart(i)
      PROVE  restarts' # restarts
  BY <1>4 DEF Restart, TypeOK
<1>5. QED
  BY <1>1, <1>2, <1>3, <1>4, ReceiveIsStepOf DEF Next

LEMMA NoRestarts ==
    ASSUME MaxRestarts = 0, TypeOK, Next
    PROVE  restarts' = restarts
<1>1. ASSUME NEW i \in Server, Restart(i)
      PROVE  FALSE
  BY <1>1 DEF Restart, TypeOK
<1>2. ASSUME NEW i \in Server, TickFollower(i) \/ TickCandidate(i) \/ TickLeader(i) \/ Emit(i)
      PROVE  restarts' = restarts
  BY <1>2 DEF TickFollower, TickCandidate, TickLeader, Emit, Claim, StartElection, Abort, StayLeader
<1>3. ASSUME NEW i \in Server, NEW m \in msgs, Receive(i, m)
      PROVE  restarts' = restarts
  BY <1>3 DEF Receive, HandleUpdate, HandleDone, HandleClaim, HandleVote,
              TakeUpdate, TakeDone, TakeClaim, TakeVote
<1>4. QED
  BY <1>1, <1>2, <1>3 DEF Next

-----------------------------------------------------------------------------
\* A process that keeps running never goes back to an earlier term and never
\* moves a vote within a term (raft.cc:813, 853-858), restarts of others
\* notwithstanding.
THEOREM TermsAndVotesStay == Spec => TermAndVoteAreStable
<1> DEFINE Stays ==
       restarts' = restarts =>
          \A i \in Server :
              /\ term'[i] >= term[i]
              /\ term'[i] = term[i] /\ voteFor[i] # NOBODY => voteFor'[i] = voteFor[i]
<1>1. TypeOK /\ [Next]_vars => [Stays]_vars
  <2> SUFFICES ASSUME TypeOK, Next, restarts' = restarts, NEW i \in Server
               PROVE  /\ term'[i] >= term[i]
                      /\ term'[i] = term[i] /\ voteFor[i] # NOBODY => voteFor'[i] = voteFor[i]
    OBVIOUS
  <2>1. PICK j \in Server : StepOf(j)
    BY NextIsStepOf
  <2>2. term[i] \in Nat
    BY DEF TypeOK
  <2>3. QED
    BY <2>1, <2>2 DEF StepOf
<1>2. Spec => []TypeOK
  BY TypeCorrect
<1>3. QED
  BY <1>1, <1>2, PTL DEF Spec, TermAndVoteAreStable

-----------------------------------------------------------------------------
LeadersNow == {i \in Server : role[i] = Leader}

\* The step of node i, after which at most one node leads its term, is one of
\* TermLeadership: i wins or follows.
LEMMA StepOfKeepsPromise ==
    ASSUME TypeOK, TypeOK', OneLeaderPerTerm', NEW i \in Server, StepOf(i)
    PROVE  Promise!Next
<1>1. Promise!Advance(i)
  <2>1. term' = [term EXCEPT ![i] = term'[i]]
    BY DEF StepOf, TypeOK
  <2>2. term'[i] \in Nat /\ term'[i] >= term[i]
    BY DEF StepOf, TypeOK
  <2>3. QED
    BY <2>1, <2>2 DEF Promise!Advance
<1>2. CASE role'[i] = Leader
  <2>1. LeadersNow' = LeadersNow \cup {i}
    BY <1>2 DEF LeadersNow, StepOf
  <2>2. \A j \in LeadersNow \ {i} : term[j] # term'[i]
    BY <1>2 DEF LeadersNow, StepOf, OneLeaderPerTerm
  <2>3. Promise!Win(i)
    BY <1>1, <2>1, <2>2 DEF Promise!Win, LeadersNow
  <2>4. QED
    BY <2>3 DEF Promise!Next
<1>3. CASE role'[i] # Leader
  <2>1. LeadersNow' = LeadersNow \ {i}
    BY <1>3 DEF LeadersNow, StepOf
  <2>2. Promise!Follow(i)
    BY <1>1, <2>1 DEF Promise!Follow, LeadersNow
  <2>3. QED
    BY <2>2 DEF Promise!Next
<1>4. QED
  BY <1>2, <1>3

\* As long as no process restarts, election implements its promise: every
\* step lets one node lead a term that nobody leads, fall back, or is unseen.
THEOREM ElectionKeepsPromise ==
    ASSUME MaxRestarts = 0
    PROVE  Spec => KeepsPromise
<1>1. Init => Promise!Init
  BY DEF Init, Promise!Init, Leader, Follower
<1>2. ASSUME ElectionInv, ElectionInv', [Next]_vars
      PROVE  [Promise!Next]_Promise!vars
  <2>1. CASE UNCHANGED vars
    BY <2>1 DEF vars, Promise!vars
  <2>2. CASE Next
    <3>1. TypeOK /\ TypeOK' /\ OneLeaderPerTerm'
      <4>1. ElectionInv' => OneLeaderPerTerm'
        BY InvImpliesOneLeader, PTL
      <4>2. QED
        BY <1>2, <4>1 DEF ElectionInv
    <3>2. restarts' = restarts
      BY <2>2, <3>1, NoRestarts
    <3>3. PICK i \in Server : StepOf(i)
      BY <2>2, <3>1, <3>2, NextIsStepOf
    <3>4. QED
      BY <3>1, <3>3, StepOfKeepsPromise
  <2>3. QED
    BY <1>2, <2>1, <2>2
<1>3. Spec => []ElectionInv
  BY ElectionInvariant
<1>4. QED
  BY <1>1, <1>2, <1>3, PTL DEF Spec, KeepsPromise

-----------------------------------------------------------------------------
(* The updates, and the leaders that their receivers know.                 *)

\* Packets stay on the wire, and only a leader sends updates, of its term.
LeadersUpdate ==
    /\ msgs \subseteq msgs'
    /\ \A m \in msgs' \ msgs :
          m.type = "update" =>
              m.from \in Server /\ role[m.from] = Leader /\ m.curterm = term[m.from]

\* The node i knows the leader it knew, itself, nobody, or one whose update of
\* the term that i is then in is on the wire; the others know whom they knew.
Learns(i) ==
    /\ \A j \in Server \ {i} : leaderId'[j] = leaderId[j]
    /\ \/ leaderId'[i] \in {leaderId[i], NOBODY, i}
       \/ \E m \in msgs : /\ m.type = "update" /\ m.to = i
                          /\ m.from = leaderId'[i]
                          /\ m.curterm = term'[i]

LEMMA BeatIsOfLeader ==
    ASSUME NEW i \in Server, BeatAll(i), role[i] = Leader
    PROVE  LeadersUpdate
BY DEF BeatAll, LeadersUpdate, Packets, Packet

LEMMA TermAtGrows ==
    ASSUME TypeOK, NEW i \in Server, NEW m \in msgs, AdoptTerm(i, m)
    PROVE  /\ term'[i] = TermAt(i, m) /\ term'[i] >= term[i] /\ term'[i] >= m.curterm
           /\ \A j \in Server \ {i} : term'[j] = term[j]
<1>1. m.curterm \in Nat /\ term[i] \in Nat
  BY MessageFields DEF TypeOK
<1>2. term'[i] = TermAt(i, m) /\ \A j \in Server \ {i} : term'[j] = term[j]
  BY DEF AdoptTerm, TypeOK
<1>3. TermAt(i, m) >= term[i] /\ TermAt(i, m) >= m.curterm
  BY <1>1 DEF TermAt, Newer
<1>4. QED
  BY <1>2, <1>3

LEMMA ReceiveUpdates ==
    ASSUME TypeOK, NEW i \in Server, NEW m \in msgs, Receive(i, m)
    PROVE  LeadersUpdate /\ Learns(i)
<1>1. m.to = i /\ m.from \in Server
  BY MessageFields DEF Receive, TypeOK
<1>2. CASE HandleUpdate(i, m)
  <2>1. LeadersUpdate
    BY <1>2 DEF HandleUpdate, LeadersUpdate, Packet
  <2>2. PICK fits \in BOOLEAN : m.type = "update" /\ TakeUpdate(i, m, fits)
    BY <1>2 DEF HandleUpdate
  <2>3. \/ leaderId' = leaderId
        \/ m.curterm >= TermAt(i, m) /\ leaderId' = [leaderId EXCEPT ![i] = m.from]
    BY <2>2 DEF TakeUpdate, Timely
  <2>4. term'[i] = TermAt(i, m) /\ term'[i] >= m.curterm
    BY <2>2, TermAtGrows DEF TakeUpdate
  <2>5. m.curterm \in Nat /\ term'[i] \in Nat
    BY <2>4, MessageFields DEF TermAt, TypeOK
  <2>6. m.curterm >= TermAt(i, m) => m.curterm = term'[i]
    BY <2>4, <2>5
  <2>7. Learns(i)
    BY <1>1, <2>2, <2>3, <2>6 DEF Learns, TypeOK
  <2>8. QED
    BY <2>1, <2>7
<1>3. CASE HandleDone(i, m)
  <2>1. PICK beats \in BOOLEAN :
           /\ TakeDone(i, m, beats)
           /\ msgs' = IF beats /\ leaderId[i] = i
                      THEN msgs \cup {Packet("update", term[i], i, m.from,
                                             sequence[i][m.from] + 2)}
                      ELSE msgs
    BY <1>3 DEF HandleDone
  <2>2. beats => role[i] = Leader
    BY <2>1 DEF TakeDone, Takes, RoleAt, Follower, Leader
  <2>3. LeadersUpdate
    BY <2>1, <2>2 DEF LeadersUpdate, Packet
  <2>4. AdoptTerm(i, m) /\ leaderId' = leaderId
    BY <2>1 DEF TakeDone
  <2>5. QED
    BY <2>3, <2>4, TermAtGrows DEF Learns
<1>4. CASE HandleClaim(i, m)
  <2>1. LeadersUpdate
    BY <1>4 DEF HandleClaim, LeadersUpdate, Vote
  <2>2. AdoptTerm(i, m) /\ leaderId' = leaderId
    BY <1>4 DEF HandleClaim, TakeClaim
  <2>3. QED
    BY <2>1, <2>2, TermAtGrows DEF Learns
<1>5. CASE HandleVote(i, m)
  <2>1. LeadersUpdate
    BY <1>5 DEF HandleVote, LeadersUpdate
  <2>2. AdoptTerm(i, m) /\ leaderId' \in {leaderId, [leaderId EXCEPT ![i] = i]}
    BY <1>5 DEF HandleVote, TakeVote
  <2>3. QED
    BY <2>1, <2>2, TermAtGrows DEF Learns, TypeOK
<1>6. QED
  BY <1>2, <1>3, <1>4, <1>5 DEF Receive

\* What every step does to updates and known leaders, a restart included.
LEMMA NextUpdates ==
    ASSUME TypeOK, Next
    PROVE  LeadersUpdate /\ \E i \in Server : Learns(i)
<1>1. ASSUME NEW i \in Server, Abort(i)
      PROVE  LeadersUpdate /\ Learns(i)
  BY <1>1 DEF Abort, LeadersUpdate, Learns, TypeOK
<1>2. ASSUME NEW i \in Server, Claim(i)
      PROVE  LeadersUpdate /\ Learns(i)
  <2>1. LeadersUpdate
    BY <1>2 DEF Claim, LeadersUpdate, Packets, Packet
  <2>2. /\ term' = [term EXCEPT ![i] = @ + 1]
        /\ leaderId' \in {[leaderId EXCEPT ![i] = i], [leaderId EXCEPT ![i] = NOBODY]}
    BY <1>2 DEF Claim, StartElection
  <2>3. QED
    BY <2>1, <2>2 DEF Learns, TypeOK
<1>3. ASSUME NEW i \in Server, TickFollower(i) \/ TickCandidate(i)
      PROVE  LeadersUpdate /\ Learns(i)
  BY <1>1, <1>2, <1>3 DEF TickFollower, TickCandidate
<1>4. ASSUME NEW i \in Server, TickLeader(i)
      PROVE  LeadersUpdate /\ Learns(i)
  <2>1. CASE Abort(i)
    BY <1>1, <2>1
  <2>2. CASE /\ BeatAll(i) \/ UNCHANGED <<sequence, msgs>>
             /\ \E recent \in 1..peerNum : StayLeader(i, recent)
    <3>1. LeadersUpdate
      BY <1>4, <2>2, BeatIsOfLeader DEF LeadersUpdate, TickLeader
    <3>2. /\ term' = term
          /\ leaderId' \in {leaderId, [leaderId EXCEPT ![i] = NOBODY]}
      BY <2>2 DEF StayLeader
    <3>3. QED
      BY <3>1, <3>2 DEF Learns, TypeOK
  <2>3. QED
    BY <1>4, <2>1, <2>2 DEF TickLeader
<1>5. ASSUME NEW i \in Server, Emit(i)
      PROVE  LeadersUpdate /\ Learns(i)
  <2>1. CASE Abort(i)
    BY <1>1, <2>1
  <2>2. CASE BeatAll(i) /\ UNCHANGED <<term, leaderId>>
    BY <1>5, <2>2, BeatIsOfLeader DEF Emit, Learns, TypeOK
  <2>3. QED
    BY <1>5, <2>1, <2>2 DEF Emit
<1>6. ASSUME NEW i \in Server, Restart(i)
      PROVE  LeadersUpdate /\ Learns(i)
  BY <1>6 DEF Restart, LeadersUpdate, Learns, TypeOK
<1>7. QED
  BY <1>3, <1>4, <1>5, <1>6, ReceiveUpdates DEF Next

\* A node takes another one for its leader only by an update of the term that
\* the node is then in, so never by one that an election overtook (handleUpdate
\* raft.cc:661-671), restarts included.
THEOREM LeadersAreHeard == Spec => KnownLeaderSentUpdate
<1> DEFINE Heard ==
       \A i \in Server :
          leaderId'[i] \notin {NOBODY, i, leaderId[i]} =>
              \E m \in msgs : /\ m.type = "update" /\ m.to = i
                              /\ m.from = leaderId'[i]
                              /\ m.curterm = term'[i]
<1>1. TypeOK /\ [Next]_vars => [Heard]_vars
  <2> SUFFICES ASSUME TypeOK, Next, NEW j \in Server,
                      leaderId'[j] \notin {NOBODY, j, leaderId[j]}
               PROVE  \E m \in msgs : /\ m.type = "update" /\ m.to = j
                                      /\ m.from = leaderId'[j]
                                      /\ m.curterm = term'[j]
    OBVIOUS
  <2>1. PICK i \in Server : Learns(i)
    BY NextUpdates
  <2>2. QED
    BY <2>1 DEF Learns
<1>2. Spec => []TypeOK
  BY TypeCorrect
<1>3. QED
  BY <1>1, <1>2, PTL DEF Spec, KnownLeaderSentUpdate

\* A majority granted the sender of an update the term of the update (beat
\* raft.cc:196): as long as no process restarts, and for any number of peers.
THEOREM WinnersUpdate ==
    ASSUME MaxRestarts = 0
    PROVE  Spec => []UpdatesComeFromWinners
<1>1. Init => UpdatesComeFromWinners
  BY DEF Init, UpdatesComeFromWinners
<1>2. ElectionInv /\ UpdatesComeFromWinners /\ [Next]_vars => UpdatesComeFromWinners'
  <2>1. CASE UNCHANGED vars
    BY <2>1 DEF vars, UpdatesComeFromWinners, GrantedBy, GrantsTo
  <2>2. ASSUME ElectionInv, UpdatesComeFromWinners, Next, NEW m \in msgs', m.type = "update"
        PROVE  \E Q \in SUBSET Peers(m.from) :
                  /\ 2 * (1 + Cardinality(Q)) > Cardinality(Server)
                  /\ \A j \in Q : GrantedBy(j, m.from, m.curterm)'
    <3>1. LeadersUpdate
      BY <2>2, NextUpdates DEF ElectionInv
    <3>2. \A j, i, t : GrantedBy(j, i, t) => GrantedBy(j, i, t)'
      BY <3>1 DEF LeadersUpdate, GrantedBy, GrantsTo
    <3>3. CASE m \in msgs
      BY <2>2, <3>2, <3>3 DEF UpdatesComeFromWinners
    <3>4. CASE m \notin msgs
      <4>1. m.from \in Server /\ role[m.from] = Leader /\ m.curterm = term[m.from]
        BY <2>2, <3>1, <3>4 DEF LeadersUpdate
      <4> DEFINE i == m.from
      <4>2. /\ votes[i] = 1 + Cardinality(voters[i]) /\ Majority(votes[i])
            /\ \A j \in voters[i] : j # i /\ GrantedBy(j, i, term[i])
        BY <2>2, <4>1 DEF ElectionInv, VotesAreGrants, LeadersCountedMajority, Leader, Follower
      <4>3. voters[i] \in SUBSET Peers(i)
        BY <2>2, <4>1, <4>2 DEF ElectionInv, TypeOK, Peers
      <4>4. Cardinality(voters[i]) \in Nat /\ Cardinality(Server) \in Nat
        BY <2>2, <4>1, ServerAssumption, FS_Subset, FS_CardinalityType DEF ElectionInv, TypeOK
      <4>5. 2 * (1 + Cardinality(voters[i])) > Cardinality(Server)
        BY <4>2, <4>4 DEF Majority, peerNum
      <4>6. QED
        BY <3>2, <4>1, <4>2, <4>3, <4>5
    <3>5. QED
      BY <3>3, <3>4
  <2>3. QED
    BY <2>1, <2>2 DEF UpdatesComeFromWinners, Peers
<1>3. Spec => []ElectionInv
  BY ElectionInvariant
<1>4. QED
  BY <1>1, <1>2, <1>3, PTL DEF Spec
=============================================================================
