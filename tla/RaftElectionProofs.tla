------------------------- MODULE RaftElectionProofs -------------------------
(***************************************************************************)
(* Proofs about leader election, for any number of peers and any bounds.   *)
(***************************************************************************)
EXTENDS RaftElection, FiniteSetTheorems, TLAPS

\* Every number a peer count or a packet number is compared with is a natural.
LEMMA PeerNumIsNat == peerNum \in Nat
BY ServerAssumption, FS_CardinalityType DEF peerNum

\* The packets a step sends are messages.
LEMMA PacketIsMessage ==
    ASSUME NEW i \in Server, NEW j \in Server, NEW t \in Nat, NEW s \in Nat
    PROVE  /\ Packet("claim", t, i, j, s) \in Message
           /\ Packet("update", t, i, j, s) \in Message
           /\ Packet("done", t, i, j, s) \in Message
           /\ \A g \in BOOLEAN : Vote(t, i, j, s, g) \in Message
BY DEF Packet, Vote, Message, Claims, Updates, Dones, Votes

\* What a message of each type carries.
LEMMA MessageFields ==
    ASSUME NEW m \in Message
    PROVE  /\ m.curterm \in Nat /\ m.sequence \in Nat
           /\ m.from \in Server /\ m.to \in Server
           /\ m.type \in {"claim", "vote", "update", "done"}
           /\ m.type = "vote" => m \in Votes /\ m.granted \in BOOLEAN
BY DEF Message, Claims, Updates, Dones, Votes

\* Sending to all peers keeps the packet numbers naturals and sends messages.
LEMMA PacketsType ==
    ASSUME TypeOK, NEW i \in Server, NEW S \in SUBSET Server, NEW t \in Nat,
           NEW type \in {"claim", "update"}
    PROVE  /\ Number(i, S) => sequence' \in [Server -> [Server -> Nat]]
           /\ Packets(type, t, i, S) \subseteq Message
<1>1. Number(i, S) => sequence' \in [Server -> [Server -> Nat]]
  BY DEF TypeOK, Number
<1>2. \A j \in S : Packet(type, t, i, j, sequence[i][j] + 1) \in Message
  BY PacketIsMessage DEF TypeOK
<1>3. QED
  BY <1>1, <1>2 DEF Packets

LEMMA InitTypeOK == Init => TypeOK
BY DEF Init, TypeOK, Follower, Candidate, Leader

\* A claim keeps the types.
LEMMA ClaimTypeOK ==
    ASSUME TypeOK, NEW i \in Server, Claim(i)
    PROVE  TypeOK'
<1>1. /\ term' \in [Server -> Nat]
      /\ votes' \in [Server -> Nat]
      /\ voters' \in [Server -> SUBSET Server]
      /\ term[i] + 1 \in Nat
  BY DEF TypeOK, Claim, StartElection, OwnVote
<1>2. /\ role' \in [Server -> {Follower, Candidate, Leader}]
      /\ leaderId' \in [Server -> Server \cup {NOBODY}]
  <2>1. CASE Majority(1)
    <3>1. /\ role' = [role EXCEPT ![i] = Leader]
          /\ leaderId' = [leaderId EXCEPT ![i] = i]
      BY <2>1, Zenon DEF Claim, StartElection, OwnVote
    <3>2. QED
      BY <3>1 DEF TypeOK
  <2>2. CASE ~Majority(1)
    BY <2>2 DEF TypeOK, Claim, StartElection, OwnVote
  <2>3. QED
    BY <2>1, <2>2
<1>3. /\ sequence' \in [Server -> [Server -> Nat]]
      /\ msgs' \subseteq Message
  <2>1. Peers(i) \in SUBSET Server
    BY DEF Peers
  <2>2. /\ Number(i, Peers(i)) => sequence' \in [Server -> [Server -> Nat]]
        /\ Packets("claim", term[i] + 1, i, Peers(i)) \subseteq Message
    BY <1>1, <2>1, PacketsType
  <2>3. QED
    BY <2>2 DEF TypeOK, Claim, StartElection, OwnVote
<1>4. QED
  BY <1>1, <1>2, <1>3 DEF TypeOK, Claim, StartElection, OwnVote

\* Every step keeps the types.
LEMMA NextTypeOK == TypeOK /\ [Next]_vars => TypeOK'
<1> SUFFICES ASSUME TypeOK, [Next]_vars
             PROVE  TypeOK'
  OBVIOUS
<1>1. ASSUME NEW i \in Server, Abort(i)
      PROVE  TypeOK'
  BY <1>1 DEF TypeOK, Abort
<1>2. ASSUME NEW i \in Server, TickFollower(i) \/ TickCandidate(i)
      PROVE  TypeOK'
  BY <1>1, <1>2, ClaimTypeOK DEF TickFollower, TickCandidate
<1>3. ASSUME NEW i \in Server, BeatAll(i)
      PROVE  /\ sequence' \in [Server -> [Server -> Nat]]
             /\ msgs' \subseteq Message
  BY <1>3, PacketsType DEF TypeOK, Peers, BeatAll
<1>4. ASSUME NEW i \in Server, TickLeader(i)
      PROVE  TypeOK'
  <2>1. PICK expired \in BOOLEAN, recent \in 1..peerNum : TickLeader(i)!3!(expired, recent)
    BY <1>4, Zenon DEF TickLeader
  <2>2. CASE expired /\ Peers(i) # {} /\ leaderId[i] # i
    BY <1>1, <2>1, <2>2
  <2>3. CASE ~(expired /\ Peers(i) # {} /\ leaderId[i] # i)
    <3>1. /\ sequence' \in [Server -> [Server -> Nat]]
          /\ msgs' \subseteq Message
      BY <1>3, <2>1, <2>3 DEF TypeOK
    <3>2. /\ role' \in [Server -> {Follower, Candidate, Leader}]
          /\ leaderId' \in [Server -> Server \cup {NOBODY}]
      BY <2>1, <2>3 DEF TypeOK, StayLeader
    <3>3. QED
      BY <2>1, <2>3, <3>1, <3>2 DEF TypeOK, StayLeader
  <2>4. QED
    BY <2>2, <2>3
<1>5. ASSUME NEW i \in Server, Emit(i)
      PROVE  TypeOK'
  BY <1>1, <1>3, <1>5 DEF TypeOK, Emit
<1>6. ASSUME NEW i \in Server, NEW m \in msgs, Receive(i, m)
      PROVE  TypeOK'
  <2>1. m \in Message
    BY DEF TypeOK
  <2>2. /\ TermAt(i, m) \in Nat
        /\ RoleAt(i, m) \in {Follower, Candidate, Leader}
        /\ VoteAt(i, m) \in Server \cup {NOBODY}
    BY <2>1, MessageFields DEF TypeOK, TermAt, RoleAt, VoteAt
  <2>3. CASE HandleUpdate(i, m)
    <3>1. Packet("done", TermAt(i, m), i, m.from, m.sequence) \in Message
      BY <2>1, <2>2, MessageFields, PacketIsMessage
    <3>2. QED
      BY <2>1, <2>2, <2>3, <3>1, MessageFields DEF TypeOK, HandleUpdate, TakeUpdate, AdoptTerm
  <2>4. CASE HandleDone(i, m)
    <3>1. Packet("update", term[i], i, m.from, sequence[i][m.from] + 2) \in Message
      <4>1. term[i] \in Nat /\ sequence[i][m.from] + 2 \in Nat /\ m.from \in Server
        BY <2>1, MessageFields DEF TypeOK
      <4>2. QED
        BY <4>1, PacketIsMessage
    <3>2. /\ sequence' \in [Server -> [Server -> Nat]]
          /\ msgs' \subseteq Message
          /\ aborted' \subseteq Server
      BY <2>1, <2>4, <3>1, MessageFields DEF TypeOK, HandleDone, TakeDone
    <3>3. QED
      BY <2>1, <2>2, <2>4, <3>2 DEF TypeOK, HandleDone, TakeDone, AdoptTerm
  <2>5. CASE HandleClaim(i, m)
    <3>1. \A g \in BOOLEAN : Vote(TermAt(i, m), i, m.from, m.sequence, g) \in Message
      BY <2>1, <2>2, MessageFields, PacketIsMessage
    <3>2. PICK granted \in BOOLEAN :
             /\ TakeClaim(i, m, granted)
             /\ msgs' = msgs \cup {Vote(TermAt(i, m), i, m.from, m.sequence, granted)}
      BY <2>5 DEF HandleClaim, Grants
    <3>3. /\ voteFor' \in [Server -> Server \cup {NOBODY}]
          /\ msgs' \subseteq Message
      BY <2>1, <2>2, <3>1, <3>2, MessageFields DEF TypeOK, TakeClaim
    <3>4. /\ role' \in [Server -> {Follower, Candidate, Leader}]
          /\ votes' \in [Server -> Nat]
      BY <3>2 DEF TypeOK, TakeClaim
    <3>5. QED
      BY <2>2, <3>2, <3>3, <3>4 DEF TypeOK, TakeClaim, AdoptTerm
  <2>6. CASE HandleVote(i, m)
    <3>1. /\ term' \in [Server -> Nat]
          /\ voteFor' \in [Server -> Server \cup {NOBODY}]
      BY <2>2, <2>6 DEF TypeOK, HandleVote, TakeVote, Answers, AdoptTerm
    <3>2. sequence' \in [Server -> [Server -> Nat]]
      <4>1. CASE m.sequence = sequence[i][m.from]
        <5>1. sequence' = [sequence EXCEPT ![i][m.from] = @ + 1]
          BY <2>6, <4>1, Zenon DEF HandleVote, TakeVote, Answers
        <5>2. QED
          BY <2>1, <5>1, MessageFields DEF TypeOK
      <4>2. CASE m.sequence # sequence[i][m.from]
        BY <2>1, <2>6, <4>2, MessageFields DEF TypeOK, HandleVote, TakeVote, Answers
      <4>3. QED
        BY <4>1, <4>2
    <3>3. /\ role' \in [Server -> {Follower, Candidate, Leader}]
          /\ votes' \in [Server -> Nat]
          /\ leaderId' \in [Server -> Server \cup {NOBODY}]
          /\ voters' \in [Server -> SUBSET Server]
      <4>1. CASE /\ m.sequence = sequence[i][m.from]
                 /\ m.curterm >= term[i] /\ RoleAt(i, m) = Candidate
        <5> DEFINE count == IF m.granted THEN votes[i] + 1 ELSE votes[i]
        <5>1. count \in Nat /\ m.from \in Server
          BY <2>1, MessageFields DEF TypeOK
        <5>2. /\ votes' = [votes EXCEPT ![i] = count]
              /\ voters' = [voters EXCEPT ![i] = IF m.granted THEN @ \cup {m.from} ELSE @]
              /\ \/ /\ role' = [role EXCEPT ![i] = Leader]
                    /\ leaderId' = [leaderId EXCEPT ![i] = i]
                 \/ UNCHANGED <<role, leaderId>>
          BY <2>6, <4>1 DEF HandleVote, TakeVote, Answers
        <5> HIDE DEF count
        <5>3. votes' \in [Server -> Nat]
          BY <5>1, <5>2 DEF TypeOK
        <5>4. voters' \in [Server -> SUBSET Server]
          BY <5>1, <5>2 DEF TypeOK
        <5>5. /\ role' \in [Server -> {Follower, Candidate, Leader}]
              /\ leaderId' \in [Server -> Server \cup {NOBODY}]
          <6>1. CASE UNCHANGED <<role, leaderId>>
            BY <6>1 DEF TypeOK
          <6>2. CASE role' = [role EXCEPT ![i] = Leader] /\ leaderId' = [leaderId EXCEPT ![i] = i]
            <7>1. role' \in [Server -> {Follower, Candidate, Leader}]
              BY <6>2 DEF TypeOK
            <7>2. leaderId' \in [Server -> Server \cup {NOBODY}]
              BY <6>2 DEF TypeOK
            <7>3. QED
              BY <7>1, <7>2
          <6>3. QED
            BY <5>2, <6>1, <6>2
        <5>6. QED
          BY <5>3, <5>4, <5>5
      <4>2. CASE ~(/\ m.sequence = sequence[i][m.from]
                   /\ m.curterm >= term[i] /\ RoleAt(i, m) = Candidate)
        <5>1. /\ role'  = [role EXCEPT ![i] = RoleAt(i, m)]
              /\ votes' = [votes EXCEPT ![i] = IF Newer(i, m) THEN 0 ELSE @]
              /\ UNCHANGED <<leaderId, voters>>
          BY <2>6, <4>2 DEF HandleVote, TakeVote, Answers
        <5>2. QED
          BY <2>2, <5>1 DEF TypeOK
      <4>3. QED
        BY <4>1, <4>2
    <3>4. QED
      BY <2>6, <3>1, <3>2, <3>3 DEF TypeOK, HandleVote, TakeVote, Answers
  <2>7. QED
    BY <1>6, <2>3, <2>4, <2>5, <2>6 DEF Receive
<1>7. ASSUME NEW i \in Server, Restart(i)
      PROVE  TypeOK'
  BY <1>7 DEF TypeOK, Restart
<1>8. CASE UNCHANGED vars
  BY <1>8 DEF TypeOK, vars
<1>9. QED
  BY <1>2, <1>4, <1>5, <1>6, <1>7, <1>8 DEF Next

\* Every member of every node, and every datagram, always has its type.
THEOREM TypeCorrect == Spec => []TypeOK
<1>1. Init => TypeOK
  BY InitTypeOK
<1>2. TypeOK /\ [Next]_vars => TypeOK'
  BY NextTypeOK
<1>3. QED
  BY <1>1, <1>2, PTL DEF Spec
-----------------------------------------------------------------------------
(* Most steps only let nodes fall back: no vote is given or counted.       *)

\* What such a step does to the nodes,
FallsBack ==
    \A j \in Server :
        /\ term'[j] >= term[j]
        /\ term'[j] = term[j] => voteFor'[j] = voteFor[j]
        /\ role'[j] \in {role[j], Follower}
        /\ role'[j] # Follower => /\ term'[j] = term[j]
                                  /\ votes'[j] = votes[j]
                                  /\ voters'[j] = voters[j]

\* and what it does to the links.
OnlyUpdates ==
    /\ \A i, j \in Server : sequence'[i][j] >= sequence[i][j]
    /\ msgs \subseteq msgs'
    /\ \A m \in msgs' \ msgs :
          /\ m.type \in {"update", "done"}
          /\ m.from # m.to
          /\ m.type = "update" => m.sequence <= sequence'[m.from][m.to]
          /\ m.type = "done"   => m.sequence <= sequence'[m.to][m.from]

\* A quiet step keeps the invariant.
LEMMA QuietStep ==
    ASSUME ElectionInv, TypeOK', FallsBack, OnlyUpdates
    PROVE  ElectionInv'
<1> USE DEF ElectionInv
<1>1. \A m \in msgs' : /\ m \in Message
                       /\ m.from \in Server /\ m.to \in Server
                       /\ m.sequence \in Nat /\ m.curterm \in Nat
                       /\ m.type \in {"claim", "vote", "update", "done"}
                       /\ m.type \in {"claim", "vote"} => m \in msgs
  BY MessageFields DEF TypeOK, OnlyUpdates
<1>2. NoSelfPackets'
  BY DEF NoSelfPackets, OnlyUpdates
<1>3. PacketNumbersBound'
  <2> SUFFICES ASSUME NEW m \in msgs'
               PROVE  /\ m.type \in {"claim", "update"} => m.sequence <= sequence'[m.from][m.to]
                      /\ m.type \in {"vote", "done"}    => m.sequence <= sequence'[m.to][m.from]
    BY DEF PacketNumbersBound
  <2>1. CASE m \in msgs
    <3>1. /\ sequence[m.from][m.to] \in Nat /\ sequence'[m.from][m.to] \in Nat
          /\ sequence[m.to][m.from] \in Nat /\ sequence'[m.to][m.from] \in Nat
          /\ sequence'[m.from][m.to] >= sequence[m.from][m.to]
          /\ sequence'[m.to][m.from] >= sequence[m.to][m.from]
          /\ m.sequence \in Nat
      BY <1>1 DEF TypeOK, OnlyUpdates
    <3>2. QED
      BY <2>1, <3>1 DEF PacketNumbersBound
  <2>2. CASE m \notin msgs
    BY <2>2 DEF OnlyUpdates
  <2>3. QED
    BY <2>1, <2>2
<1>4. GrantsAreRecorded'
  <2> SUFFICES ASSUME NEW m \in msgs', GrantedVote(m)
               PROVE  /\ m.curterm <= term'[m.from]
                      /\ m.curterm = term'[m.from] => /\ voteFor'[m.from] = m.to
                                                      /\ role'[m.from] = Follower
    BY DEF GrantsAreRecorded, GrantedVote
  <2>1. /\ m \in msgs /\ m.from \in Server
        /\ term[m.from] \in Nat /\ term'[m.from] \in Nat /\ m.curterm \in Nat
    BY <1>1 DEF GrantedVote, TypeOK
  <2>2. /\ m.curterm <= term[m.from]
        /\ m.curterm = term[m.from] => /\ voteFor[m.from] = m.to
                                       /\ role[m.from] = Follower
    BY <2>1 DEF GrantsAreRecorded
  <2>3. QED
    BY <2>1, <2>2 DEF FallsBack
<1>5. OneGrantPerTerm'
  BY <1>1 DEF OneGrantPerTerm
<1>6. VotesAreGrants'
  <2> SUFFICES ASSUME NEW i \in Server, role'[i] # Follower
               PROVE  /\ votes'[i] = 1 + Cardinality(voters'[i])
                      /\ \A j \in voters'[i] : j # i /\ GrantedBy(j, i, term[i])'
    BY DEF VotesAreGrants
  <2>1. /\ role[i] # Follower
        /\ term'[i] = term[i] /\ votes'[i] = votes[i] /\ voters'[i] = voters[i]
    BY DEF FallsBack
  <2>2. /\ votes[i] = 1 + Cardinality(voters[i])
        /\ \A j \in voters[i] : j # i /\ GrantedBy(j, i, term[i])
    BY <2>1 DEF VotesAreGrants
  <2>3. \A j \in voters[i] : GrantedBy(j, i, term[i])'
    BY <2>1, <2>2 DEF GrantedBy, GrantsTo, OnlyUpdates
  <2>4. QED
    BY <2>1, <2>2, <2>3
<1>7. LeadersCountedMajority'
  BY DEF LeadersCountedMajority, FallsBack, Leader, Follower
<1>8. CountedLinksAreSpent'
  <2> SUFFICES ASSUME NEW i \in Server, role'[i] = Candidate,
                      NEW j \in voters'[i], NEW m \in msgs',
                      \/ m.type = "claim" /\ m.from = i /\ m.to = j
                      \/ m.type = "vote" /\ m.from = j /\ m.to = i
               PROVE  m.sequence < sequence'[i][j]
    BY DEF CountedLinksAreSpent
  <2>1. role[i] = Candidate /\ voters'[i] = voters[i] /\ j \in Server /\ m \in msgs
    BY <1>1 DEF FallsBack, Candidate, Follower, TypeOK
  <2>2. m.sequence < sequence[i][j]
    BY <2>1 DEF CountedLinksAreSpent
  <2>3. /\ sequence'[i][j] >= sequence[i][j] /\ m.sequence \in Nat
        /\ sequence[i][j] \in Nat /\ sequence'[i][j] \in Nat
    BY <1>1, <2>1 DEF OnlyUpdates, TypeOK
  <2>4. QED
    BY <2>2, <2>3
<1>9. QED
  BY <1>2, <1>3, <1>4, <1>5, <1>6, <1>7, <1>8
\* A beat to some peers is a quiet step on the links.
LEMMA BeatIsQuiet ==
    ASSUME ElectionInv, NEW i \in Server, BeatAll(i)
    PROVE  OnlyUpdates
<1>1. \A j, k \in Server : sequence'[j][k] >= sequence[j][k]
  BY DEF BeatAll, Number, ElectionInv, TypeOK
<1>2. ASSUME NEW m \in msgs' \ msgs
      PROVE  /\ m.type = "update" /\ m.from # m.to
             /\ m.sequence <= sequence'[m.from][m.to]
  <2>1. PICK j \in Peers(i) : m = Packet("update", term[i], i, j, sequence[i][j] + 1)
    BY <1>2 DEF BeatAll, Packets
  <2>2. /\ m.type = "update" /\ m.from = i /\ m.to = j /\ m.sequence = sequence[i][j] + 1
        /\ j \in Server /\ j # i
    BY <2>1 DEF Packet, Peers
  <2>3. sequence'[i][j] = sequence[i][j] + 1 /\ sequence[i][j] \in Nat
    BY <2>1, <2>2 DEF BeatAll, Number, ElectionInv, TypeOK
  <2>4. QED
    BY <2>2, <2>3
<1>3. QED
  BY <1>1, <1>2 DEF OnlyUpdates, BeatAll

LEMMA TickLeaderStep ==
    ASSUME ElectionInv, TypeOK', NEW i \in Server, TickLeader(i)
    PROVE  FallsBack /\ OnlyUpdates
<1> USE DEF ElectionInv
<1>1. PICK expired \in BOOLEAN, recent \in 1..peerNum : TickLeader(i)!3!(expired, recent)
  BY Zenon DEF TickLeader
<1>2. CASE expired /\ Peers(i) # {} /\ leaderId[i] # i
  BY <1>1, <1>2 DEF Abort, FallsBack, OnlyUpdates, TypeOK
<1>3. CASE ~(expired /\ Peers(i) # {} /\ leaderId[i] # i)
  <2>1. /\ role' = [role EXCEPT ![i] = Follower] \/ UNCHANGED role
        /\ UNCHANGED <<term, voteFor, votes, voters>>
    BY <1>1, <1>3 DEF StayLeader
  <2>2. FallsBack
    BY <2>1 DEF FallsBack, TypeOK
  <2>3. OnlyUpdates
    <3>1. CASE expired
      BY <1>1, <1>3, <3>1, BeatIsQuiet
    <3>2. CASE ~expired
      BY <1>1, <1>3, <3>2 DEF OnlyUpdates, TypeOK
    <3>3. QED
      BY <3>1, <3>2
  <2>4. QED
    BY <2>2, <2>3
<1>4. QED
  BY <1>2, <1>3

LEMMA EmitStep ==
    ASSUME ElectionInv, NEW i \in Server, Emit(i)
    PROVE  FallsBack /\ OnlyUpdates
<1> USE DEF ElectionInv
<1>1. CASE leaderId[i] # i
  BY <1>1 DEF Emit, Abort, FallsBack, OnlyUpdates, TypeOK
<1>2. CASE leaderId[i] = i
  <2>1. OnlyUpdates
    BY <1>2, BeatIsQuiet DEF Emit
  <2>2. FallsBack
    BY <1>2 DEF Emit, FallsBack, TypeOK
  <2>3. QED
    BY <2>1, <2>2
<1>3. QED
  BY <1>1, <1>2

\* Adopting the term of a message is falling back.
LEMMA AdoptTermFallsBack ==
    ASSUME TypeOK, NEW i \in Server, NEW m \in msgs,
           AdoptTerm(i, m),
           voteFor' = [voteFor EXCEPT ![i] = VoteAt(i, m)],
           role'    = [role EXCEPT ![i] = RoleAt(i, m)],
           votes'   = [votes EXCEPT ![i] = IF Newer(i, m) THEN 0 ELSE @],
           UNCHANGED voters
    PROVE  FallsBack
<1>1. m.curterm \in Nat
  BY MessageFields DEF TypeOK
<1>2. CASE Newer(i, m)
  BY <1>1, <1>2 DEF TypeOK, AdoptTerm, TermAt, VoteAt, RoleAt, Newer, FallsBack
<1>3. CASE ~Newer(i, m)
  BY <1>1, <1>3 DEF TypeOK, AdoptTerm, TermAt, VoteAt, RoleAt, Newer, FallsBack
<1>4. QED
  BY <1>2, <1>3

LEMMA HandleUpdateStep ==
    ASSUME ElectionInv, NEW i \in Server, NEW m \in msgs, m.to = i, HandleUpdate(i, m)
    PROVE  FallsBack /\ OnlyUpdates
<1> USE DEF ElectionInv
<1>1. FallsBack
  BY AdoptTermFallsBack DEF HandleUpdate, TakeUpdate
<1>2. OnlyUpdates
  <2> DEFINE d == Packet("done", TermAt(i, m), i, m.from, m.sequence)
  <2>1. /\ d.type = "done" /\ d.from = i /\ d.to = m.from /\ d.sequence = m.sequence
    BY DEF Packet
  <2>2. i # m.from /\ m.sequence <= sequence[m.from][i]
    BY DEF HandleUpdate, NoSelfPackets, PacketNumbersBound
  <2>3. msgs' = msgs \cup {d} /\ UNCHANGED sequence
    BY DEF HandleUpdate, TakeUpdate
  <2> HIDE DEF d
  <2>4. QED
    BY <2>1, <2>2, <2>3 DEF OnlyUpdates, TypeOK
<1>3. QED
  BY <1>1, <1>2

LEMMA HandleDoneStep ==
    ASSUME ElectionInv, NEW i \in Server, NEW m \in msgs, m.to = i, HandleDone(i, m)
    PROVE  FallsBack /\ OnlyUpdates
<1> USE DEF ElectionInv
<1>1. FallsBack
  BY AdoptTermFallsBack DEF HandleDone, TakeDone
<1>2. OnlyUpdates
  <2>1. m.from \in Server /\ m.from # i
    BY MessageFields DEF TypeOK, NoSelfPackets
  <2> DEFINE s == sequence[i][m.from]
             u == Packet("update", term[i], i, m.from, s + 2)
  <2>2. s \in Nat /\ s + 1 \in Nat /\ s + 2 \in Nat
    BY <2>1 DEF TypeOK
  <2>3. /\ u.type = "update" /\ u.from = i /\ u.to = m.from /\ u.sequence = s + 2
    BY DEF Packet
  <2>4. PICK beats \in BOOLEAN :
           /\ TakeDone(i, m, beats)
           /\ msgs' = IF beats /\ leaderId[i] = i THEN msgs \cup {u} ELSE msgs
    BY DEF HandleDone
  <2> DEFINE k == IF ~ Takes(i, m) THEN s
                  ELSE IF beats /\ leaderId[i] = i THEN s + 2 ELSE s + 1
  <2>5. /\ k \in {s, s + 1, s + 2}
        /\ sequence' = [sequence EXCEPT ![i][m.from] = k]
        /\ msgs' = msgs \/ (k = s + 2 /\ msgs' = msgs \cup {u})
    <3>1. k \in {s, s + 1, s + 2}
      OBVIOUS
    <3>2. sequence' = [sequence EXCEPT ![i][m.from] = k]
      BY <2>4, Zenon DEF TakeDone
    <3>3. beats => Takes(i, m)
      BY <2>4, Zenon DEF TakeDone
    <3>4. CASE beats /\ leaderId[i] = i
      <4>1. k = s + 2
        BY <3>3, <3>4
      <4>2. msgs' = msgs \cup {u}
        BY <2>4, <3>4, Zenon
      <4>3. QED
        BY <3>1, <3>2, <4>1, <4>2
    <3>5. CASE ~(beats /\ leaderId[i] = i)
      <4>1. msgs' = msgs
        BY <2>4, <3>5, Zenon
      <4>2. QED
        BY <3>1, <3>2, <4>1
    <3>6. QED
      BY <3>4, <3>5
  <2>6. k \in Nat /\ k >= s
    BY <2>2
  <2> HIDE DEF u, k
  <2>7. \A j, n \in Server : sequence'[j][n] >= sequence[j][n]
    BY <2>1, <2>2, <2>5, <2>6 DEF TypeOK
  <2>8. u \in msgs' \ msgs => u.sequence <= sequence'[u.from][u.to]
    BY <2>1, <2>2, <2>3, <2>5 DEF TypeOK
  <2>9. QED
    BY <2>1, <2>3, <2>5, <2>7, <2>8 DEF OnlyUpdates
<1>3. QED
  BY <1>1, <1>2
-----------------------------------------------------------------------------
(* The three steps that start an election, give a vote and count one.      *)

\* A claim begins a term above every vote its node gave, with no vote counted
\* and with packet numbers nobody used before.
LEMMA ClaimStep ==
    ASSUME ElectionInv, TypeOK', NEW i \in Server, Claim(i)
    PROVE  ElectionInv'
<1> USE DEF ElectionInv
<1>1. /\ term' = [term EXCEPT ![i] = @ + 1]
      /\ votes' = [votes EXCEPT ![i] = 1]
      /\ voters' = [voters EXCEPT ![i] = {}]
      /\ UNCHANGED voteFor
  BY DEF Claim, StartElection, OwnVote
<1>2. /\ \A j \in Server \ {i} : role'[j] = role[j]
      /\ role'[i] \in {Leader, Candidate}
      /\ role'[i] = Leader => Majority(1)
  BY DEF Claim, StartElection, OwnVote, TypeOK, Leader, Candidate
<1>3. /\ \A j, k \in Server : sequence'[j][k] >= sequence[j][k]
      /\ msgs \subseteq msgs'
      /\ \A m \in msgs' \ msgs :
            /\ m.type = "claim" /\ m.from = i /\ m.to \in Server /\ m.to # i
            /\ m.sequence <= sequence'[i][m.to]
  <2>1. CASE Majority(1)
    BY <2>1 DEF Claim, StartElection, OwnVote, TypeOK
  <2>2. CASE ~Majority(1)
    <3>1. /\ Number(i, Peers(i))
          /\ msgs' = msgs \cup Packets("claim", term[i] + 1, i, Peers(i))
      BY <2>2 DEF Claim, StartElection, OwnVote
    <3>2. \A j, k \in Server : sequence'[j][k] >= sequence[j][k]
      BY <3>1 DEF Number, TypeOK
    <3>3. ASSUME NEW m \in msgs' \ msgs
          PROVE  /\ m.type = "claim" /\ m.from = i /\ m.to \in Server /\ m.to # i
                 /\ m.sequence <= sequence'[i][m.to]
      <4>1. PICK j \in Peers(i) : m = Packet("claim", term[i] + 1, i, j, sequence[i][j] + 1)
        BY <3>1, <3>3 DEF Packets
      <4>2. /\ m.type = "claim" /\ m.from = i /\ m.to = j
            /\ m.sequence = sequence[i][j] + 1 /\ j \in Server /\ j # i
        BY <4>1 DEF Packet, Peers
      <4>3. sequence'[i][j] = sequence[i][j] + 1 /\ sequence[i][j] \in Nat
        BY <3>1, <4>1, <4>2 DEF Number, TypeOK
      <4>4. QED
        BY <4>2, <4>3
    <3>4. QED
      BY <3>1, <3>2, <3>3
  <2>3. QED
    BY <2>1, <2>2
<1>4. \A m \in msgs' : /\ m.from \in Server /\ m.to \in Server
                       /\ m.sequence \in Nat /\ m.curterm \in Nat
                       /\ m.type \in {"claim", "vote", "update", "done"}
                       /\ m.type = "vote" => m \in msgs
  BY <1>3, MessageFields DEF TypeOK
<1>5. NoSelfPackets'
  BY <1>3 DEF NoSelfPackets
<1>6. PacketNumbersBound'
  <2> SUFFICES ASSUME NEW m \in msgs'
               PROVE  /\ m.type \in {"claim", "update"} => m.sequence <= sequence'[m.from][m.to]
                      /\ m.type \in {"vote", "done"}    => m.sequence <= sequence'[m.to][m.from]
    BY DEF PacketNumbersBound
  <2>1. CASE m \in msgs
    <3>1. /\ sequence[m.from][m.to] \in Nat /\ sequence'[m.from][m.to] \in Nat
          /\ sequence[m.to][m.from] \in Nat /\ sequence'[m.to][m.from] \in Nat
          /\ sequence'[m.from][m.to] >= sequence[m.from][m.to]
          /\ sequence'[m.to][m.from] >= sequence[m.to][m.from]
          /\ m.sequence \in Nat
      BY <1>3, <1>4 DEF TypeOK
    <3>2. QED
      BY <2>1, <3>1 DEF PacketNumbersBound
  <2>2. CASE m \notin msgs
    BY <1>3, <2>2
  <2>3. QED
    BY <2>1, <2>2
<1>7. GrantsAreRecorded'
  <2> SUFFICES ASSUME NEW m \in msgs', GrantedVote(m)
               PROVE  /\ m.curterm <= term'[m.from]
                      /\ m.curterm = term'[m.from] => /\ voteFor'[m.from] = m.to
                                                      /\ role'[m.from] = Follower
    BY DEF GrantsAreRecorded, GrantedVote
  <2>1. /\ m \in msgs /\ m.from \in Server
        /\ term[m.from] \in Nat /\ m.curterm \in Nat
        /\ m.curterm <= term[m.from]
        /\ m.curterm = term[m.from] => /\ voteFor[m.from] = m.to
                                       /\ role[m.from] = Follower
    BY <1>4 DEF GrantedVote, TypeOK, GrantsAreRecorded
  <2>2. CASE m.from = i
    BY <1>1, <2>1, <2>2 DEF TypeOK
  <2>3. CASE m.from # i
    BY <1>1, <1>2, <2>1, <2>3 DEF TypeOK
  <2>4. QED
    BY <2>2, <2>3
<1>8. OneGrantPerTerm'
  BY <1>4 DEF OneGrantPerTerm
<1>9. VotesAreGrants'
  <2> SUFFICES ASSUME NEW j \in Server, role'[j] # Follower
               PROVE  /\ votes'[j] = 1 + Cardinality(voters'[j])
                      /\ \A k \in voters'[j] : k # j /\ GrantedBy(k, j, term[j])'
    BY DEF VotesAreGrants
  <2>1. CASE j = i
    <3>1. votes'[i] = 1 /\ voters'[i] = {}
      BY <1>1 DEF TypeOK
    <3>2. QED
      BY <2>1, <3>1, FS_EmptySet
  <2>2. CASE j # i
    <3>1. /\ role[j] # Follower
          /\ term'[j] = term[j] /\ votes'[j] = votes[j] /\ voters'[j] = voters[j]
      BY <1>1, <1>2, <2>2 DEF TypeOK
    <3>2. /\ votes[j] = 1 + Cardinality(voters[j])
          /\ \A k \in voters[j] : k # j /\ GrantedBy(k, j, term[j])
      BY <3>1 DEF VotesAreGrants
    <3>3. \A k \in voters[j] : GrantedBy(k, j, term[j])'
      BY <1>3, <3>1, <3>2 DEF GrantedBy, GrantsTo
    <3>4. QED
      BY <3>1, <3>2, <3>3
  <2>3. QED
    BY <2>1, <2>2
<1>10. LeadersCountedMajority'
  BY <1>1, <1>2 DEF LeadersCountedMajority, TypeOK
<1>11. CountedLinksAreSpent'
  <2> SUFFICES ASSUME NEW j \in Server, role'[j] = Candidate,
                      NEW k \in voters'[j], NEW m \in msgs',
                      \/ m.type = "claim" /\ m.from = j /\ m.to = k
                      \/ m.type = "vote" /\ m.from = k /\ m.to = j
               PROVE  m.sequence < sequence'[j][k]
    BY DEF CountedLinksAreSpent
  <2>1. j # i
    BY <1>1 DEF TypeOK
  <2>2. role[j] = Candidate /\ voters'[j] = voters[j] /\ k \in Server /\ m \in msgs
    BY <1>1, <1>2, <1>3, <1>4, <2>1 DEF TypeOK
  <2>3. m.sequence < sequence[j][k]
    BY <2>2 DEF CountedLinksAreSpent
  <2>4. /\ sequence'[j][k] >= sequence[j][k] /\ m.sequence \in Nat
        /\ sequence[j][k] \in Nat /\ sequence'[j][k] \in Nat
    BY <1>3, <1>4, <2>2 DEF TypeOK
  <2>5. QED
    BY <2>3, <2>4
<1>12. QED
  BY <1>5, <1>6, <1>7, <1>8, <1>9, <1>10, <1>11
\* A node gives its vote only as a follower of the claim's term, and only to
\* the candidate on record for that term.
LEMMA HandleClaimStep ==
    ASSUME ElectionInv, TypeOK', NEW i \in Server, NEW m \in msgs, m.to = i, HandleClaim(i, m)
    PROVE  ElectionInv'
<1> USE DEF ElectionInv
<1>1. /\ m.type = "claim" /\ m.curterm \in Nat /\ m.sequence \in Nat
      /\ m.from \in Server /\ m.from # i
      /\ m.sequence <= sequence[m.from][i]
  BY MessageFields DEF TypeOK, NoSelfPackets, PacketNumbersBound, HandleClaim
<1>2. PICK g \in BOOLEAN :
        /\ g => m.curterm >= term[i] /\ VoteAt(i, m) \in {NOBODY, m.from}
        /\ TakeClaim(i, m, g)
        /\ msgs' = msgs \cup {Vote(TermAt(i, m), i, m.from, m.sequence, g)}
  BY DEF HandleClaim, Grants
<1> DEFINE v == Vote(TermAt(i, m), i, m.from, m.sequence, g)
<1>3. /\ v.type = "vote" /\ v.from = i /\ v.to = m.from
      /\ v.curterm = TermAt(i, m) /\ v.sequence = m.sequence /\ v.granted = g
  BY DEF Vote
<1>4. /\ term'[i] = TermAt(i, m) /\ TermAt(i, m) \in Nat /\ TermAt(i, m) >= term[i]
      /\ \A j \in Server \ {i} : /\ term'[j] = term[j] /\ role'[j] = role[j]
                                 /\ voteFor'[j] = voteFor[j] /\ votes'[j] = votes[j]
      /\ TermAt(i, m) > term[i] => role'[i] = Follower
      /\ g => role'[i] = Follower
      /\ role'[i] # Follower => role'[i] = role[i] /\ votes'[i] = votes[i] /\ term'[i] = term[i]
      /\ UNCHANGED <<sequence, voters>>
      /\ msgs' = msgs \cup {v}
  <2>1. /\ term' = [term EXCEPT ![i] = TermAt(i, m)]
        /\ role' = [role EXCEPT ![i] = IF m.curterm >= term[i] THEN Follower ELSE @]
        /\ votes' = [votes EXCEPT ![i] = IF Newer(i, m) THEN 0 ELSE @]
        /\ UNCHANGED <<sequence, voters>>
    BY <1>2 DEF TakeClaim, AdoptTerm
  <2>2. TermAt(i, m) \in Nat /\ TermAt(i, m) >= term[i] /\ term[i] \in Nat
    BY <1>1 DEF TermAt, Newer, TypeOK
  <2>3. CASE m.curterm >= term[i]
    BY <1>1, <1>2, <2>1, <2>2, <2>3 DEF TypeOK, TakeClaim
  <2>4. CASE ~(m.curterm >= term[i])
    <3>1. ~Newer(i, m) /\ TermAt(i, m) = term[i] /\ ~g
      BY <1>1, <1>2, <2>2, <2>4 DEF TermAt, Newer
    <3>2. QED
      BY <1>2, <2>1, <2>2, <2>4, <3>1 DEF TypeOK, TakeClaim
  <2>5. QED
    BY <2>3, <2>4
<1>5. /\ voteFor'[i] \in {VoteAt(i, m), m.from}
      /\ g => voteFor'[i] = m.from
      /\ term'[i] = term[i] => VoteAt(i, m) = voteFor[i]
      /\ term'[i] = term[i] /\ voteFor[i] # NOBODY => voteFor'[i] = voteFor[i]
  BY <1>1, <1>2, <1>4 DEF TakeClaim, VoteAt, TermAt, Newer, TypeOK
<1>6. \A w \in msgs : /\ w.from \in Server /\ w.to \in Server
                      /\ w.sequence \in Nat /\ w.curterm \in Nat
  BY MessageFields DEF TypeOK
<1> HIDE DEF v
<1>7. NoSelfPackets'
  BY <1>1, <1>3, <1>4 DEF NoSelfPackets
<1>8. PacketNumbersBound'
  BY <1>1, <1>3, <1>4 DEF PacketNumbersBound
<1>9. GrantsAreRecorded'
  <2> SUFFICES ASSUME NEW w \in msgs', GrantedVote(w)
               PROVE  /\ w.curterm <= term'[w.from]
                      /\ w.curterm = term'[w.from] => /\ voteFor'[w.from] = w.to
                                                      /\ role'[w.from] = Follower
    BY DEF GrantsAreRecorded, GrantedVote
  <2>1. CASE w \in msgs
    <3>1. /\ w.from \in Server /\ w.to \in Server
          /\ w.curterm \in Nat /\ term[w.from] \in Nat
          /\ w.curterm <= term[w.from]
          /\ w.curterm = term[w.from] => /\ voteFor[w.from] = w.to
                                         /\ role[w.from] = Follower
      BY <1>6, <2>1 DEF GrantsAreRecorded, TypeOK
    <3>2. CASE w.from = i
      <4>1. term[i] \in Nat /\ term'[i] \in Nat /\ term'[i] >= term[i] /\ w.curterm <= term[i]
        BY <1>4, <3>1, <3>2
      <4>2. w.curterm <= term'[i]
        BY <3>1, <4>1
      <4>3. ASSUME w.curterm = term'[i]
            PROVE  voteFor'[i] = w.to /\ role'[i] = Follower
        <5>1. w.curterm = term[i] /\ term'[i] = term[i]
          BY <3>1, <4>1, <4>3
        <5>2. voteFor[i] = w.to /\ role[i] = Follower /\ w.to # NOBODY
          BY <3>1, <3>2, <5>1, ServerAssumption
        <5>3. voteFor'[i] = w.to
          BY <1>5, <5>1, <5>2
        <5>4. role'[i] = Follower
          BY <1>4, <5>2
        <5>5. QED
          BY <5>3, <5>4
      <4>4. QED
        BY <3>2, <4>2, <4>3
    <3>3. CASE w.from # i
      BY <1>4, <3>1, <3>3
    <3>4. QED
      BY <3>2, <3>3
  <2>2. CASE w = v
    BY <1>3, <1>4, <1>5, <2>2 DEF GrantedVote
  <2>3. QED
    BY <1>4, <2>1, <2>2
<1>10. OneGrantPerTerm'
  <2>1. ASSUME NEW w \in msgs, GrantedVote(w), w.from = i, w.curterm = v.curterm, g
        PROVE  w.to = v.to
    <3>1. w.curterm <= term[i] /\ w.curterm = TermAt(i, m)
      BY <1>3, <2>1 DEF GrantsAreRecorded
    <3>2. w.curterm = term[i] /\ term'[i] = term[i]
      <4>1. term[i] \in Nat /\ w.curterm \in Nat
        BY <1>6, <2>1 DEF TypeOK
      <4>2. QED
        BY <1>4, <3>1, <4>1
    <3>3. voteFor[i] = w.to /\ w.to \in Server
      BY <1>6, <2>1, <3>2 DEF GrantsAreRecorded
    <3>4. QED
      BY <1>3, <1>5, <2>1, <3>2, <3>3, ServerAssumption
  <2>2. QED
    BY <1>3, <1>4, <2>1 DEF OneGrantPerTerm, GrantedVote
<1>11. VotesAreGrants'
  <2> SUFFICES ASSUME NEW j \in Server, role'[j] # Follower
               PROVE  /\ votes'[j] = 1 + Cardinality(voters'[j])
                      /\ \A k \in voters'[j] : k # j /\ GrantedBy(k, j, term[j])'
    BY DEF VotesAreGrants
  <2>1. /\ role[j] # Follower
        /\ term'[j] = term[j] /\ votes'[j] = votes[j] /\ voters'[j] = voters[j]
    BY <1>4
  <2>2. /\ votes[j] = 1 + Cardinality(voters[j])
        /\ \A k \in voters[j] : k # j /\ GrantedBy(k, j, term[j])
    BY <2>1 DEF VotesAreGrants
  <2>3. \A k \in voters[j] : GrantedBy(k, j, term[j])'
    BY <1>4, <2>1, <2>2 DEF GrantedBy, GrantsTo
  <2>4. QED
    BY <2>1, <2>2, <2>3
<1>12. LeadersCountedMajority'
  BY <1>4 DEF LeadersCountedMajority, Leader, Follower
<1>13. CountedLinksAreSpent'
  <2> SUFFICES ASSUME NEW j \in Server, role'[j] = Candidate,
                      NEW k \in voters'[j], NEW w \in msgs',
                      \/ w.type = "claim" /\ w.from = j /\ w.to = k
                      \/ w.type = "vote" /\ w.from = k /\ w.to = j
               PROVE  w.sequence < sequence'[j][k]
    BY DEF CountedLinksAreSpent
  <2>1. role[j] = Candidate /\ voters'[j] = voters[j] /\ sequence' = sequence
    BY <1>4 DEF Candidate, Follower
  <2>2. CASE w \in msgs
    BY <2>1, <2>2 DEF CountedLinksAreSpent
  <2>3. CASE w = v
    <3>1. k = i /\ j = m.from /\ w.sequence = m.sequence
      BY <1>3, <2>3
    <3>2. QED
      BY <1>1, <2>1, <3>1 DEF CountedLinksAreSpent
  <2>4. QED
    BY <1>4, <2>2, <2>3
<1>14. QED
  BY <1>7, <1>8, <1>9, <1>10, <1>11, <1>12, <1>13

\* A vote is counted at most once: its packet number is spent by the count.
LEMMA HandleVoteStep ==
    ASSUME ElectionInv, TypeOK', NEW i \in Server, NEW m \in msgs, m.to = i, HandleVote(i, m)
    PROVE  ElectionInv'
<1> USE DEF ElectionInv
<1>1. /\ m.type = "vote" /\ m.granted \in BOOLEAN
      /\ m.curterm \in Nat /\ m.sequence \in Nat
      /\ m.from \in Server /\ m.from # i
  BY MessageFields DEF TypeOK, NoSelfPackets, HandleVote, TakeVote, Answers
<1>2. /\ \A j, k \in Server : sequence'[j][k] >= sequence[j][k]
      /\ msgs' = msgs
  <2>1. \/ UNCHANGED sequence
        \/ sequence' = [sequence EXCEPT ![i][m.from] = @ + 1]
    <3> DEFINE k == IF Answers(i, m) THEN sequence[i][m.from] + 1 ELSE sequence[i][m.from]
    <3>1. sequence' = [sequence EXCEPT ![i][m.from] = k]
      BY Zenon DEF HandleVote, TakeVote
    <3>2. CASE Answers(i, m)
      BY <3>1, <3>2
    <3>3. CASE ~Answers(i, m)
      BY <1>1, <3>1, <3>3 DEF TypeOK
    <3>4. QED
      BY <3>2, <3>3
  <2>2. sequence[i][m.from] \in Nat
    BY <1>1 DEF TypeOK
  <2>3. QED
    <3>1. msgs' = msgs
      BY DEF HandleVote, TakeVote, Answers
    <3>2. \A j, k \in Server : sequence[j][k] \in Nat
      BY DEF TypeOK
    <3>3. CASE UNCHANGED sequence
      BY <3>1, <3>2, <3>3
    <3>4. CASE sequence' = [sequence EXCEPT ![i][m.from] = @ + 1]
      BY <1>1, <3>1, <3>2, <3>4 DEF TypeOK
    <3>5. QED
      BY <2>1, <3>3, <3>4
<1>3. CASE ~(/\ m.sequence = sequence[i][m.from]
             /\ m.curterm >= term[i] /\ RoleAt(i, m) = Candidate)
  <2>1. /\ AdoptTerm(i, m)
        /\ voteFor' = [voteFor EXCEPT ![i] = VoteAt(i, m)]
        /\ role'  = [role EXCEPT ![i] = RoleAt(i, m)]
        /\ votes' = [votes EXCEPT ![i] = IF Newer(i, m) THEN 0 ELSE @]
        /\ UNCHANGED voters
    BY <1>3 DEF HandleVote, TakeVote, Answers
  <2>2. FallsBack
    BY <2>1, AdoptTermFallsBack
  <2>3. OnlyUpdates
    BY <1>2 DEF OnlyUpdates
  <2>4. QED
    BY <2>2, <2>3, QuietStep
<1>4. CASE /\ m.sequence = sequence[i][m.from]
           /\ m.curterm >= term[i] /\ RoleAt(i, m) = Candidate
  <2>1. /\ role[i] = Candidate /\ m.curterm = term[i]
        /\ UNCHANGED <<term, voteFor>>
    <3>1. ~Newer(i, m) /\ role[i] = Candidate
      BY <1>4 DEF RoleAt, Candidate, Follower
    <3>2. TermAt(i, m) = term[i] /\ VoteAt(i, m) = voteFor[i]
      BY <3>1 DEF TermAt, VoteAt
    <3>3. m.curterm = term[i]
      <4>1. term[i] \in Nat
        BY DEF TypeOK
      <4>2. QED
        BY <1>1, <1>4, <3>1, <4>1 DEF Newer
    <3>4. QED
      BY <3>1, <3>2, <3>3 DEF HandleVote, TakeVote, Answers, AdoptTerm, TypeOK
  <2> DEFINE count == IF m.granted THEN votes[i] + 1 ELSE votes[i]
  <2>2. /\ sequence' = [sequence EXCEPT ![i][m.from] = @ + 1]
        /\ votes'  = [votes EXCEPT ![i] = count]
        /\ voters' = [voters EXCEPT ![i] = IF m.granted THEN @ \cup {m.from} ELSE @]
        /\ \/ Majority(count) /\ role' = [role EXCEPT ![i] = Leader]
           \/ UNCHANGED role
    BY <1>4 DEF HandleVote, TakeVote, Answers
  <2>3. m.from \notin voters[i]
    BY <1>1, <1>4, <2>1 DEF CountedLinksAreSpent, TypeOK
  <2>4. /\ votes'[i] = count /\ votes'[i] = 1 + Cardinality(voters'[i])
        /\ \A j \in voters'[i] : j # i /\ GrantedBy(j, i, term[i])
    <3>1. /\ votes[i] = 1 + Cardinality(voters[i])
          /\ \A j \in voters[i] : j # i /\ GrantedBy(j, i, term[i])
      BY <2>1 DEF VotesAreGrants, Candidate, Follower
    <3>2. IsFiniteSet(voters[i])
      BY ServerAssumption, FS_Subset DEF TypeOK
    <3>3. Cardinality(voters[i]) \in Nat /\ votes[i] \in Nat
      BY <3>2, FS_CardinalityType DEF TypeOK
    <3>4. CASE m.granted
      <4>1. voters'[i] = voters[i] \cup {m.from} /\ votes'[i] = votes[i] + 1
        BY <2>2, <3>4 DEF TypeOK
      <4>2. Cardinality(voters'[i]) = Cardinality(voters[i]) + 1
        BY <2>3, <3>2, <4>1, FS_AddElement
      <4>3. GrantedBy(m.from, i, term[i])
        BY <1>1, <2>1, <3>4, MessageFields DEF GrantedBy, GrantsTo, TypeOK
      <4>4. QED
        BY <1>1, <3>1, <3>3, <3>4, <4>1, <4>2, <4>3
    <3>5. CASE ~m.granted
      BY <2>2, <3>1, <3>5 DEF TypeOK
    <3>6. QED
      BY <1>1, <3>4, <3>5
  <2> HIDE DEF count
  <2>5. /\ \A j \in Server \ {i} : /\ role'[j] = role[j] /\ votes'[j] = votes[j]
                                   /\ voters'[j] = voters[j]
        /\ role'[i] \in {Candidate, Leader}
        /\ role'[i] = Leader => Majority(votes'[i])
        /\ voters'[i] \in {voters[i], voters[i] \cup {m.from}}
    BY <1>1, <2>1, <2>2, <2>4 DEF TypeOK, Candidate, Leader
  <2>6. NoSelfPackets'
    BY <1>2 DEF NoSelfPackets
  <2>7. \A w \in msgs : /\ w.from \in Server /\ w.to \in Server
                        /\ w.sequence \in Nat
                        /\ w.type \in {"claim", "vote", "update", "done"}
    BY MessageFields DEF TypeOK
  <2>8. PacketNumbersBound'
    <3> SUFFICES ASSUME NEW w \in msgs
                 PROVE  /\ w.type \in {"claim", "update"} => w.sequence <= sequence'[w.from][w.to]
                        /\ w.type \in {"vote", "done"}    => w.sequence <= sequence'[w.to][w.from]
      BY <1>2 DEF PacketNumbersBound
    <3>1. /\ sequence[w.from][w.to] \in Nat /\ sequence'[w.from][w.to] \in Nat
          /\ sequence[w.to][w.from] \in Nat /\ sequence'[w.to][w.from] \in Nat
          /\ sequence'[w.from][w.to] >= sequence[w.from][w.to]
          /\ sequence'[w.to][w.from] >= sequence[w.to][w.from]
      BY <1>2, <2>7 DEF TypeOK
    <3>2. QED
      BY <2>7, <3>1 DEF PacketNumbersBound
  <2>9. GrantsAreRecorded'
    <3> SUFFICES ASSUME NEW w \in msgs, GrantedVote(w)
                 PROVE  /\ w.curterm <= term[w.from]
                        /\ w.curterm = term[w.from] => /\ voteFor[w.from] = w.to
                                                       /\ role'[w.from] = Follower
      BY <1>2, <2>1 DEF GrantsAreRecorded, GrantedVote
    <3>1. /\ w.curterm <= term[w.from]
          /\ w.curterm = term[w.from] => /\ voteFor[w.from] = w.to
                                         /\ role[w.from] = Follower
      BY DEF GrantsAreRecorded
    <3>2. QED
      BY <2>1, <2>5, <2>7, <3>1 DEF Candidate, Follower
  <2>10. OneGrantPerTerm'
    BY <1>2 DEF OneGrantPerTerm
  <2>11. VotesAreGrants'
    <3> SUFFICES ASSUME NEW j \in Server, role'[j] # Follower
                 PROVE  /\ votes'[j] = 1 + Cardinality(voters'[j])
                        /\ \A k \in voters'[j] : k # j /\ GrantedBy(k, j, term[j])
      BY <1>2, <2>1 DEF VotesAreGrants, GrantedBy, GrantsTo
    <3>1. CASE j = i
      BY <2>4, <3>1
    <3>2. CASE j # i
      BY <2>5, <3>2 DEF VotesAreGrants
    <3>3. QED
      BY <3>1, <3>2
  <2>12. LeadersCountedMajority'
    <3> SUFFICES ASSUME NEW j \in Server, role'[j] = Leader
                 PROVE  Majority(votes'[j])
      BY DEF LeadersCountedMajority, Majority
    <3>1. CASE j = i
      BY <2>5, <3>1
    <3>2. CASE j # i
      BY <2>5, <3>2 DEF LeadersCountedMajority
    <3>3. QED
      BY <3>1, <3>2
  <2>13. CountedLinksAreSpent'
    <3> SUFFICES ASSUME NEW j \in Server, role'[j] = Candidate,
                        NEW k \in voters'[j], NEW w \in msgs,
                        \/ w.type = "claim" /\ w.from = j /\ w.to = k
                        \/ w.type = "vote" /\ w.from = k /\ w.to = j
                 PROVE  w.sequence < sequence'[j][k]
      BY <1>2 DEF CountedLinksAreSpent
    <3>1. k \in Server
      BY DEF TypeOK
    <3>2. /\ w.sequence \in Nat /\ sequence[j][k] \in Nat /\ sequence'[j][k] \in Nat
          /\ sequence'[j][k] >= sequence[j][k]
          /\ w.sequence <= sequence[j][k]
      BY <1>2, <2>7, <3>1 DEF TypeOK, PacketNumbersBound
    <3>3. CASE j = i /\ k = m.from
      <4>1. sequence'[j][k] = sequence[j][k] + 1
        BY <1>1, <2>2, <3>3 DEF TypeOK
      <4>2. QED
        BY <3>2, <4>1
    <3>4. CASE ~(j = i /\ k = m.from)
      <4>1. role[j] = Candidate /\ k \in voters[j]
        BY <2>1, <2>5, <3>4
      <4>2. w.sequence < sequence[j][k]
        BY <4>1 DEF CountedLinksAreSpent
      <4>3. QED
        BY <3>2, <4>2
    <3>5. QED
      BY <3>3, <3>4
  <2>14. QED
    BY <2>6, <2>8, <2>9, <2>10, <2>11, <2>12, <2>13
<1>5. QED
  BY <1>3, <1>4
-----------------------------------------------------------------------------
(* The invariant, and what follows from it.                                *)

LEMMA InitElectionInv == Init => ElectionInv
BY InitTypeOK
   DEF Init, ElectionInv, NoSelfPackets, PacketNumbersBound, GrantsAreRecorded,
       OneGrantPerTerm, VotesAreGrants, LeadersCountedMajority,
       CountedLinksAreSpent, Follower, Candidate, Leader

LEMMA NextElectionInv ==
    ASSUME MaxRestarts = 0, ElectionInv, [Next]_vars
    PROVE  ElectionInv'
<1>1. TypeOK /\ TypeOK'
  BY NextTypeOK DEF ElectionInv
<1>2. ASSUME NEW i \in Server, Abort(i)
      PROVE  ElectionInv'
  <2>1. FallsBack /\ OnlyUpdates
    BY <1>1, <1>2 DEF Abort, FallsBack, OnlyUpdates, TypeOK
  <2>2. QED
    BY <1>1, <2>1, QuietStep
<1>3. ASSUME NEW i \in Server, TickFollower(i) \/ TickCandidate(i)
      PROVE  ElectionInv'
  BY <1>1, <1>2, <1>3, ClaimStep DEF TickFollower, TickCandidate
<1>4. ASSUME NEW i \in Server, TickLeader(i) \/ Emit(i)
      PROVE  ElectionInv'
  BY <1>1, <1>4, TickLeaderStep, EmitStep, QuietStep
<1>5. ASSUME NEW i \in Server, NEW m \in msgs, Receive(i, m)
      PROVE  ElectionInv'
  <2>1. CASE HandleUpdate(i, m)
    BY <1>1, <1>5, <2>1, HandleUpdateStep, QuietStep DEF Receive
  <2>2. CASE HandleDone(i, m)
    BY <1>1, <1>5, <2>2, HandleDoneStep, QuietStep DEF Receive
  <2>3. CASE HandleClaim(i, m)
    BY <1>1, <1>5, <2>3, HandleClaimStep DEF Receive
  <2>4. CASE HandleVote(i, m)
    BY <1>1, <1>5, <2>4, HandleVoteStep DEF Receive
  <2>5. QED
    BY <1>5, <2>1, <2>2, <2>3, <2>4 DEF Receive
<1>6. ASSUME NEW i \in Server, Restart(i)
      PROVE  FALSE
  BY <1>1, <1>6 DEF Restart, TypeOK
<1>7. CASE UNCHANGED vars
  <2>1. FallsBack /\ OnlyUpdates
    BY <1>1, <1>7 DEF vars, FallsBack, OnlyUpdates, TypeOK
  <2>2. QED
    BY <1>1, <2>1, QuietStep
<1>8. QED
  BY <1>3, <1>4, <1>5, <1>6, <1>7 DEF Next

LEMMA ElectionInvariant ==
    ASSUME MaxRestarts = 0
    PROVE  Spec => []ElectionInv
<1>1. Init => ElectionInv
  BY InitElectionInv
<1>2. ElectionInv /\ [Next]_vars => ElectionInv'
  BY NextElectionInv
<1>3. QED
  BY <1>1, <1>2, PTL DEF Spec

\* Two majorities of the peers share a peer.
LEMMA MajoritiesMeet ==
    ASSUME NEW P \in SUBSET Server, NEW Q \in SUBSET Server,
           Majority(Cardinality(P)), Majority(Cardinality(Q))
    PROVE  P \cap Q # {}
<1>1. /\ IsFiniteSet(P) /\ IsFiniteSet(Q) /\ IsFiniteSet(P \cup Q)
      /\ Cardinality(P) \in Nat /\ Cardinality(Q) \in Nat
      /\ Cardinality(P \cup Q) \in Nat
      /\ Cardinality(P \cup Q) <= peerNum
  BY ServerAssumption, FS_Subset, FS_CardinalityType DEF peerNum
<1>2. Cardinality(P \cup Q) = Cardinality(P) + Cardinality(Q) - Cardinality(P \cap Q)
  BY <1>1, FS_Union
<1>3. SUFFICES ASSUME P \cap Q = {}
               PROVE  FALSE
  OBVIOUS
<1>4. Cardinality(P \cap Q) = 0
  BY <1>3, FS_EmptySet
<1>5. QED
  BY <1>1, <1>2, <1>4, PeerNumIsNat DEF Majority

\* The voters of a leader and the leader itself are a majority.
LEMMA LeaderHasMajority ==
    ASSUME ElectionInv, NEW i \in Server, role[i] = Leader
    PROVE  /\ voters[i] \cup {i} \in SUBSET Server
           /\ Majority(Cardinality(voters[i] \cup {i}))
           /\ \A j \in voters[i] : GrantedBy(j, i, term[i])
<1>1. /\ votes[i] = 1 + Cardinality(voters[i]) /\ Majority(votes[i])
      /\ \A j \in voters[i] : j # i /\ GrantedBy(j, i, term[i])
  BY DEF ElectionInv, VotesAreGrants, LeadersCountedMajority, Leader, Follower
<1>2. voters[i] \in SUBSET Server /\ IsFiniteSet(voters[i]) /\ i \notin voters[i]
  BY <1>1, ServerAssumption, FS_Subset DEF ElectionInv, TypeOK
<1>3. Cardinality(voters[i] \cup {i}) = Cardinality(voters[i]) + 1
  BY <1>2, FS_AddElement
<1>4. Cardinality(voters[i]) \in Nat
  BY <1>2, FS_CardinalityType
<1>5. votes[i] = Cardinality(voters[i] \cup {i})
  BY <1>1, <1>3, <1>4
<1>6. QED
  BY <1>1, <1>2, <1>5

\* A grant is a datagram on the wire.
LEMMA GrantIsPacket ==
    ASSUME NEW i, NEW j, NEW t, GrantedBy(j, i, t)
    PROVE  \E m \in msgs : /\ m.type = "vote" /\ m.granted
                           /\ m.from = j /\ m.to = i /\ m.curterm = t
BY DEF GrantedBy, GrantsTo, Votes

LEMMA InvImpliesOneLeader == ElectionInv => OneLeaderPerTerm
<1> SUFFICES ASSUME ElectionInv, NEW i \in Server, NEW j \in Server,
                    role[i] = Leader, role[j] = Leader, term[i] = term[j], i # j
             PROVE  FALSE
  BY DEF OneLeaderPerTerm
<1>1. PICK k \in Server : k \in voters[i] \cup {i} /\ k \in voters[j] \cup {j}
  BY LeaderHasMajority, MajoritiesMeet
<1>2. ASSUME NEW a \in Server, NEW b \in Server, role[a] = Leader, role[b] = Leader,
             term[a] = term[b], a \in voters[b]
      PROVE  FALSE
  <2>1. GrantedBy(a, b, term[a])
    BY <1>2, LeaderHasMajority
  <2>2. PICK m \in msgs : /\ m.type = "vote" /\ m.granted
                          /\ m.from = a /\ m.curterm = term[a]
    BY <2>1, GrantIsPacket
  <2>3. role[a] = Follower
    BY <2>2 DEF ElectionInv, GrantsAreRecorded, GrantedVote
  <2>4. QED
    BY <1>2, <2>3 DEF Leader, Follower
<1>3. CASE k = i \/ k = j
  BY <1>1, <1>2, <1>3
<1>4. CASE k \in voters[i] /\ k \in voters[j]
  <2>1. GrantedBy(k, i, term[i]) /\ GrantedBy(k, j, term[j])
    BY <1>4, LeaderHasMajority
  <2>2. PICK v \in msgs : /\ v.type = "vote" /\ v.granted
                          /\ v.from = k /\ v.to = i /\ v.curterm = term[i]
    BY <2>1, GrantIsPacket
  <2>3. PICK w \in msgs : /\ w.type = "vote" /\ w.granted
                          /\ w.from = k /\ w.to = j /\ w.curterm = term[j]
    BY <2>1, GrantIsPacket
  <2>4. QED
    BY <2>2, <2>3 DEF ElectionInv, OneGrantPerTerm
<1>5. QED
  BY <1>1, <1>3, <1>4

\* As long as no process restarts, no two nodes lead one term at one time,
\* for any number of peers and whatever the network does to the datagrams
\* (handleClaim raft.cc:821, handleVote raft.cc:867).
THEOREM OneLeader ==
    ASSUME MaxRestarts = 0
    PROVE  Spec => []OneLeaderPerTerm
<1>1. Spec => []ElectionInv
  BY ElectionInvariant
<1>2. ElectionInv => OneLeaderPerTerm
  BY InvImpliesOneLeader
<1>3. QED
  BY <1>1, <1>2, PTL

\* As long as no process restarts, a node votes for one candidate of a term
\* (raft.cc:853-858).
THEOREM OneGrant ==
    ASSUME MaxRestarts = 0
    PROVE  Spec => []OneGrantPerTerm
<1>1. ElectionInv => OneGrantPerTerm
  BY DEF ElectionInv
<1>2. QED
  BY <1>1, ElectionInvariant, PTL

\* As long as no process restarts, a candidate and a leader go by a count of
\* distinct peers that voted for them in their term (raft.cc:869-878).
THEOREM VotesCountOnce ==
    ASSUME MaxRestarts = 0
    PROVE  Spec => []VotesAreGrants
<1>1. ElectionInv => VotesAreGrants
  BY DEF ElectionInv
<1>2. QED
  BY <1>1, ElectionInvariant, PTL
=============================================================================
