----------------------------- MODULE RaftProofs -----------------------------
(***************************************************************************)
(* Raft implements RaftElection: a server with a log is one whose log only *)
(* makes the choices that RaftElection leaves open.  What is proved there  *)
(* of terms, votes and leaders is carried over.  At the end: what the log  *)
(* itself promises under one leader.                                       *)
(***************************************************************************)
EXTENDS Raft, FiniteSetTheorems, TLAPS

\* A message without what it says of logs: what RaftElection sees of it.
Plain(m) ==
    IF m.type = "vote" THEN m
    ELSE [type |-> m.type, curterm |-> m.curterm, from |-> m.from, to |-> m.to,
          sequence |-> m.sequence]
Plains(S) == {Plain(m) : m \in S}

LEMMA ElectionVars ==
  UNCHANGED vars => UNCHANGED Election!vars
BY DEF vars, Election!vars

LEMMA PlainFields ==
  ASSUME NEW m
  PROVE  /\ Plain(m).type = m.type /\ Plain(m).curterm = m.curterm
         /\ Plain(m).from = m.from /\ Plain(m).to = m.to
         /\ Plain(m).sequence = m.sequence
BY DEF Plain

LEMMA SameCardinality ==
  ASSUME NEW S
  PROVE  Election!Cardinality(S) = Cardinality(S)
BY DEF Election!Cardinality, Cardinality

\* The bounds of RaftElection are those of Raft.
LEMMA BoundsAgree ==
  ASSUME IsFiniteSet(msgs)
  PROVE  /\ \A i \in Server : MayClaim(i) => Election!MayClaim(i)
         /\ \A n \in Int : MayUpdate(n) => Election!MayUpdate(n)
<1> DEFINE S == {m \in msgs : m.type = "update"}
           T == {m \in Plains(msgs) : m.type = "update"}
           g == [m \in S |-> Plain(m)]
<1>1. IsFiniteSet(S)
  BY FS_Subset
<1>2. g \in Surjection(S, T)
  <2>1. \A m \in S : Plain(m) \in T
    BY PlainFields DEF Plains
  <2>2. \A p \in T : \E m \in S : g[m] = p
    BY PlainFields DEF Plains
  <2> QED BY <2>1, <2>2 DEF Surjection
<1>3. IsFiniteSet(T) /\ Cardinality(T) <= Cardinality(S)
  BY <1>1, <1>2, FS_Surjection
<1>4. Cardinality(S) \in Nat /\ Cardinality(T) \in Nat
  BY <1>1, <1>3, FS_CardinalityType
<1>5. ASSUME NEW n \in Int, MayUpdate(n) PROVE Election!MayUpdate(n)
  <2>1. Cardinality(S) + n <= MaxUpdates
    BY <1>5 DEF MayUpdate
  <2>2. Cardinality(T) + n <= MaxUpdates
    BY <1>3, <1>4, <2>1, BoundsAssumption
  <2>3. Election!MayUpdate(n) <=> Cardinality(T) + n <= MaxUpdates
    BY SameCardinality DEF Election!MayUpdate, Plains, Plain
  <2> QED BY <2>2, <2>3
<1>6. Elections = Election!Elections
  <2> DEFINE E(M) == {<<m.from, m.curterm>> : m \in {p \in M : p.type = "claim"}}
  <2>1. E(msgs) = E(Plains(msgs))
    <3>1. \A m \in {p \in msgs : p.type = "claim"} :
             \E q \in {p \in Plains(msgs) : p.type = "claim"} :
                m.from = q.from /\ m.curterm = q.curterm
      BY PlainFields DEF Plains
    <3>2. \A q \in {p \in Plains(msgs) : p.type = "claim"} :
             \E m \in {p \in msgs : p.type = "claim"} :
                m.from = q.from /\ m.curterm = q.curterm
      BY PlainFields DEF Plains
    <3>3. ASSUME NEW x PROVE x \in E(msgs) <=> x \in E(Plains(msgs))
      BY <3>1, <3>2
    <3> HIDE DEF E
    <3> QED BY <3>3
  <2> QED BY <2>1 DEF Elections, Election!Elections, Plains, Plain
<1>7. ASSUME NEW i \in Server, MayClaim(i) PROVE Election!MayClaim(i)
  BY <1>6, <1>7, SameCardinality DEF MayClaim, Election!MayClaim
<1> QED BY <1>5, <1>7

-----------------------------------------------------------------------------
(* What the handlers do to the members that both modules have.             *)

LEMMA SameOperators ==
  /\ Election!Follower = Follower /\ Election!Candidate = Candidate
  /\ Election!Leader = Leader /\ Election!peerNum = peerNum
  /\ \A i : Election!Peers(i) = Peers(i)
  /\ \A n : Election!Majority(n) <=> Majority(n)
<1>1. Election!peerNum = peerNum
  BY SameCardinality DEF Election!peerNum, peerNum
<1> QED BY <1>1 DEF Election!Follower, Follower, Election!Candidate, Candidate, Election!Leader,
           Leader, Election!Peers, Peers, Election!Majority, Majority

\* p is what RaftElection sees of m.
Sees(p, m) ==
    /\ p.type = m.type /\ p.curterm = m.curterm
    /\ p.from = m.from /\ p.to = m.to /\ p.sequence = m.sequence
    /\ m.type = "vote" => p.granted = m.granted

LEMMA PlainSees ==
  ASSUME NEW m
  PROVE  Sees(Plain(m), m)
BY PlainFields DEF Sees, Plain

LEMMA SameOfMessage ==
  ASSUME NEW i, NEW m, NEW p, Sees(p, m)
  PROVE  /\ Election!Newer(i, p) <=> Newer(i, m)
         /\ Election!TermAt(i, p) = TermAt(i, m)
         /\ Election!RoleAt(i, p) = RoleAt(i, m)
         /\ Election!VoteAt(i, p) = VoteAt(i, m)
         /\ Election!Answers(i, p) <=> Answers(i, m)
         /\ Election!Takes(i, p) <=> Takes(i, m)
         /\ Election!AdoptTerm(i, p) <=> AdoptTerm(i, m)
         /\ \A ok : Election!Grants(i, p, ok) <=> Grants(i, m, ok)
<1>1. /\ Election!Newer(i, p) <=> Newer(i, m)
      /\ Election!Answers(i, p) <=> Answers(i, m)
  BY DEF Sees, Election!Newer, Newer, Election!Answers, Answers
<1>2. Election!TermAt(i, p) = TermAt(i, m)
  BY <1>1 DEF Sees, Election!TermAt, TermAt
<1>3. Election!RoleAt(i, p) = RoleAt(i, m)
  BY <1>1, SameOperators DEF Election!RoleAt, RoleAt
<1>4. Election!VoteAt(i, p) = VoteAt(i, m)
  BY <1>1 DEF Election!VoteAt, VoteAt
<1>5. Election!Takes(i, p) <=> Takes(i, m)
  BY <1>1, <1>3, SameOperators DEF Election!Takes, Takes
<1>6. Election!AdoptTerm(i, p) <=> AdoptTerm(i, m)
  BY <1>2 DEF Election!AdoptTerm, AdoptTerm
<1>7. \A ok : Election!Grants(i, p, ok) <=> Grants(i, m, ok)
  BY <1>4 DEF Election!Grants, Grants, Sees
<1> QED BY <1>1, <1>2, <1>3, <1>4, <1>5, <1>6, <1>7

LEMMA SameTakeUpdate ==
  ASSUME NEW i, NEW m, NEW p, Sees(p, m), NEW fits, TakeUpdate(i, m, fits)
  PROVE  Election!TakeUpdate(i, p, fits)
<1>1. /\ AdoptTerm(i, m) <=> Election!AdoptTerm(i, p)
      /\ RoleAt(i, m) = Election!RoleAt(i, p) /\ VoteAt(i, m) = Election!VoteAt(i, p)
      /\ TermAt(i, m) = Election!TermAt(i, p)
      /\ Newer(i, m) <=> Election!Newer(i, p)
      /\ m.curterm = p.curterm /\ m.from = p.from
  BY SameOfMessage DEF Sees
<1>2. /\ Election!AdoptTerm(i, p)
      /\ role' = [role EXCEPT ![i] = Election!RoleAt(i, p)]
      /\ voteFor' = [voteFor EXCEPT ![i] = Election!VoteAt(i, p)]
  BY <1>1 DEF TakeUpdate
<1>3. votes' = [votes EXCEPT ![i] = IF Election!Newer(i, p) THEN 0 ELSE @]
  <2>1. votes' = [votes EXCEPT ![i] = IF Newer(i, m) THEN 0 ELSE @]
    BY Zenon DEF TakeUpdate
  <2>2. CASE Newer(i, m)
    BY <1>1, <2>1, <2>2
  <2>3. CASE ~ Newer(i, m)
    BY <1>1, <2>1, <2>3
  <2> QED BY <2>2, <2>3
<1>4. /\ IF fits /\ Election!Timely(i, p)
         THEN leaderId' = [leaderId EXCEPT ![i] = p.from]
         ELSE UNCHANGED leaderId
      /\ UNCHANGED <<sequence, aborted, restarts, voters>>
  BY <1>1 DEF TakeUpdate, Timely, Election!Timely
<1> QED BY <1>2, <1>3, <1>4, Zenon DEF Election!TakeUpdate

LEMMA SameTakeDone ==
  ASSUME NEW i, NEW m, NEW p, Sees(p, m), NEW beats, TakeDone(i, m, beats)
  PROVE  Election!TakeDone(i, p, beats)
BY SameOfMessage DEF TakeDone, Election!TakeDone, Sees

LEMMA SameTakeClaim ==
  ASSUME NEW i, NEW m, NEW p, Sees(p, m), NEW granted, TakeClaim(i, m, granted)
  PROVE  Election!TakeClaim(i, p, granted)
BY SameOfMessage, SameOperators DEF TakeClaim, Election!TakeClaim, Sees

LEMMA SameTakeVote ==
  ASSUME NEW i, NEW m, NEW p, Sees(p, m), m.type = "vote", TakeVote(i, m)
  PROVE  Election!TakeVote(i, p)
BY SameOfMessage, SameOperators DEF TakeVote, Election!TakeVote, Sees

LEMMA SameSteps ==
  ASSUME NEW i
  PROVE  /\ \A S : Number(i, S) => Election!Number(i, S)
         /\ StartElection(i) => Election!StartElection(i)
         /\ \A n : StayLeader(i, n) => Election!StayLeader(i, n)
<1>1. \A S : Number(i, S) <=> Election!Number(i, S)
  BY DEF Number, Election!Number
<1>2. StartElection(i) => Election!StartElection(i)
  BY <1>1, SameOperators DEF StartElection, Election!StartElection, OwnVote, Election!OwnVote
<1>3. \A n : StayLeader(i, n) => Election!StayLeader(i, n)
  BY SameOperators DEF StayLeader, Election!StayLeader
<1> QED BY <1>1, <1>2, <1>3

\* An assertion that fails, and a restart, are the same in both.
LEMMA SameEnds ==
  ASSUME NEW i
  PROVE  /\ Abort(i) => Election!Abort(i)
         /\ Restart(i) => Election!Restart(i)
BY DEF Abort, Election!Abort, Restart, Election!Restart, Follower, Election!Follower

-----------------------------------------------------------------------------
(* Each action is one of RaftElection, or one that it does not see.        *)

LEMMA PlainsGrow ==
  ASSUME NEW S, msgs' = msgs \cup S
  PROVE  Plains(msgs)' = Plains(msgs) \cup Plains(S)
BY DEF Plains

LEMMA PlainPacket ==
  ASSUME NEW m, m.type # "vote"
  PROVE  Plain(m) = Election!Packet(m.type, m.curterm, m.from, m.to, m.sequence)
BY DEF Plain, Election!Packet

LEMMA BeatAllSeen ==
  ASSUME IsFiniteSet(msgs), NEW i \in Server, NEW l, NEW a, BeatAll(i, l, a)
  PROVE  Election!BeatAll(i)
<1> DEFINE U(j) == Update(i, j, sequence[i][j] + 1, l, a[j])
           S == {U(j) : j \in Peers(i)}
<1>1. ASSUME NEW j PROVE Plain(U(j)) = Election!Packet("update", term[i], i, j, sequence[i][j] + 1)
  BY PlainPacket DEF Update
<1>2. Plains(S) = {Plain(U(j)) : j \in Peers(i)}
  BY DEF Plains
<1>3. Plains(S) = Election!Packets("update", term[i], i, Election!Peers(i))
  <2> HIDE DEF U
  <2> QED BY <1>1, <1>2, SameOperators DEF Election!Packets
<1>4. Plains(msgs)' = Plains(msgs) \cup Plains(S)
  BY PlainsGrow DEF BeatAll
<1>5. Election!Number(i, Election!Peers(i))
  BY SameSteps, SameOperators DEF BeatAll
<1>6. peerNum - 1 \in Int
  BY ServerAssumption, FS_CardinalityType DEF peerNum
<1>7. Election!MayUpdate(Election!peerNum - 1)
  BY <1>6, BoundsAgree, SameOperators DEF BeatAll
<1> HIDE DEF S
<1> QED BY <1>3, <1>4, <1>5, <1>7 DEF Election!BeatAll, Plains, Plain

LEMMA ClaimSeen ==
  ASSUME NEW i \in Server, Claim(i)
  PROVE  Election!Claim(i)
<1>1. Election!StartElection(i)
  BY SameSteps DEF Claim
<1>2. CASE Majority(1)
  <2>1. Plains(msgs)' = Plains(msgs)
    BY <1>2 DEF Claim, Plains
  <2> QED BY <1>1, <1>2, <2>1, SameOperators DEF Election!Claim, Plains, Plain
<1>3. CASE ~ Majority(1)
  <2> DEFINE S == {ClaimTo(i, j) : j \in Peers(i)}
  <2>1. ASSUME NEW j
        PROVE Plain(ClaimTo(i, j)) = Election!Packet("claim", term[i] + 1, i, j, sequence[i][j] + 1)
    BY PlainPacket DEF ClaimTo
  <2>2. Plains(S) = {Plain(ClaimTo(i, j)) : j \in Peers(i)}
    BY DEF Plains
  <2>3. Plains(S) = Election!Packets("claim", term[i] + 1, i, Election!Peers(i))
    BY <2>1, <2>2, SameOperators DEF Election!Packets
  <2>4. Plains(msgs)' = Plains(msgs) \cup Plains(S)
    BY <1>3, PlainsGrow DEF Claim
  <2> HIDE DEF S
  <2> QED BY <1>1, <1>3, <2>3, <2>4, SameOperators DEF Election!Claim, Plains, Plain
<1> QED BY <1>2, <1>3

LEMMA TickExpiredSeen ==
  ASSUME IsFiniteSet(msgs), NEW i \in Server, TickExpired(i)
  PROVE  Election!TickFollower(i) \/ Election!TickCandidate(i)
<1>1. i \notin aborted /\ Election!MayClaim(i)
  BY BoundsAgree DEF TickExpired, Live
<1>2. CASE role[i] = Candidate /\ leaderId[i] # NOBODY
  BY <1>1, <1>2, SameEnds, SameOperators DEF TickExpired, Election!TickCandidate
<1>3. CASE ~ (role[i] = Candidate /\ leaderId[i] # NOBODY)
  BY <1>1, <1>3, ClaimSeen, SameOperators
     DEF TickExpired, Election!TickCandidate, Election!TickFollower
<1> QED BY <1>2, <1>3

LEMMA TickLeaderSeen ==
  ASSUME IsFiniteSet(msgs), NEW i \in Server, TickLeader(i)
  PROVE  Election!TickLeader(i) \/ UNCHANGED vars
<1>1. PICK expired \in BOOLEAN, recent \in 1..peerNum :
         IF expired /\ Peers(i) # {} /\ leaderId[i] # i
         THEN Abort(i) /\ UNCHANGED logVars
         ELSE IF expired /\ ~ CanBeatAll(i, log[i], acked[i]) THEN Fail(i, "beat")
         ELSE /\ IF expired THEN BeatAll(i, log[i], acked[i]) ELSE UNCHANGED <<sequence, msgs>>
              /\ StayLeader(i, recent)
              /\ Refresh(i)
  BY DEF TickLeader
<1>2. i \notin aborted /\ role[i] = Leader /\ recent \in 1..Election!peerNum
  BY SameOperators DEF TickLeader, Live
<1>3. CASE expired /\ Peers(i) # {} /\ leaderId[i] # i
  BY <1>1, <1>2, <1>3, SameEnds, SameOperators DEF Election!TickLeader
<1>4. CASE ~ (expired /\ Peers(i) # {} /\ leaderId[i] # i)
           /\ ~ (expired /\ ~ CanBeatAll(i, log[i], acked[i]))
  <2>1. Election!StayLeader(i, recent)
    BY <1>1, <1>4, SameSteps
  <2>2. IF expired THEN Election!BeatAll(i) ELSE sequence' = sequence /\ Plains(msgs)' = Plains(msgs)
    BY <1>1, <1>4, BeatAllSeen DEF Plains
  <2> QED BY <1>2, <1>4, <2>1, <2>2, SameOperators DEF Election!TickLeader, Plains, Plain
<1>5. CASE ~ (expired /\ Peers(i) # {} /\ leaderId[i] # i)
           /\ expired /\ ~ CanBeatAll(i, log[i], acked[i])
  BY <1>1, <1>5 DEF Fail
<1> QED BY <1>3, <1>4, <1>5

LEMMA EmitSeen ==
  ASSUME IsFiniteSet(msgs), NEW i \in Server, Emit(i)
  PROVE  Election!Emit(i) \/ UNCHANGED vars
<1>1. i \notin aborted /\ role[i] = Election!Leader
  BY SameOperators DEF Emit, Live
<1>2. CASE leaderId[i] # i
  BY <1>1, <1>2, SameEnds DEF Emit, Election!Emit
<1>3. CASE leaderId[i] = i /\ \E l, a : BeatAll(i, l, a)
  <2>1. UNCHANGED <<term, voteFor, role, votes, leaderId, aborted, restarts, voters>> \/ UNCHANGED vars
    BY <1>3 DEF Emit, Fail
  <2>2. Election!BeatAll(i)
    BY <1>3, BeatAllSeen
  <2> QED BY <1>1, <1>3, <2>1, <2>2 DEF Election!Emit
<1>4. CASE leaderId[i] = i /\ ~ \E l, a : BeatAll(i, l, a)
  BY <1>4 DEF Emit, Fail
<1> QED BY <1>2, <1>3, <1>4

\* An update is answered, unless an assertion about the log fails.
LEMMA HandleUpdateSeen ==
  ASSUME NEW i \in Server, NEW m, HandleUpdate(i, m)
  PROVE  Election!HandleUpdate(i, Plain(m)) \/ UNCHANGED vars
<1>1. \/ UNCHANGED vars
      \/ \E fits \in BOOLEAN : \E l, success : TakeUpdate(i, m, fits) /\ Reply(i, m, l, success)
  <2>1. CASE UpdateRefused(i, m)
    <3>1. Fits(log[i], m) \in BOOLEAN
      BY DEF Fits
    <3> QED BY <2>1, <3>1 DEF UpdateRefused
  <2>2. CASE \E l, body, acks, success : Ends(i, m, l, body, acks, success)
    BY <2>2 DEF Ends
  <2>3. CASE UNCHANGED vars
    BY <2>3
  <2>4. CASE UpdateHeartbeat(i, m)
    BY <2>2, <2>4 DEF UpdateHeartbeat
  <2>5. CASE UpdateIgnored(i, m)
    BY <2>2, <2>5 DEF UpdateIgnored
  <2>6. CASE UpdateChunk(i, m)
    <3>1. PICK l, c : UpdatePart(i, m, l, c) \/ UpdateSnapshot(i, m, l, c) \/ UpdateAppend(i, m, l, c)
      BY <2>6 DEF UpdateChunk
    <3>2. CASE UpdatePart(i, m, l, c)
      BY <2>2, <3>2 DEF UpdatePart
    <3>3. CASE UpdateSnapshot(i, m, l, c)
      BY <2>2, <2>3, <3>3 DEF UpdateSnapshot, Fail
    <3>4. CASE UpdateAppend(i, m, l, c)
      BY <2>2, <2>3, <3>4 DEF UpdateAppend, Fail
    <3> QED BY <3>1, <3>2, <3>3, <3>4
  <2> QED BY <2>1, <2>4, <2>5, <2>6 DEF HandleUpdate
<1>2. ASSUME NEW fits \in BOOLEAN, NEW l, NEW success,
             TakeUpdate(i, m, fits), Reply(i, m, l, success)
      PROVE  Election!HandleUpdate(i, Plain(m))
  <2> PICK p : p = Plain(m)
    OBVIOUS
  <2>1. Sees(p, m) /\ p.type = "update"
    BY PlainSees DEF HandleUpdate, Sees
  <2>2. Election!TakeUpdate(i, p, fits)
    BY <1>2, <2>1, SameTakeUpdate
  <2> PICK d : d = [type |-> "done", curterm |-> TermAt(i, m), from |-> i, to |-> m.from,
                    sequence |-> m.sequence, success |-> success,
                    entries |-> LastIndex(l) + 1, bytes |-> Len(l.newentry.data)]
    OBVIOUS
  <2>3. /\ msgs' = msgs \cup {d} /\ d.type = "done" /\ d.curterm = TermAt(i, m)
        /\ d.from = i /\ d.to = m.from /\ d.sequence = m.sequence
    BY <1>2 DEF Reply
  <2>4. Plains(msgs)' = Plains(msgs) \cup {Plain(d)}
    BY <2>3, PlainsGrow DEF Plains
  <2>5. Plain(d) = Election!Packet("done", TermAt(i, m), i, m.from, m.sequence)
    BY <2>3, PlainPacket
  <2>6. TermAt(i, m) = Election!TermAt(i, p)
    BY <2>1, SameOfMessage
  <2>7. Plain(d) = Election!Packet("done", Election!TermAt(i, p), i, p.from, p.sequence)
    BY <2>1, <2>5, <2>6 DEF Sees
  <2> QED BY <2>1, <2>2, <2>4, <2>7 DEF Election!HandleUpdate, Plains, Plain
<1> QED BY <1>1, <1>2

LEMMA HandleDoneSeen ==
  ASSUME IsFiniteSet(msgs), NEW i \in Server, NEW m, HandleDone(i, m)
  PROVE  Election!HandleDone(i, Plain(m)) \/ UNCHANGED vars
<1> PICK p : p = Plain(m)
  OBVIOUS
<1>1. Sees(p, m) /\ p.type = "done"
  BY PlainSees DEF HandleDone, Sees
<1>2. \/ UNCHANGED vars
      \/ \E beats \in BOOLEAN : \E a :
            /\ beats => MayUpdate(1)
            /\ TakeDone(i, m, beats)
            /\ msgs' = IF beats /\ leaderId[i] = i
                       THEN msgs \cup {Update(i, m.from, sequence[i][m.from] + 2, log[i], a)}
                       ELSE msgs
  BY DEF HandleDone, Fail, Takes, Sends
<1>3. ASSUME NEW beats \in BOOLEAN, NEW a, beats => MayUpdate(1), TakeDone(i, m, beats),
             msgs' = IF beats /\ leaderId[i] = i
                     THEN msgs \cup {Update(i, m.from, sequence[i][m.from] + 2, log[i], a)}
                     ELSE msgs
      PROVE  Election!HandleDone(i, p)
  <2>1. Election!TakeDone(i, p, beats) /\ (beats => Election!MayUpdate(1))
    BY <1>1, <1>3, SameTakeDone, BoundsAgree
  <2>2. CASE beats /\ leaderId[i] = i
    <3>1. PICK u : u = Update(i, m.from, sequence[i][m.from] + 2, log[i], a)
      OBVIOUS
    <3>2. Plains(msgs)' = Plains(msgs) \cup {Plain(u)}
      BY <1>3, <2>2, <3>1, PlainsGrow DEF Plains
    <3>3. Plain(u) = Election!Packet("update", term[i], i, p.from, sequence[i][p.from] + 2)
      BY <1>1, <3>1, PlainPacket DEF Sees, Update
    <3> QED BY <1>1, <2>1, <2>2, <3>2, <3>3 DEF Election!HandleDone, Plains, Plain
  <2>3. CASE ~ (beats /\ leaderId[i] = i)
    <3>1. Plains(msgs)' = Plains(msgs)
      BY <1>3, <2>3 DEF Plains
    <3> QED BY <1>1, <2>1, <2>3, <3>1 DEF Election!HandleDone, Plains, Plain
  <2> QED BY <2>2, <2>3
<1> QED BY <1>2, <1>3

LEMMA HandleClaimSeen ==
  ASSUME NEW i \in Server, NEW m, HandleClaim(i, m)
  PROVE  Election!HandleClaim(i, Plain(m))
<1> PICK p : p = Plain(m)
  OBVIOUS
<1> PICK ok \in BOOLEAN : ok = LogOk(log[i], m)
  BY DEF LogOk
<1> PICK granted : granted = Grants(i, m, ok)
  OBVIOUS
<1>1. Sees(p, m) /\ p.type = "claim"
  BY PlainSees DEF HandleClaim, Sees
<1>2. granted = Election!Grants(i, p, ok)
  <2>1. Election!Grants(i, p, ok) \in BOOLEAN /\ Grants(i, m, ok) \in BOOLEAN
    BY DEF Election!Grants, Grants
  <2> QED BY <1>1, <2>1, SameOfMessage
<1>3. Election!TakeClaim(i, p, granted)
  BY <1>1, SameTakeClaim DEF HandleClaim
<1>4. PICK v : /\ v = [type |-> "vote", curterm |-> TermAt(i, m), from |-> i, to |-> m.from,
                       sequence |-> m.sequence, granted |-> granted]
               /\ msgs' = msgs \cup {v}
  BY DEF HandleClaim
<1>5. Plain(v) = v /\ v = Election!Vote(Election!TermAt(i, p), i, p.from, p.sequence, granted)
  <2>1. TermAt(i, m) = Election!TermAt(i, p)
    BY <1>1, SameOfMessage
  <2>2. p.from = m.from /\ p.sequence = m.sequence
    BY <1>1 DEF Sees
  <2>3. v = Election!Vote(TermAt(i, m), i, m.from, m.sequence, granted)
    BY <1>4 DEF Election!Vote
  <2>4. Plain(v) = v
    BY <1>4 DEF Plain
  <2> QED BY <2>1, <2>2, <2>3, <2>4
<1>6. Plains(msgs)' = Plains(msgs) \cup {v}
  BY <1>4, <1>5, PlainsGrow DEF Plains
<1> QED BY <1>1, <1>2, <1>3, <1>5, <1>6 DEF Election!HandleClaim, Plains, Plain

LEMMA HandleVoteSeen ==
  ASSUME NEW i \in Server, NEW m, HandleVote(i, m)
  PROVE  Election!HandleVote(i, Plain(m))
<1>1. Sees(Plain(m), m) /\ m.type = "vote" /\ TakeVote(i, m) /\ msgs' = msgs
  BY PlainSees DEF HandleVote
<1>2. Election!TakeVote(i, Plain(m)) /\ Plain(m).type = "vote"
  BY <1>1, SameTakeVote DEF Sees
<1> QED BY <1>1, <1>2 DEF Election!HandleVote

LEMMA ReceiveSeen ==
  ASSUME IsFiniteSet(msgs), NEW i \in Server, NEW m \in msgs, Receive(i, m)
  PROVE  Election!Next \/ UNCHANGED vars
<1>1. i \notin aborted /\ Plain(m).to = i /\ Plain(m) \in Plains(msgs)
  BY PlainFields DEF Receive, Live, Plains
<1>2. CASE UNCHANGED vars
  BY <1>2
<1>3. CASE Election!Receive(i, Plain(m))
  BY <1>1, <1>3 DEF Election!Next, Plains, Plain
<1>4. \/ Election!HandleUpdate(i, Plain(m)) \/ Election!HandleDone(i, Plain(m))
      \/ Election!HandleClaim(i, Plain(m)) \/ Election!HandleVote(i, Plain(m))
      \/ UNCHANGED vars
  BY HandleUpdateSeen, HandleDoneSeen, HandleClaimSeen, HandleVoteSeen DEF Receive
<1> QED BY <1>1, <1>2, <1>3, <1>4 DEF Election!Receive

-----------------------------------------------------------------------------
(* Only so many messages are ever sent, so the bounds can count them.      *)

LEMMA PeersFinite ==
  ASSUME NEW i, NEW f
  PROVE  IsFiniteSet({f[j] : j \in Peers(i)})
<1> DEFINE S == {f[j] : j \in Peers(i)}
           g == [j \in Peers(i) |-> f[j]]
<1>1. IsFiniteSet(Peers(i))
  BY ServerAssumption, FS_Subset DEF Peers
<1>2. g \in Surjection(Peers(i), S)
  BY DEF Surjection
<1> QED BY <1>1, <1>2, FS_Surjection

LEMMA BeatAllFinite ==
  ASSUME IsFiniteSet(msgs), NEW i \in Server, NEW l, NEW a, BeatAll(i, l, a)
  PROVE  IsFiniteSet(msgs')
<1>1. PICK f : f = [j \in Peers(i) |-> Update(i, j, sequence[i][j] + 1, l, a[j])]
  OBVIOUS
<1>2. msgs' = msgs \cup {f[j] : j \in Peers(i)}
  BY <1>1 DEF BeatAll
<1> QED BY <1>2, PeersFinite, FS_Union

LEMMA ClaimFinite ==
  ASSUME IsFiniteSet(msgs), NEW i \in Server, Claim(i)
  PROVE  IsFiniteSet(msgs')
<1>1. PICK f : f = [j \in Peers(i) |-> ClaimTo(i, j)]
  OBVIOUS
<1>2. msgs' = msgs \/ msgs' = msgs \cup {f[j] : j \in Peers(i)}
  BY <1>1 DEF Claim
<1>3. IsFiniteSet({f[j] : j \in Peers(i)})
  BY PeersFinite
<1>4. IsFiniteSet(msgs \cup {f[j] : j \in Peers(i)})
  BY <1>3, FS_Union
<1> QED BY <1>2, <1>4

LEMMA ReceiveFinite ==
  ASSUME IsFiniteSet(msgs), NEW i \in Server, NEW m, Receive(i, m)
  PROVE  IsFiniteSet(msgs')
<1>1. CASE msgs' = msgs
  BY <1>1
<1>2. CASE \E d : msgs' = msgs \cup {d}
  BY <1>2, FS_AddElement
<1>3. CASE HandleUpdate(i, m)
  <2>1. CASE \E l, body, acks, success : Ends(i, m, l, body, acks, success)
    BY <1>2, <2>1 DEF Ends, Reply
  <2>2. CASE UpdateRefused(i, m)
    BY <1>2, <2>2 DEF UpdateRefused, Reply
  <2>3. CASE UpdateHeartbeat(i, m)
    BY <2>1, <2>3 DEF UpdateHeartbeat
  <2>4. CASE UpdateIgnored(i, m)
    BY <2>1, <2>4 DEF UpdateIgnored
  <2>5. CASE UpdateChunk(i, m)
    <3>1. PICK l, c : UpdatePart(i, m, l, c) \/ UpdateSnapshot(i, m, l, c) \/ UpdateAppend(i, m, l, c)
      BY <2>5 DEF UpdateChunk
    <3>2. CASE \E why : Fail(i, why)
      BY <1>1, <3>2 DEF Fail, vars
    <3>3. CASE UpdatePart(i, m, l, c)
      BY <2>1, <3>3 DEF UpdatePart
    <3>4. CASE UpdateSnapshot(i, m, l, c)
      BY <2>1, <3>2, <3>4 DEF UpdateSnapshot
    <3>5. CASE UpdateAppend(i, m, l, c)
      BY <2>1, <3>2, <3>5 DEF UpdateAppend
    <3> QED BY <3>1, <3>3, <3>4, <3>5
  <2> QED BY <1>3, <2>2, <2>3, <2>4, <2>5 DEF HandleUpdate
<1>4. CASE HandleDone(i, m)
  BY <1>1, <1>2, <1>4 DEF HandleDone, Fail, vars
<1>5. CASE HandleClaim(i, m)
  BY <1>2, <1>5 DEF HandleClaim
<1>6. CASE HandleVote(i, m)
  BY <1>1, <1>6 DEF HandleVote
<1> QED BY <1>3, <1>4, <1>5, <1>6 DEF Receive

LEMMA NextFinite ==
  ASSUME IsFiniteSet(msgs), [NextRaft]_raftVars
  PROVE  IsFiniteSet(msgs')
<1>1. CASE UNCHANGED raftVars
  BY <1>1 DEF raftVars, vars
<1>2. CASE NextRaft
  <2>1. PICK i \in Server :
           \/ TickExpired(i) \/ TickWaiting(i) \/ TickLeader(i) \/ Emit(i) \/ RestartAll(i)
           \/ \E m \in msgs : Receive(i, m)
    BY <1>2 DEF NextRaft
  <2>2. CASE TickExpired(i)
    BY <2>2, ClaimFinite DEF TickExpired, Abort
  <2>3. CASE TickWaiting(i)
    BY <2>3 DEF TickWaiting, vars
  <2>4. CASE TickLeader(i)
    BY <2>4, BeatAllFinite DEF TickLeader, Abort, Fail, vars
  <2>5. CASE Emit(i)
    BY <2>5, BeatAllFinite DEF Emit, Abort, Fail, vars
  <2>6. CASE RestartAll(i)
    BY <2>6 DEF RestartAll, Restart
  <2> QED BY <2>1, <2>2, <2>3, <2>4, <2>5, <2>6, ReceiveFinite
<1> QED BY <1>1, <1>2

LEMMA NextSeen ==
  ASSUME IsFiniteSet(msgs), [NextRaft]_raftVars
  PROVE  [Election!Next]_Election!vars
<1>1. CASE UNCHANGED vars
  BY <1>1, ElectionVars
<1>2. CASE UNCHANGED raftVars
  BY <1>1, <1>2 DEF raftVars
<1>3. CASE NextRaft
  <2>1. PICK i \in Server :
           \/ TickExpired(i) \/ TickWaiting(i) \/ TickLeader(i) \/ Emit(i) \/ RestartAll(i)
           \/ \E m \in msgs : Receive(i, m)
    BY <1>3 DEF NextRaft
  <2>2. CASE TickExpired(i)
    BY <2>2, TickExpiredSeen DEF Election!Next
  <2>3. CASE TickWaiting(i)
    BY <1>1, <2>3 DEF TickWaiting
  <2>4. CASE TickLeader(i)
    BY <1>1, <2>4, TickLeaderSeen DEF Election!Next
  <2>5. CASE Emit(i)
    BY <1>1, <2>5, EmitSeen DEF Election!Next
  <2>6. CASE RestartAll(i)
    BY <2>6, SameEnds DEF RestartAll, Election!Next
  <2>7. CASE \E m \in msgs : Receive(i, m)
    BY <1>1, <2>7, ReceiveSeen
  <2> QED BY <2>1, <2>2, <2>3, <2>4, <2>5, <2>6, <2>7
<1> QED BY <1>2, <1>3

LEMMA SpecFinite == SpecRaft => []IsFiniteSet(msgs)
<1>1. InitRaft => IsFiniteSet(msgs)
  BY FS_EmptySet DEF InitRaft, Init
<1>2. IsFiniteSet(msgs) /\ [NextRaft]_raftVars => IsFiniteSet(msgs)'
  BY NextFinite
<1> QED BY <1>1, <1>2, PTL DEF SpecRaft

\* A server with a log implements RaftElection (raft.cc): the ring of entries,
\* the chunks, compaction and snapshots decide only what RaftElection leaves
\* open, and no step of the log gives a vote, raises a term or makes a leader.
THEOREM RaftIsElection == SpecRaft => IsElection
<1>1. InitRaft => Election!Init
  BY DEF InitRaft, Init, Election!Init, Follower, Election!Follower
<1>2. IsFiniteSet(msgs) /\ [NextRaft]_raftVars => [Election!Next]_Election!vars
  BY NextSeen
<1> QED BY <1>1, <1>2, SpecFinite, PTL DEF SpecRaft, IsElection, Election!Spec

-----------------------------------------------------------------------------
(* What is proved of RaftElection holds of a server with a log.            *)

Proofs == INSTANCE RaftPromiseProofs WITH msgs <- Plains(msgs)

LEMMA SameElection ==
  /\ Election!Init <=> Proofs!Init
  /\ Election!Next <=> Proofs!Next
  /\ Election!vars = Proofs!vars
BY DEF
     Election!Init, Proofs!Init, Election!Next, Proofs!Next, Election!vars, Proofs!vars,
     Election!TickFollower, Proofs!TickFollower, Election!TickCandidate,
     Proofs!TickCandidate, Election!TickLeader, Proofs!TickLeader, Election!Emit,
     Proofs!Emit, Election!Receive, Proofs!Receive, Election!Restart, Proofs!Restart,
     Election!HandleUpdate, Proofs!HandleUpdate, Election!HandleDone, Proofs!HandleDone,
     Election!HandleClaim, Proofs!HandleClaim, Election!HandleVote, Proofs!HandleVote,
     Election!Claim, Proofs!Claim, Election!BeatAll, Proofs!BeatAll, Election!Abort,
     Proofs!Abort, Election!StartElection, Proofs!StartElection, Election!Number,
     Proofs!Number, Election!MayUpdate, Proofs!MayUpdate, Election!MayClaim,
     Proofs!MayClaim, Election!Elections, Proofs!Elections, Election!Packets,
     Proofs!Packets, Election!Packet, Proofs!Packet, Election!Vote, Proofs!Vote,
     Election!Peers, Proofs!Peers, Election!peerNum, Proofs!peerNum, Election!Majority,
     Proofs!Majority, Election!OwnVote, Proofs!OwnVote, Election!StayLeader,
     Proofs!StayLeader, Election!TakeUpdate, Proofs!TakeUpdate, Election!Timely,
     Proofs!Timely, Election!TakeDone,
     Proofs!TakeDone, Election!TakeClaim, Proofs!TakeClaim, Election!TakeVote,
     Proofs!TakeVote, Election!Newer, Proofs!Newer, Election!TermAt, Proofs!TermAt,
     Election!RoleAt, Proofs!RoleAt, Election!VoteAt, Proofs!VoteAt, Election!AdoptTerm,
     Proofs!AdoptTerm, Election!Answers, Proofs!Answers, Election!Takes, Proofs!Takes,
     Election!Grants, Proofs!Grants, Election!Follower, Proofs!Follower, Election!Candidate,
     Proofs!Candidate, Election!Leader, Proofs!Leader, Election!Cardinality,
     Proofs!Cardinality, Election!IsFiniteSet, Proofs!IsFiniteSet, Plains, Plain

LEMMA SpecProved == SpecRaft => Proofs!Spec
<1>1. InitRaft => Proofs!Init
  BY SameElection DEF InitRaft, Init, Election!Init, Follower, Election!Follower
<1>2. IsFiniteSet(msgs) /\ [NextRaft]_raftVars => [Proofs!Next]_Proofs!vars
  <2> SUFFICES ASSUME IsFiniteSet(msgs), [NextRaft]_raftVars PROVE [Proofs!Next]_Proofs!vars
    OBVIOUS
  <2>1. Election!Next \/ UNCHANGED Election!vars
    BY NextSeen
  <2>2. UNCHANGED Election!vars => UNCHANGED Proofs!vars
    BY DEF Election!vars, Proofs!vars, Plains, Plain
  <2> QED BY <2>1, <2>2, SameElection
<1> QED BY <1>1, <1>2, SpecFinite, PTL DEF SpecRaft, Proofs!Spec

\* As long as no process restarts, and for any number of servers, slots of the
\* ring, chunks of a snapshot and writes: no two servers lead one term at one
\* time, and whoever sends entries or a heartbeat of a term was voted for by a
\* majority (handleClaim raft.cc:821, beat raft.cc:196).
THEOREM LogHasOneLeader ==
  ASSUME MaxRestarts = 0
  PROVE  SpecRaft => []Election!OneLeaderPerTerm /\ []Election!UpdatesComeFromWinners
<1>1. Proofs!OneLeaderPerTerm <=> Election!OneLeaderPerTerm
  BY DEF Proofs!OneLeaderPerTerm, Election!OneLeaderPerTerm, Proofs!Leader, Election!Leader
<1>2. Proofs!UpdatesComeFromWinners <=> Election!UpdatesComeFromWinners
  BY DEF Proofs!UpdatesComeFromWinners, Election!UpdatesComeFromWinners,
         Proofs!Peers, Election!Peers, Proofs!GrantedBy, Election!GrantedBy,
         Proofs!GrantsTo, Election!GrantsTo, Proofs!Votes, Election!Votes,
         Proofs!Cardinality, Election!Cardinality, Plains, Plain
<1>3. Proofs!Spec => []Proofs!OneLeaderPerTerm
  BY Proofs!OneLeader, ServerAssumption, BoundsAssumption, PTL
     DEF Proofs!IsFiniteSet, IsFiniteSet
<1>4. Proofs!Spec => []Proofs!UpdatesComeFromWinners
  BY Proofs!WinnersUpdate, ServerAssumption, BoundsAssumption, PTL
     DEF Proofs!IsFiniteSet, IsFiniteSet
<1> QED BY <1>1, <1>2, <1>3, <1>4, SpecProved, PTL

\* A server that is not started again keeps its term, and its vote in a term,
\* whatever happens to its log (setTerm raft.cc:813, handleClaim raft.cc:853).
THEOREM LogKeepsTerms == SpecRaft => Election!TermAndVoteAreStable
<1> DEFINE Stays == restarts' = restarts =>
                       \A i \in Server :
                          /\ term'[i] >= term[i]
                          /\ term'[i] = term[i] /\ voteFor[i] # NOBODY => voteFor'[i] = voteFor[i]
<1>1. Proofs!Spec => [][Stays]_Proofs!vars
  BY Proofs!TermsAndVotesStay, ServerAssumption, BoundsAssumption, PTL
     DEF Proofs!IsFiniteSet, IsFiniteSet, Proofs!TermAndVoteAreStable
<1>2. [Stays]_Proofs!vars => [Stays]_Election!vars
  BY DEF Election!vars, Proofs!vars, Plains, Plain
<1> HIDE DEF Stays
<1>3. SpecRaft => [][Stays]_Election!vars
  BY <1>1, <1>2, SpecProved, PTL
<1> QED BY <1>3 DEF Stays, Election!TermAndVoteAreStable

-----------------------------------------------------------------------------
(* The log under one leader.  If one election is held, nobody restarts and *)
(* the ring has a slot to spare for every write, so that it is never       *)
(* compacted, then b, who holds the election, is the only one that ever    *)
(* sends entries, and every ring is a copy of the front of the ring of b.  *)

OneReign == MaxElections <= 1 /\ MaxRestarts = 0 /\ MaxEmits < LogLen

\* The slots of a ring that has the first n entries of es and no other.
Upto(es, n) == [s \in 0..LogLen-1 |-> IF s < n THEN es[s] ELSE NoEntry]
Ring(n, a, p, es) == [first |-> 0, size |-> n, acked |-> a, applied |-> p,
                      entries |-> Upto(es, n), newentry |-> NoChunks]

\* What an update carries of entry k, which is one chunk.
Part(es, k) ==
    [snapshot |-> FALSE, previndex |-> k - 1,
     prevterm |-> IF k > 0 THEN es[k - 1].term ELSE -1, entryTerm |-> es[k].term,
     totalLen |-> 1, offset |-> 0, chunk |-> [body |-> <<k + 1>>, part |-> 1]]
Carries(entry, es, n) == entry = <<>> \/ \E k \in 0..n-1 : entry = <<Part(es, k)>>

\* Before the election.
Quiet == msgs = {} /\ emitted = 0 /\ \A i \in Server : role[i] = Follower

\* Nobody else leads, and no more election is held.
Reign(b) ==
    /\ role \in [Server -> {Follower, Candidate, Leader}]
    /\ \A i \in Server \ {b} : role[i] = Follower
    /\ Quiet \/ Server = {b} \/ \E m \in msgs : m.type = "claim"

\* The packets are those between b and the others; what an update has of the
\* log is in the log of b, and what an answer has of a log is still there.
Letter(m, b) ==
    /\ m.from \in Server /\ m.to \in Server
    /\ \/ m.type \in {"claim", "update"} /\ m.from = b /\ m.to # b
       \/ m.type \in {"done", "vote"} /\ m.to = b /\ m.from # b
    /\ m.type = "update" =>
          m.acked \in 0..log[b].acked /\ Carries(m.entry, log[b].entries, emitted)
    /\ m.type = "done" => m.entries \in 0..log[m.from].size /\ m.bytes = 0
Letters(b) == \A m \in msgs : Letter(m, b)

\* The first n entries are the first n writes, in whatever terms.
Write(t, u)    == Entry(t, FALSE, Client(u))
Written(es, n) == \A k \in 0..n-1 : es[k] = Write(es[k].term, k + 1)

\* Write k is entry k of b, and the others have the front of its log.
Rings(b) ==
    /\ emitted \in 0..MaxEmits /\ log[b].size = emitted
    /\ log = [i \in Server |-> log[i]]
    /\ \A i \in Server :
          /\ log[i] = Ring(log[i].size, log[i].acked, log[i].applied, log[b].entries)
          /\ log[i].size \in 0..emitted
          /\ log[i].acked \in 0..log[i].size /\ log[i].acked <= log[b].acked
          /\ log[i].applied \in 0..log[i].acked
    /\ Written(log[b].entries, emitted)

\* The nodes with n entries.
Having(n) == {j \in Server : log[j].size >= n}

\* What is believed of a peer is true of it, and what b takes for acknowledged
\* a majority has.
Beliefs(b) ==
    /\ acked \in [Server -> [Server -> [entries : Nat, bytes : {0}]]]
    /\ \A j \in Server : acked[b][j].entries <= log[j].size
    /\ \A i \in Server \ {b}, j \in Server : acked[i][j].entries <= log[i].acked
    /\ log[b].acked = 0 \/ Majority(Cardinality(Having(log[b].acked)))

\* The state machine of each went through the first writes.
Counted(n) == [k \in 1..n |-> k]
Counts == state = [i \in Server |-> Counted(log[i].applied)]

LedBy(b) == Reign(b) /\ Letters(b) /\ Rings(b) /\ Beliefs(b) /\ Counts
LogInv == Server = {} \/ \E b \in Server : LedBy(b)

-----------------------------------------------------------------------------
(* Lemmas about rings and numbers.                                         *)

LEMMA ModSmall ==
  ASSUME NEW n \in Nat, NEW k \in 0..n-1
  PROVE  k % n = k
OBVIOUS

LEMMA TwoNumbers ==
  ASSUME NEW x \in Int, NEW y \in Int
  PROVE  /\ Max({x, y}) = IF x >= y THEN x ELSE y
         /\ Min({x, y}) = IF x <= y THEN x ELSE y
<1>1. \E z \in {x, y} : \A w \in {x, y} : z >= w
  OBVIOUS
<1>2. Max({x, y}) \in {x, y} /\ \A w \in {x, y} : Max({x, y}) >= w
  BY <1>1 DEF Max
<1>3. \E z \in {x, y} : \A w \in {x, y} : z <= w
  OBVIOUS
<1>4. Min({x, y}) \in {x, y} /\ \A w \in {x, y} : Min({x, y}) <= w
  BY <1>3 DEF Min
<1> QED BY <1>2, <1>4

LEMMA ClientIs ==
  ASSUME NEW u
  PROVE  /\ Client(u) # <<>> /\ Len(Client(u)) = 1
         /\ Client(u)[1] = [body |-> <<u>>, part |-> 1] /\ Client(u)[1].body[1] = u
BY DEF Client

LEMMA WriteIs ==
  ASSUME NEW t, NEW u
  PROVE  /\ Write(t, u).term = t /\ Write(t, u).data = Client(u) /\ Write(t, u).bytes = 1
         /\ ~ Write(t, u).snapshot
BY ClientIs DEF Write, Entry

LEMMA RingIs ==
  ASSUME NEW n, NEW a, NEW p, NEW es, NEW l, l = Ring(n, a, p, es)
  PROVE  /\ l.first = 0 /\ l.size = n /\ l.acked = a /\ l.applied = p
         /\ l.entries = Upto(es, n) /\ l.newentry = NoChunks
         /\ l.newentry.data = <<>> /\ l.newentry.term = 0
BY DEF Ring, NoChunks

LEMMA UptoSame ==
  ASSUME NEW es, NEW fs, NEW n \in Nat, \A k \in 0..n-1 : es[k] = fs[k]
  PROVE  Upto(es, n) = Upto(fs, n)
BY DEF Upto

\* The slot of an entry that the ring has.
LEMMA SlotIs ==
  ASSUME NEW n \in Nat, n <= LogLen, NEW a, NEW p, NEW es, NEW l, l = Ring(n, a, p, es),
         NEW k \in 0..n-1
  PROVE  Slot(l, k) = es[k]
<1>1. LogLen \in Nat /\ k \in 0..LogLen-1
  BY LogAssumption
<1>2. k % LogLen = k
  BY <1>1, ModSmall
<1>3. l.entries = Upto(es, n)
  BY RingIs
<1> QED BY <1>1, <1>2, <1>3 DEF Slot, Upto

\* A new entry behind the others, or an entry again.
LEMMA SlotSet ==
  ASSUME NEW n \in Nat, NEW es, NEW k \in 0..n, k < LogLen, NEW fs,
         \A s \in 0..n-1 : s # k => fs[s] = es[s],
         NEW m, m = IF k = n THEN n + 1 ELSE n
  PROVE  [Upto(es, n) EXCEPT ![k % LogLen] = fs[k]] = Upto(fs, m)
<1>1. LogLen \in Nat /\ k \in 0..LogLen-1
  BY LogAssumption
<1>2. k % LogLen = k
  BY <1>1, ModSmall
<1>3. Upto(fs, m) = [s \in 0..LogLen-1 |-> IF s = k THEN fs[k] ELSE Upto(es, n)[s]]
  <2>1. ASSUME NEW s \in 0..LogLen-1, s # k PROVE (s < m <=> s < n) /\ (s < n => fs[s] = es[s])
    BY <2>1
  <2>2. k < m
    OBVIOUS
  <2> QED BY <1>1, <2>1, <2>2 DEF Upto
<1>4. [Upto(es, n) EXCEPT ![k] = fs[k]] =
         [s \in 0..LogLen-1 |-> IF s = k THEN fs[k] ELSE Upto(es, n)[s]]
  BY <1>1 DEF Upto
<1> QED BY <1>2, <1>3, <1>4
\* A set of numbers below a bound has a greatest one.
LEMMA MaxIs ==
  ASSUME NEW S \in SUBSET Nat, S # {}, NEW n \in Nat, \A s \in S : s <= n
  PROVE  Max(S) \in S /\ \A y \in S : y <= Max(S)
<1> DEFINE Above(x) == {y \in S : y > x}
           F == {Above(x) : x \in S}
           R == StrictSubsetOrdering(S)
<1>1. IsFiniteSet(S)
  BY FS_BoundedSetOfNaturals
<1>2. F \subseteq FiniteSubsetsOf(S) /\ F # {}
  <2>1. \A x \in S : Above(x) \in SUBSET S
    OBVIOUS
  <2>2. \A x \in S : IsFiniteSet(Above(x))
    <3> HIDE DEF Above
    <3> QED BY <1>1, <2>1, FS_Subset
  <2> QED BY <2>1, <2>2 DEF FiniteSubsetsOf
<1>3. IsWellFoundedOn(R, FiniteSubsetsOf(S))
  BY FS_StrictSubsetOrderingWellFounded
<1>4. PICK D \in F : \A E \in F : <<E, D>> \notin R
  <2> HIDE DEF F, R
  <2> QED BY <1>2, <1>3, WFMin
<1>5. PICK x \in S : D = Above(x)
  OBVIOUS
<1>6. ASSUME NEW y \in S, y > x PROVE FALSE
  <2>1. Above(y) \in F
    OBVIOUS
  <2>2. x \in Nat /\ y \in Nat
    OBVIOUS
  <2>3. ASSUME NEW z \in Above(y) PROVE z \in Above(x)
    <3>1. z \in S /\ z \in Nat /\ z > y
      OBVIOUS
    <3> QED BY <1>6, <2>2, <3>1
  <2>4. y \in Above(x) /\ y \notin Above(y)
    BY <1>6, <2>2
  <2>5. Above(x) \in SUBSET S /\ Above(y) \in SUBSET S
    OBVIOUS
  <2>6. <<Above(y), Above(x)>> \in R
    <3> HIDE DEF Above
    <3> QED BY <2>3, <2>4, <2>5 DEF StrictSubsetOrdering
  <2> QED BY <2>1, <2>6, <1>4, <1>5
<1>7. \A y \in S : x >= y
  BY <1>6
<1>8. Max(S) \in S /\ \A y \in S : Max(S) >= y
  BY <1>7 DEF Max
<1>9. Max(S) \in Nat
  BY <1>8
<1> QED BY <1>8, <1>9

-----------------------------------------------------------------------------
(* The rings of the others are the front of that of b, after each step.    *)

\* What a step may do to the logs: none loses an entry, and the entries of b
\* stay what they are.
Grows(b) ==
    /\ \A j \in Server : log[j].size \in 0..log'[j].size
    /\ \A j \in Server : log[j].acked <= log'[j].acked /\ log[j].applied <= log'[j].applied
    /\ emitted \in 0..emitted'
    /\ \A k \in 0..emitted-1 : log'[b].entries[k] = log[b].entries[k]

\* The ring of one node, of any node with es for the entries of b.
RingOf(l, n, a, es) ==
    /\ l = Ring(l.size, l.acked, l.applied, es)
    /\ l.size \in 0..n /\ l.acked \in 0..l.size /\ l.acked <= a /\ l.applied \in 0..l.acked

LEMMA RingsAre ==
  ASSUME NEW b \in Server, Rings(b)
  PROVE  /\ emitted \in Nat /\ (OneReign => emitted < LogLen)
         /\ \A i \in Server : RingOf(log[i], emitted, log[b].acked, log[b].entries)
         /\ log[b].size = emitted /\ Written(log[b].entries, emitted)
         /\ log = [i \in Server |-> log[i]]
BY LogAssumption, BoundsAssumption DEF Rings, RingOf, OneReign

\* A node gets the log l, which is a ring of b's entries too.
LEMMA OneRing ==
  ASSUME OneReign, NEW b \in Server, Rings(b), NEW i \in Server, NEW l,
         RingOf(l, emitted, IF i = b THEN l.acked ELSE log[b].acked, log[b].entries),
         log[i].size <= l.size, log[i].acked <= l.acked, log[i].applied <= l.applied,
         log' = [log EXCEPT ![i] = l], emitted' = emitted
  PROVE  Rings(b)' /\ Grows(b)
<1>1. /\ emitted \in 0..MaxEmits /\ emitted \in Nat /\ emitted < LogLen /\ LogLen \in Nat
      /\ log[b].size = emitted /\ log = [j \in Server |-> log[j]]
      /\ \A j \in Server : RingOf(log[j], emitted, log[b].acked, log[b].entries)
      /\ Written(log[b].entries, emitted)
  <2>1. emitted \in 0..MaxEmits
    BY DEF Rings
  <2> QED BY <2>1, RingsAre, LogAssumption
<1>2. log' = [j \in Server |-> IF j = i THEN l ELSE log[j]]
  BY <1>1
<1>3. \A j \in Server : log'[j] = IF j = i THEN l ELSE log[j]
  BY <1>2
<1>4. /\ \A j \in Server : log[j].size \in Nat /\ log[j].acked \in Nat /\ log[j].applied \in Nat
      /\ l.size \in Nat /\ l.acked \in Nat /\ l.applied \in Nat
  BY <1>1 DEF RingOf
<1>5. l.size <= emitted /\ (i = b => l.size = emitted)
  BY <1>1, <1>4 DEF RingOf
<1>6. log'[b].size = emitted /\ log'[b].entries = log[b].entries /\ log[b].acked <= log'[b].acked
  <2>1. CASE i # b
    BY <1>1, <1>3, <1>4, <2>1
  <2>2. CASE i = b
    <3>1. l.entries = Upto(log[b].entries, emitted)
      BY <1>5, <2>2, RingIs DEF RingOf
    <3>2. log[b].entries = Upto(log[b].entries, emitted)
      BY <1>1, RingIs DEF RingOf
    <3> QED BY <1>3, <1>5, <2>2, <3>1, <3>2
  <2> QED BY <2>1, <2>2
<1>7. \A j \in Server : RingOf(log'[j], emitted, log'[b].acked, log'[b].entries)
  <2> TAKE j \in Server
  <2>1. CASE j # i
    <3>1. log[j].acked <= log'[b].acked
      <4>1. log[j].acked <= log[b].acked /\ log'[b].acked \in Nat
        BY <1>1, <1>3, <1>4 DEF RingOf
      <4> QED BY <1>4, <1>6, <4>1
    <3> QED BY <1>1, <1>3, <1>6, <2>1, <3>1 DEF RingOf
  <2>2. CASE j = i /\ i # b
    BY <1>3, <1>6, <2>2 DEF RingOf
  <2>3. CASE j = i /\ i = b
    BY <1>3, <1>4, <1>6, <2>3 DEF RingOf
  <2> QED BY <2>1, <2>2, <2>3
<1>8. Rings(b)'
  <2>1. log' = [j \in Server |-> log'[j]]
    BY <1>2
  <2>2. Written(log'[b].entries, emitted')
    BY <1>1, <1>6
  <2> QED BY <1>1, <1>6, <1>7, <2>1, <2>2 DEF Rings, RingOf
<1>9. Grows(b)
  BY <1>1, <1>3, <1>4, <1>6 DEF Grows
<1> QED BY <1>8, <1>9
\* A log with one more entry.
Longer(l, e) == [l EXCEPT !.entries[(LastIndex(l) + 1) % LogLen] = e, !.size = @ + 1]

LEMMA LongerIs ==
  ASSUME NEW n \in Nat, n < LogLen, NEW a, NEW p, NEW es, NEW e
  PROVE  \E fs : /\ Longer(Ring(n, a, p, es), e) = Ring(n + 1, a, p, fs)
                 /\ fs[n] = e /\ \A k \in 0..n-1 : fs[k] = es[k]
<1>1. PICK fs : fs = [k \in 0..n |-> IF k = n THEN e ELSE es[k]]
  OBVIOUS
<1>2. fs[n] = e /\ \A k \in 0..n-1 : fs[k] = es[k]
  BY <1>1
<1>3. [Upto(es, n) EXCEPT ![n % LogLen] = fs[n]] = Upto(fs, n + 1)
  BY <1>2, SlotSet
<1>4. PICK l : l = Ring(n, a, p, es)
  OBVIOUS
<1>5. LastIndex(l) + 1 = n /\ l.entries = Upto(es, n)
  BY <1>4, RingIs DEF LastIndex
<1>6. Longer(l, e) = [l EXCEPT !.entries = [Upto(es, n) EXCEPT ![n % LogLen] = e], !.size = n + 1]
  <2>1. l.size = n
    BY <1>4, RingIs
  <2> QED BY <1>4, <1>5, <2>1 DEF Longer, Ring
<1>7. Longer(l, e) = [l EXCEPT !.entries = Upto(fs, n + 1), !.size = n + 1]
  BY <1>2, <1>3, <1>6
<1>8. Longer(l, e) = Ring(n + 1, a, p, fs)
  BY <1>4, <1>7 DEF Ring
<1> QED BY <1>2, <1>4, <1>8

\* b writes: its next entry is the write's number.
LEMMA NewEntry ==
  ASSUME OneReign, NEW b \in Server, Rings(b), emitted < MaxEmits, NEW t, NEW l,
         l = Longer(log[b], Write(t, emitted + 1)),
         log' = [log EXCEPT ![b] = l], emitted' = emitted + 1
  PROVE  /\ Rings(b)' /\ Grows(b)
         /\ log'[b].acked = log[b].acked /\ log'[b].applied = log[b].applied
         /\ \A j \in Server \ {b} : log'[j] = log[j]
<1> DEFINE es == log[b].entries
<1>1. /\ emitted \in Nat /\ emitted < LogLen /\ LogLen \in Nat /\ MaxEmits \in Nat
      /\ log[b].size = emitted /\ log = [j \in Server |-> log[j]]
      /\ \A j \in Server : RingOf(log[j], emitted, log[b].acked, es)
      /\ Written(es, emitted) /\ emitted \in 0..MaxEmits
  <2>1. emitted \in 0..MaxEmits
    BY DEF Rings
  <2> QED BY <2>1, RingsAre, LogAssumption
<1>2. PICK fs : /\ l = Ring(emitted + 1, log[b].acked, log[b].applied, fs)
                /\ fs[emitted] = Write(t, emitted + 1)
                /\ \A k \in 0..emitted-1 : fs[k] = es[k]
  <2>1. log[b] = Ring(emitted, log[b].acked, log[b].applied, es)
    BY <1>1 DEF RingOf
  <2> HIDE DEF es
  <2>2. \E fs : /\ Longer(Ring(emitted, log[b].acked, log[b].applied, es),
                           Write(t, emitted + 1))
                       = Ring(emitted + 1, log[b].acked, log[b].applied, fs)
                /\ fs[emitted] = Write(t, emitted + 1)
                /\ \A k \in 0..emitted-1 : fs[k] = es[k]
    BY <1>1, LongerIs
  <2> QED BY <2>1, <2>2
<1>3. Written(fs, emitted + 1)
  <2>1. fs[emitted] = Write(fs[emitted].term, emitted + 1)
    BY <1>2, WriteIs
  <2> QED BY <1>1, <1>2, <2>1 DEF Written
<1> HIDE DEF es
<1>4. \A j \in Server : log'[j] = IF j = b THEN l ELSE log[j]
  BY <1>1
<1>5. /\ l.size = emitted + 1 /\ l.acked = log[b].acked /\ l.applied = log[b].applied
      /\ l.entries = Upto(fs, emitted + 1)
  BY <1>2, RingIs
<1>6. \A k \in 0..emitted : l.entries[k] = fs[k]
  BY <1>1, <1>5 DEF Upto
<1>7. /\ log'[b].size = emitted + 1 /\ log'[b].acked = log[b].acked
      /\ log'[b].applied = log[b].applied /\ log'[b].entries = l.entries
  BY <1>4, <1>5
<1>8. \A j \in Server : RingOf(log'[j], emitted', log'[b].acked, log'[b].entries)
  <2> TAKE j \in Server
  <2>1. RingOf(log[j], emitted, log[b].acked, es)
    BY <1>1
  <2>2. CASE j # b
    <3>1. log'[j] = log[j] /\ log[j].size \in 0..emitted
      BY <1>4, <2>1, <2>2 DEF RingOf
    <3>2. \A k \in 0..log[j].size-1 : es[k] = l.entries[k]
      BY <1>1, <1>2, <1>6, <3>1
    <3>3. Upto(es, log[j].size) = Upto(l.entries, log[j].size)
      BY <1>1, <3>1, <3>2, UptoSame
    <3>4. Ring(log[j].size, log[j].acked, log[j].applied, es)
            = Ring(log[j].size, log[j].acked, log[j].applied, l.entries)
      BY <3>3 DEF Ring
    <3> QED BY <1>1, <1>7, <2>1, <3>1, <3>4 DEF RingOf
  <2>3. CASE j = b
    <3>1. Upto(fs, emitted + 1) = Upto(l.entries, emitted + 1)
      BY <1>1, <1>6, UptoSame
    <3>2. l = Ring(l.size, l.acked, l.applied, l.entries)
      BY <1>2, <1>5, <3>1 DEF Ring
    <3> QED BY <1>1, <1>4, <1>5, <1>7, <2>1, <2>3, <3>2 DEF RingOf
  <2> QED BY <2>2, <2>3
<1>9. Rings(b)'
  <2>1. log' = [j \in Server |-> log'[j]]
    BY <1>1
  <2>2. Written(log'[b].entries, emitted')
    BY <1>1, <1>3, <1>6, <1>7 DEF Written
  <2>3. emitted' \in 0..MaxEmits
    BY <1>1
  <2> QED BY <1>1, <1>7, <1>8, <2>1, <2>2, <2>3 DEF Rings, RingOf
<1>10. Grows(b)
  <2>1. \A j \in Server : log[j].size \in Nat /\ log[j].acked \in Nat /\ log[j].applied \in Nat
    BY <1>1 DEF RingOf
  <2>2. \A k \in 0..emitted-1 : log'[b].entries[k] = log[b].entries[k]
    BY <1>1, <1>2, <1>6, <1>7 DEF es
  <2>3. \A j \in Server : /\ log[j].size \in 0..log'[j].size
                          /\ log[j].acked <= log'[j].acked /\ log[j].applied <= log'[j].applied
    BY <1>1, <1>4, <1>5, <2>1
  <2> QED BY <1>1, <2>2, <2>3 DEF Grows
<1> QED BY <1>4, <1>7, <1>9, <1>10

-----------------------------------------------------------------------------
(* apply, refreshAcked                                                     *)

LEMMA CountOn ==
  ASSUME NEW p \in Nat, NEW a \in Nat, p <= a
  PROVE  Counted(p) \o [k \in 1..a - p |-> p + k] = Counted(a)
<1>1. /\ [k \in 1..p |-> k] \in Seq(Nat) /\ Len([k \in 1..p |-> k]) = p
      /\ [k \in 1..a - p |-> p + k] \in Seq(Nat) /\ Len([k \in 1..a - p |-> p + k]) = a - p
  OBVIOUS
<1> QED BY <1>1 DEF Counted

LEMMA ApplyIs ==
  ASSUME NEW i \in Server, NEW n \in Nat, n <= LogLen, NEW a \in 0..n, NEW p \in 0..a, NEW es,
         NEW l, l = Ring(n, a, p, es), state[i] = Counted(p),
         Written(es, n), Apply(i, l)
  PROVE  /\ log' = [log EXCEPT ![i] = Ring(n, a, a, es)]
         /\ state' = [state EXCEPT ![i] = Counted(a)]
<1>1. /\ l.first = 0 /\ l.size = n /\ l.acked = a /\ l.applied = p
  BY RingIs
<1>2. ToApply(l) = p .. a - 1
  <2>1. LastIndex(l) + 1 = n
    BY <1>1 DEF LastIndex
  <2>2. Min({a, n}) = a
    BY TwoNumbers
  <2> QED BY <1>1, <2>1, <2>2 DEF ToApply
<1>3. Cardinality(ToApply(l)) = a - p
  <2>1. Cardinality(p .. a - 1) = IF p > a - 1 THEN 0 ELSE (a - 1) - p + 1
    BY FS_Interval
  <2> QED BY <1>2, <2>1
<1>4. [l EXCEPT !.applied = @ + Cardinality(ToApply(l))] = Ring(n, a, a, es)
  BY <1>1, <1>3 DEF Ring
<1>5. ASSUME NEW k \in 1..a - p PROVE Effect(Slot(l, l.applied + k - 1)) = p + k
  <2>1. PICK s \in 0..n-1 : s = p + k - 1
    OBVIOUS
  <2>2. Slot(l, s) = Write(es[s].term, s + 1)
    BY SlotIs DEF Written
  <2>3. Slot(l, s).data = Client(p + k)
    BY <2>1, <2>2, WriteIs
  <2>4. PICK e : e = Slot(l, s)
    OBVIOUS
  <2>5. Effect(e) = p + k
    BY <2>3, <2>4, ClientIs DEF Effect
  <2> QED BY <1>1, <2>1, <2>4, <2>5
<1>6. [k \in 1..Cardinality(ToApply(l)) |-> Effect(Slot(l, l.applied + k - 1))]
        = [k \in 1..a - p |-> p + k]
  BY <1>3, <1>5
<1>7. state' = [state EXCEPT ![i] = Counted(p) \o [k \in 1..a - p |-> p + k]]
  <2>1. state' = [state EXCEPT ![i] = @ \o
             [k \in 1..Cardinality(ToApply(l)) |-> Effect(Slot(l, l.applied + k - 1))]]
    BY Zenon DEF Apply
  <2> QED BY <1>6, <2>1
<1>8. log' = [log EXCEPT ![i] = [l EXCEPT !.applied = @ + Cardinality(ToApply(l))]]
  BY Zenon DEF Apply
<1>9. Counted(p) \o [k \in 1..a - p |-> p + k] = Counted(a)
  <2>1. p \in Nat /\ a \in Nat /\ p <= a
    OBVIOUS
  <2> QED BY <2>1, CountOn, Zenon
<1> QED BY <1>4, <1>7, <1>8, <1>9

LEMMA MoreIsMajority ==
  ASSUME NEW m \in Nat, NEW n \in Nat, m <= n, Majority(m)
  PROVE  Majority(n)
<1>1. peerNum \in Nat
  BY ServerAssumption, FS_CardinalityType DEF peerNum
<1> QED BY <1>1 DEF Majority

\* What a node takes for acknowledged after refreshAcked: b, the believed size
\* of a log that a majority has; the others, what they did before.
LEMMA RefreshAckedIs ==
  ASSUME OneReign, NEW b \in Server, Rings(b), Beliefs(b), NEW i \in Server
  PROVE  \E a \in log[i].acked..log[i].size :
            /\ RefreshAcked(log[i], i) = Ring(log[i].size, a, log[i].applied, log[b].entries)
            /\ i # b => a = log[i].acked
            /\ a = log[i].acked \/ Majority(Cardinality(Having(a)))
<1> DEFINE T == {n \in {acked[i][j].entries : j \in Peers(i)} : Replicated(i, n)}
           S == {log[i].acked} \cup T
<1>1. /\ log[i] = Ring(log[i].size, log[i].acked, log[i].applied, log[b].entries)
      /\ log[i].size \in Nat /\ log[i].acked \in 0..log[i].size /\ log[i].acked \in Nat
      /\ emitted \in Nat /\ log[i].size <= emitted /\ log[b].size = emitted
      /\ \A j \in Server : log[j].size \in Nat /\ log[j].size <= emitted
  BY RingsAre DEF RingOf
<1>2. ASSUME NEW a, Max(S) = a
      PROVE  RefreshAcked(log[i], i) = Ring(log[i].size, a, log[i].applied, log[b].entries)
  <2>1. RefreshAcked(log[i], i) = [log[i] EXCEPT !.acked = Max(S)]
    BY DEF RefreshAcked
  <2> HIDE DEF S, T
  <2> QED BY <1>1, <1>2, <2>1 DEF Ring
<1>3. \A j \in Server : /\ acked[i][j].entries \in Nat
                        /\ i # b => acked[i][j].entries <= log[i].acked
                        /\ i = b => acked[i][j].entries <= log[j].size
  <2>1. acked[i] \in [Server -> [entries : Nat, bytes : {0}]]
    BY DEF Beliefs
  <2> QED BY <2>1 DEF Beliefs
<1>4. ASSUME NEW n \in T PROVE \E j \in Peers(i) : n = acked[i][j].entries /\ Replicated(i, n)
  OBVIOUS
<1>5. CASE i # b
  <2>1. T = {}
    <3> SUFFICES ASSUME NEW n \in T PROVE FALSE
      OBVIOUS
    <3>1. PICK j \in Peers(i) : n = acked[i][j].entries /\ Replicated(i, n)
      BY <1>4
    <3>2. n > log[i].acked /\ j \in Server
      BY <3>1 DEF Replicated, Peers
    <3> QED BY <1>1, <1>3, <1>5, <3>1, <3>2
  <2>2. S = {log[i].acked, log[i].acked}
    BY <2>1
  <2>3. Max(S) = log[i].acked
    <3>1. log[i].acked \in Int
      BY <1>1
    <3> HIDE DEF S, T
    <3> QED BY <2>2, <3>1, TwoNumbers
  <2> HIDE DEF S, T
  <2> QED BY <1>1, <1>2, <1>5, <2>3
<1>6. CASE i = b
  <2>1. ASSUME NEW n \in S PROVE n \in Nat /\ n <= emitted /\ log[i].acked \in S
    <3>1. CASE n = log[i].acked
      BY <1>1, <3>1
    <3>2. CASE n \in T
      <4>1. PICK j \in Peers(i) : n = acked[i][j].entries
        BY <1>4, <3>2
      <4>2. j \in Server
        BY DEF Peers
      <4> QED BY <1>1, <1>3, <1>6, <4>1, <4>2
    <3> QED BY <3>1, <3>2
  <2>2. log[i].acked \in S
    OBVIOUS
  <2>3. PICK m : m = Max(S)
    OBVIOUS
  <2>4. m \in S /\ log[i].acked <= m /\ m \in Nat /\ m <= emitted
    <3> HIDE DEF S
    <3>1. S \in SUBSET Nat /\ S # {} /\ \A n \in S : n <= emitted
      BY <2>1, <2>2
    <3>2. Max(S) \in S /\ \A n \in S : n <= Max(S)
      BY <1>1, <3>1, MaxIs
    <3> QED BY <2>1, <2>2, <2>3, <3>2
  <2>5. m = log[i].acked \/ Majority(Cardinality(Having(m)))
    <3> SUFFICES ASSUME m \in T PROVE Majority(Cardinality(Having(m)))
      BY <2>4
    <3> DEFINE A == {j \in Peers(i) : acked[i][j].entries >= m}
    <3>1. Majority(1 + Cardinality(A))
      BY <1>4 DEF Replicated
    <3>2. A \in SUBSET Server /\ i \notin A
      BY DEF Peers
    <3>3. ASSUME NEW j \in A \cup {i} PROVE j \in Having(m)
      <4>1. j \in Server /\ log[j].size \in Nat /\ acked[i][j].entries \in Nat
        BY <1>1, <1>3, <3>2
      <4>2. CASE j = i
        BY <1>1, <1>6, <2>4, <4>1, <4>2 DEF Having
      <4>3. CASE j \in A
        BY <1>3, <1>6, <2>4, <4>1, <4>3 DEF Having
      <4> QED BY <4>2, <4>3
    <3> HIDE DEF A
    <3>4. IsFiniteSet(A) /\ IsFiniteSet(Having(m)) /\ Having(m) \in SUBSET Server
      <4>1. Having(m) \in SUBSET Server
        BY DEF Having
      <4> QED BY <3>2, <4>1, FS_Subset, ServerAssumption
    <3>5. Cardinality(A \cup {i}) = Cardinality(A) + 1 /\ Cardinality(A) \in Nat
      BY <3>2, <3>4, FS_AddElement, FS_CardinalityType
    <3>6. Cardinality(A \cup {i}) <= Cardinality(Having(m)) /\ Cardinality(Having(m)) \in Nat
      <4>1. A \cup {i} \in SUBSET Having(m)
        BY <3>3
      <4> QED BY <3>4, <4>1, FS_Subset, FS_CardinalityType
    <3> QED BY <3>1, <3>5, <3>6, MoreIsMajority
  <2> HIDE DEF S, T
  <2> QED BY <1>1, <1>2, <1>6, <2>3, <2>4, <2>5
<1> QED BY <1>5, <1>6

LEMMA SameLogs ==
  ASSUME NEW b \in Server, Rings(b), Beliefs(b), Counts,
         UNCHANGED <<log, acked, state, emitted>>
  PROVE  Rings(b)' /\ Beliefs(b)' /\ Counts' /\ Grows(b)
<1>1. Rings(b)' /\ Beliefs(b)' /\ Counts'
  BY DEF Rings, Beliefs, Counts, Having
<1>2. Grows(b)
  <2>1. \A j \in Server : log[j].size \in Nat /\ log[j].acked \in Nat /\ log[j].applied \in Nat
    BY RingsAre DEF RingOf
  <2> QED BY <2>1, RingsAre DEF Grows
<1> QED BY <1>1, <1>2

LEMMA RefreshStep ==
  ASSUME OneReign, NEW b \in Server, Rings(b), Beliefs(b), Counts, NEW i \in Server, Refresh(i)
  PROVE  Rings(b)' /\ Beliefs(b)' /\ Counts' /\ Grows(b)
<1>1. PICK l : l = RefreshAcked(log[i], i)
  OBVIOUS
<1>2. /\ UNCHANGED <<acked, emitted>>
      /\ Apply(i, l) \/ UNCHANGED <<log, state>>
  BY <1>1 DEF Refresh
<1>3. CASE UNCHANGED <<log, state>>
  BY <1>2, <1>3, SameLogs
<1>4. CASE Apply(i, l)
  <2>1. PICK a \in log[i].acked..log[i].size :
            /\ l = Ring(log[i].size, a, log[i].applied, log[b].entries)
            /\ i # b => a = log[i].acked
            /\ a = log[i].acked \/ Majority(Cardinality(Having(a)))
    BY <1>1, RefreshAckedIs
  <2>2. PICK n, p, es :
            /\ n \in Nat /\ p \in 0..a
            /\ n = log[i].size /\ p = log[i].applied /\ es = log[b].entries
            /\ n <= LogLen /\ a \in 0..n /\ n <= emitted /\ Written(es, n) /\ log[i].acked \in 0..a
            /\ p <= log[i].acked
    <3>1. /\ emitted \in Nat /\ emitted < LogLen /\ LogLen \in Nat
          /\ RingOf(log[i], emitted, log[b].acked, log[b].entries)
          /\ Written(log[b].entries, emitted)
      BY RingsAre, LogAssumption
    <3>2. /\ log[i].size \in Nat /\ log[i].size <= LogLen /\ a \in 0..log[i].size
          /\ log[i].size <= emitted /\ log[i].acked \in 0..a /\ log[i].applied \in 0..a
          /\ log[i].applied <= log[i].acked
      BY <3>1 DEF RingOf
    <3>3. Written(log[b].entries, log[i].size)
      BY <3>1, <3>2 DEF Written
    <3> QED BY <3>2, <3>3
  <2>3. state[i] = Counted(p)
    BY <2>2 DEF Counts
  <2>4. log' = [log EXCEPT ![i] = Ring(n, a, a, es)] /\ state' = [state EXCEPT ![i] = Counted(a)]
    BY <1>4, <2>1, <2>2, <2>3, ApplyIs
  <2>5. PICK r : r = Ring(n, a, a, es) /\ r.size = n /\ r.acked = a /\ r.applied = a
    BY RingIs
  <2>6. RingOf(r, emitted, IF i = b THEN r.acked ELSE log[b].acked, log[b].entries)
    <3>1. a <= (IF i = b THEN a ELSE log[b].acked)
      <4>1. log[i].acked <= log[b].acked /\ a \in Nat
        BY <2>2, RingsAre DEF RingOf
      <4> QED BY <2>1, <4>1
    <3> QED BY <2>2, <2>5, <3>1, RingsAre DEF RingOf
  <2>7. log[i].size <= r.size /\ log[i].acked <= r.acked /\ log[i].applied <= r.applied
    BY <2>2, <2>5
  <2>8. Rings(b)' /\ Grows(b)
    BY <1>2, <2>4, <2>5, <2>6, <2>7, OneRing
  <2>9. log' = [j \in Server |-> IF j = i THEN r ELSE log[j]]
    BY <2>4, <2>5, RingsAre
  <2>10. Counts'
    BY <2>4, <2>5, <2>9 DEF Counts
  <2>11. Beliefs(b)'
    <3>1. \A j \in Server : log'[j].size = log[j].size
      BY <2>2, <2>5, <2>9
    <3>2. Having(log[b].acked)' = {j \in Server : log'[j].size >= log'[b].acked}
      BY DEF Having
    <3>3. Having(log[b].acked)' = Having(log'[b].acked)
      BY <3>1, <3>2 DEF Having
    <3>4. ASSUME NEW j \in Server, NEW k \in Server, j # b PROVE acked'[j][k].entries <= log'[j].acked
      <4>1. acked[j] \in [Server -> [entries : Nat, bytes : {0}]]
        BY DEF Beliefs
      <4>2. acked[j][k].entries \in Nat /\ acked[j][k].entries <= log[j].acked
        BY <3>4, <4>1 DEF Beliefs
      <4>3. log[j].acked \in Nat /\ (j = i => a = log[j].acked)
        BY <2>1, <3>4, RingsAre DEF RingOf
      <4> QED BY <1>2, <2>5, <2>9, <4>2, <4>3
    <3>5. log'[b].acked = 0 \/ Majority(Cardinality(Having(log'[b].acked)))
      <4>1. CASE log'[b].acked = log[b].acked
        BY <4>1 DEF Beliefs
      <4>2. CASE log'[b].acked # log[b].acked
        BY <2>1, <2>5, <2>9, <4>2
      <4> QED BY <4>1, <4>2
    <3>6. (log[b].acked = 0 \/ Majority(Cardinality(Having(log[b].acked))))'
      BY <3>3, <3>5 DEF Majority, peerNum
    <3>7. \A j \in Server : acked'[b][j].entries <= log'[j].size
      BY <1>2, <3>1 DEF Beliefs
    <3> QED BY <1>2, <3>4, <3>6, <3>7 DEF Beliefs
  <2> QED BY <2>8, <2>10, <2>11
<1> QED BY <1>2, <1>3, <1>4

-----------------------------------------------------------------------------
(* handleUpdate                                                            *)

LEMMA PartIs ==
  ASSUME NEW es, NEW k \in Int, NEW c, c = Part(es, k)
  PROVE  /\ ~ c.snapshot /\ c.previndex = k - 1 /\ c.entryTerm = es[k].term
         /\ c.totalLen = 1 /\ c.offset = 0
BY DEF Part

LEMMA NothingBefore == \A x : Append(SubSeq(<<>>, 1, 0), x) = <<x>>
<1>1. SubSeq(<<>>, 1, 0) = <<>>
  OBVIOUS
<1>2. ASSUME NEW x PROVE Append(<<>>, x) = <<x>>
  OBVIOUS
<1> QED BY <1>1, <1>2

\* A chunk of one write completes an entry.
LEMMA ReceivedIs ==
  ASSUME NEW es, NEW k, NEW c, c = Part(es, k), NEW l, l.newentry = NoChunks
  PROVE  /\ Received(l, c).data = Client(k + 1) /\ Len(Received(l, c).data) = c.totalLen
         /\ ~ OtherTerm(l, c) /\ ~ Gap(l, c)
<1>1. /\ c.offset = 0 /\ c.totalLen = 1 /\ c.chunk = [body |-> <<k + 1>>, part |-> 1]
      /\ l.newentry.data = <<>>
  BY DEF Part, NoChunks
<1>2. Append(SubSeq(<<>>, 1, 0), c.chunk) = <<c.chunk>>
  BY NothingBefore
<1>3. Received(l, c).data = <<c.chunk>>
  BY <1>1, <1>2 DEF Received
<1>4. Received(l, c).data = Client(k + 1)
  BY <1>1, <1>3 DEF Client
<1>5. ~ OtherTerm(l, c) /\ ~ Gap(l, c)
  BY <1>1 DEF OtherTerm, Gap
<1> QED BY <1>1, <1>4, <1>5, ClientIs

\* An entry of b, put behind the last one or again into its slot.
LEMMA PlaceIs ==
  ASSUME NEW n \in Nat, n < LogLen, NEW a, NEW p, NEW es, NEW l, l = Ring(n, a, p, es),
         NEW k \in 0..n, Written(es, k + 1), NEW c, c = Part(es, k)
  PROVE  Place(l, c) = Ring(IF k = n THEN n + 1 ELSE n, a, p, es)
<1>1. c.previndex + 1 = k /\ c.entryTerm = es[k].term
  <2>1. c.previndex = k - 1 /\ c.entryTerm = es[k].term
    BY DEF Part
  <2> QED BY <2>1
<1>2. /\ l.first = 0 /\ l.size = n /\ l.acked = a /\ l.applied = p /\ LastIndex(l) = n - 1
      /\ l.entries = Upto(es, n) /\ l.newentry = NoChunks
  BY RingIs DEF LastIndex
<1>3. Entry(c.entryTerm, FALSE, Received(l, c).data) = es[k]
  <2>1. es[k] = Write(es[k].term, k + 1)
    BY DEF Written
  <2>2. Received(l, c).data = Client(k + 1)
    BY <1>2, ReceivedIs
  <2> QED BY <1>1, <2>1, <2>2 DEF Write, Entry
<1>4. PICK s : s = IF k = n THEN n + 1 ELSE n
  OBVIOUS
<1>5. [l.entries EXCEPT ![k % LogLen] = es[k]] = Upto(es, s)
  <2>1. k < LogLen /\ \A x \in 0..n-1 : x # k => es[x] = es[x]
    BY LogAssumption
  <2> QED BY <1>2, <1>4, <2>1, SlotSet
<1>6. (IF k > LastIndex(l) THEN l.size + 1
       ELSE IF Slot(l, k).term # c.entryTerm THEN k - l.first ELSE l.size) = s
  <2>1. CASE k = n
    BY <1>2, <1>4, <2>1
  <2>2. CASE k # n
    <3>1. k \in 0..n-1 /\ n <= LogLen
      BY <2>2, LogAssumption
    <3>2. Slot(l, k) = es[k]
      BY <3>1, SlotIs
    <3> QED BY <1>1, <1>2, <1>4, <2>2, <3>2
  <2> QED BY <2>1, <2>2
<1>7. Place(l, c) = [l EXCEPT !.size = s, !.entries = [l.entries EXCEPT ![k % LogLen] = es[k]],
                              !.newentry = NoChunks]
  <2> DEFINE e == Entry(c.entryTerm, FALSE, Received(l, c).data)
  <2>1. Place(l, c) =
          [l EXCEPT !.size = IF k > LastIndex(l) THEN @ + 1
                             ELSE IF Slot(l, k).term # c.entryTerm THEN k - l.first ELSE @,
                    !.entries[k % LogLen] = e, !.newentry = NoChunks]
    BY <1>1, Zenon DEF Place
  <2>2. e = es[k]
    BY <1>3
  <2> HIDE DEF e
  <2>3. PICK z : z = IF k > LastIndex(l) THEN l.size + 1
                     ELSE IF Slot(l, k).term # c.entryTerm THEN k - l.first ELSE l.size
    OBVIOUS
  <2>4. Place(l, c) = [l EXCEPT !.size = z, !.entries[k % LogLen] = e, !.newentry = NoChunks]
    BY <2>1, <2>3
  <2>5. z = s
    BY <1>6, <2>3
  <2> QED BY <2>2, <2>4, <2>5 DEF Ring
<1>8. Place(l, c) = [l EXCEPT !.size = s, !.entries = Upto(es, s), !.newentry = NoChunks]
  BY <1>5, <1>7
<1> QED BY <1>4, <1>8 DEF Ring

\* What a follower takes over of what b has for acknowledged.
LEMMA LearnAckedIs ==
  ASSUME OneReign, NEW b \in Server, Rings(b), NEW i \in Server,
         NEW m, m.acked \in 0..log[b].acked
  PROVE  \E a \in log[i].acked..log[i].size :
            /\ a <= log[b].acked
            /\ LearnAcked(i, m) = Ring(log[i].size, a, log[i].applied, log[b].entries)
<1>1. /\ log[i] = Ring(log[i].size, log[i].acked, log[i].applied, log[b].entries)
      /\ log[i].size \in Nat /\ log[i].acked \in 0..log[i].size /\ log[i].acked \in Nat
      /\ log[i].acked <= log[b].acked /\ log[b].acked \in Nat
  BY RingsAre DEF RingOf
<1>2. CASE ~ Learns(i, m)
  BY <1>1, <1>2 DEF LearnAcked
<1>3. CASE Learns(i, m)
  <2>1. log[i].first = 0
    BY <1>1, RingIs
  <2>2. PICK a : a = Min({log[i].first + log[i].size, m.acked})
    OBVIOUS
  <2>3. a = IF log[i].size <= m.acked THEN log[i].size ELSE m.acked
    <3>1. m.acked \in Int /\ log[i].size \in Int /\ log[i].first + log[i].size = log[i].size
      BY <1>1, <2>1
    <3> QED BY <2>2, <3>1, TwoNumbers
  <2>4. m.acked > log[i].acked
    BY <1>3 DEF Learns
  <2>5. LearnAcked(i, m) = [log[i] EXCEPT !.acked = a]
    BY <1>3, <2>2 DEF LearnAcked
  <2>6. LearnAcked(i, m) = Ring(log[i].size, a, log[i].applied, log[b].entries)
    BY <1>1, <2>5 DEF Ring
  <2> QED BY <1>1, <2>3, <2>4, <2>6
<1> QED BY <1>2, <1>3

\* What a majority has stays with a majority.
LEMMA MajorityStays ==
  ASSUME OneReign, NEW b \in Server, Rings(b), Beliefs(b), Grows(b), Rings(b)',
         log'[b].acked = log[b].acked
  PROVE  (log[b].acked = 0 \/ Majority(Cardinality(Having(log[b].acked))))'
<1>1. CASE log[b].acked = 0
  BY <1>1
<1>2. CASE Majority(Cardinality(Having(log[b].acked)))
  <2> DEFINE H == Having(log[b].acked)
             J == {j \in Server : log'[j].size >= log[b].acked}
  <2>1. H \in SUBSET J /\ J \in SUBSET Server
    <3>1. ASSUME NEW j \in Server, log[j].size >= log[b].acked
          PROVE  log'[j].size >= log[b].acked
      <4>1. log[j].size \in Nat /\ log[b].acked \in Nat /\ log[j].size \in 0..log'[j].size
        BY RingsAre DEF RingOf, Grows
      <4>2. log'[j].size \in 0..emitted' /\ emitted' \in 0..MaxEmits
        BY DEF Rings
      <4> QED BY <3>1, <4>1, <4>2
    <3> QED BY <3>1 DEF Having
  <2>2. H' = J
    BY DEF Having
  <2> HIDE DEF H, J
  <2>3. /\ IsFiniteSet(J) /\ IsFiniteSet(H)
        /\ Cardinality(H) \in Nat /\ Cardinality(J) \in Nat /\ Cardinality(H) <= Cardinality(J)
    BY <2>1, ServerAssumption, FS_Subset, FS_CardinalityType
  <2>4. Majority(Cardinality(J))
    BY <1>2, <2>3, MoreIsMajority DEF H
  <2> QED BY <2>2, <2>4 DEF Majority, peerNum, H
<1> QED BY <1>1, <1>2 DEF Beliefs

\* An answer that says how much of the log of b its sender i has after the step.
AnswerOf(d, i, b) ==
    /\ d.type = "done" /\ d.from = i /\ d.to = b
    /\ d.entries \in 0..log'[i].size /\ d.bytes = 0

LEMMA EndsIs ==
  ASSUME NEW i, NEW m, NEW l, NEW body, NEW acks, NEW success, Ends(i, m, l, body, acks, success)
  PROVE  /\ \E fits : TakeUpdate(i, m, fits)
         /\ log' = [log EXCEPT ![i] = l] /\ state' = [state EXCEPT ![i] = body]
         /\ acked' = [acked EXCEPT ![i] =
                         [acks EXCEPT ![m.from] =
                             IF Learns(i, m)
                             THEN [entries |-> LearnAcked(i, m).acked, bytes |-> 0] ELSE @]]
         /\ Reply(i, m, l, success) /\ emitted' = emitted
<1>1. \E fits : TakeUpdate(i, m, fits)
  BY Zenon DEF Ends
<1> QED BY <1>1, Zenon DEF Ends

LEMMA ReplyIs ==
  ASSUME NEW i, NEW b, NEW m, m.from = b, NEW l, NEW success, Reply(i, m, l, success),
         NEW n \in Nat, n <= log'[i].size, LastIndex(l) + 1 = n, l.newentry = NoChunks
  PROVE  \E d : msgs' = msgs \cup {d} /\ AnswerOf(d, i, b)
<1>1. PICK d : d = [type |-> "done", curterm |-> TermAt(i, m), from |-> i, to |-> m.from,
                    sequence |-> m.sequence, success |-> success,
                    entries |-> LastIndex(l) + 1, bytes |-> Len(l.newentry.data)]
  OBVIOUS
<1>2. msgs' = msgs \cup {d}
  BY <1>1, Zenon DEF Reply
<1>3. /\ d.type = "done" /\ d.from = i /\ d.to = m.from
      /\ d.entries = LastIndex(l) + 1 /\ d.bytes = Len(l.newentry.data)
  BY <1>1, Zenon
<1>4. l.newentry.data = <<>>
  BY DEF NoChunks
<1>5. AnswerOf(d, i, b)
  <2>1. d.bytes = 0
    BY <1>3, <1>4
  <2> QED BY <1>3, <2>1 DEF AnswerOf
<1> QED BY <1>2, <1>5

\* A follower that takes a heartbeat or an entry of b.
LEMMA EndsStep ==
  ASSUME OneReign, NEW b \in Server, Rings(b), Beliefs(b), Counts, NEW i \in Server \ {b},
         NEW m, m.from = b, NEW n \in log[i].size..emitted,
         NEW a \in log[i].acked..log[i].size, a <= log[b].acked, LearnAcked(i, m).acked = a,
         NEW l, l = Ring(n, a, log[i].applied, log[b].entries),
         NEW success, Ends(i, m, l, state[i], acked[i], success)
  PROVE  /\ Rings(b)' /\ Beliefs(b)' /\ Counts' /\ Grows(b)
         /\ \E fits : TakeUpdate(i, m, fits)
         /\ \E d : msgs' = msgs \cup {d} /\ AnswerOf(d, i, b)
<1>1. /\ \E fits : TakeUpdate(i, m, fits)
      /\ log' = [log EXCEPT ![i] = l] /\ state' = [state EXCEPT ![i] = state[i]]
      /\ acked' = [acked EXCEPT ![i] =
                         [acked[i] EXCEPT ![m.from] =
                             IF Learns(i, m)
                             THEN [entries |-> LearnAcked(i, m).acked, bytes |-> 0] ELSE @]]
      /\ Reply(i, m, l, success) /\ emitted' = emitted
  BY ONLY EndsIs, Ends(i, m, l, state[i], acked[i], success)
<1>2. /\ RingOf(log[i], emitted, log[b].acked, log[b].entries) /\ emitted \in Nat
      /\ log = [j \in Server |-> log[j]] /\ i # b
      /\ log[i].size \in Nat /\ log[i].acked \in Nat /\ log[i].applied \in 0..log[i].acked
      /\ log[b].acked \in Nat
  BY RingsAre DEF RingOf
<1>3. /\ l.size = n /\ l.acked = a /\ l.applied = log[i].applied /\ l.newentry = NoChunks
      /\ LastIndex(l) + 1 = n
  <2>1. l.first = 0 /\ l.size = n
    BY RingIs
  <2> QED BY <1>2, <2>1, RingIs DEF LastIndex
<1>4. Rings(b)' /\ Grows(b)
  <2>1. RingOf(l, emitted, IF i = b THEN l.acked ELSE log[b].acked, log[b].entries)
    BY <1>2, <1>3 DEF RingOf
  <2>2. log[i].size <= l.size /\ log[i].acked <= l.acked /\ log[i].applied <= l.applied
    BY <1>2, <1>3
  <2> QED BY <1>1, <2>1, <2>2, OneRing
<1>5. log' = [j \in Server |-> IF j = i THEN l ELSE log[j]]
  BY <1>1, <1>2
<1>6. Counts'
  <2>1. \A j \in Server : log'[j].applied = log[j].applied
    BY <1>3, <1>5
  <2>2. state' = state
    BY <1>1 DEF Counts
  <2> QED BY <2>1, <2>2 DEF Counts
<1>7. Beliefs(b)'
  <2>1. acked \in [Server -> [Server -> [entries : Nat, bytes : {0}]]]
    BY DEF Beliefs
  <2>2. PICK x : x = IF Learns(i, m) THEN [entries |-> a, bytes |-> 0] ELSE acked[i][b]
    OBVIOUS
  <2>3. x \in [entries : Nat, bytes : {0}] /\ x.entries <= a
    <3>1. acked[i][b] \in [entries : Nat, bytes : {0}] /\ acked[i][b].entries <= log[i].acked
      BY <2>1 DEF Beliefs
    <3>2. acked[i][b].entries \in Nat
      BY <3>1
    <3> QED BY <1>2, <2>2, <3>1, <3>2
  <2>4. acked' = [acked EXCEPT ![i] = [acked[i] EXCEPT ![b] = x]]
    BY <1>1, <2>1, <2>2
  <2>5. acked' \in [Server -> [Server -> [entries : Nat, bytes : {0}]]]
    BY <2>1, <2>3, <2>4
  <2>6. ASSUME NEW j \in Server PROVE acked'[b][j].entries <= log'[j].size
    <3>1. acked'[b][j] = acked[b][j] /\ acked[b][j].entries \in Nat
      BY <1>2, <2>1, <2>4
    <3>2. acked[b][j].entries <= log[j].size /\ log[j].size \in Nat
      BY RingsAre DEF Beliefs, RingOf
    <3> QED BY <1>2, <1>3, <1>5, <3>1, <3>2
  <2>7. ASSUME NEW j \in Server \ {b}, NEW k \in Server PROVE acked'[j][k].entries <= log'[j].acked
    <3>1. acked[j][k].entries \in Nat /\ acked[j][k].entries <= log[j].acked /\ log[j].acked \in Nat
      <4>1. acked[j][k] \in [entries : Nat, bytes : {0}]
        BY <2>1
      <4> QED BY <4>1, RingsAre DEF Beliefs, RingOf
    <3>2. CASE j # i
      BY <1>5, <2>1, <2>4, <3>1, <3>2
    <3>3. CASE j = i /\ k # b
      <4>1. acked'[j][k] = acked[j][k] /\ log'[j].acked = a /\ log[j].acked <= a
        BY <1>2, <1>3, <1>5, <2>1, <2>4, <3>3
      <4> QED BY <1>2, <3>1, <4>1
    <3>4. CASE j = i /\ k = b
      BY <1>3, <1>5, <2>1, <2>3, <2>4, <3>4
    <3> QED BY <3>2, <3>3, <3>4
  <2>8. log'[b].acked = log[b].acked
    BY <1>2, <1>5
  <2>9. (log[b].acked = 0 \/ Majority(Cardinality(Having(log[b].acked))))'
    BY <1>4, <2>8, MajorityStays
  <2> QED BY <2>5, <2>6, <2>7, <2>9 DEF Beliefs
<1>8. \E d : msgs' = msgs \cup {d} /\ AnswerOf(d, i, b)
  <2>1. n \in Nat /\ n <= log'[i].size
    BY <1>2, <1>3, <1>5
  <2> QED BY <1>1, <1>3, <2>1, ReplyIs
<1> QED BY <1>1, <1>4, <1>6, <1>7, <1>8

\* A heartbeat, an entry, or an update that is refused.
LEMMA HandleUpdateStep ==
  ASSUME OneReign, NEW b \in Server, Rings(b), Beliefs(b), Counts, Letters(b),
         NEW i \in Server, NEW m \in msgs, m.to = i, HandleUpdate(i, m)
  PROVE  /\ Rings(b)' /\ Beliefs(b)' /\ Counts' /\ Grows(b)
         /\ \/ UNCHANGED <<role, msgs>>
            \/ /\ \E fits : TakeUpdate(i, m, fits)
               /\ \E d : msgs' = msgs \cup {d} /\ AnswerOf(d, i, b) /\ d.from # b
<1>1. /\ m.type = "update" /\ m.from = b /\ m.to # b /\ m.acked \in 0..log[b].acked
      /\ Carries(m.entry, log[b].entries, emitted)
  BY DEF HandleUpdate, Letters, Letter
<1>2. i # b /\ i \in Server \ {b}
  BY <1>1
<1>3. /\ RingOf(log[i], emitted, log[b].acked, log[b].entries) /\ emitted \in Nat
      /\ emitted < LogLen /\ LogLen \in Nat /\ Written(log[b].entries, emitted)
      /\ log[i].size \in 0..emitted /\ log[i].size \in Nat /\ log[i].newentry = NoChunks
      /\ LastIndex(log[i]) + 1 = log[i].size
  <2>1. RingOf(log[i], emitted, log[b].acked, log[b].entries)
    BY RingsAre
  <2>2. log[i].first = 0 /\ log[i].newentry = NoChunks
    BY <2>1, RingIs DEF RingOf
  <2> QED BY <2>1, <2>2, RingsAre, LogAssumption DEF RingOf, LastIndex
<1>4. PICK a \in log[i].acked..log[i].size :
            /\ a <= log[b].acked
            /\ LearnAcked(i, m) = Ring(log[i].size, a, log[i].applied, log[b].entries)
  BY <1>1, LearnAckedIs
<1>5. PICK l : l = LearnAcked(i, m)
  OBVIOUS
<1>6. /\ l.first = 0 /\ l.size = log[i].size /\ l.acked = a /\ l.newentry = NoChunks
      /\ LastIndex(l) = log[i].size - 1
  <2>1. l.first = 0 /\ l.size = log[i].size /\ l.acked = a /\ l.newentry = NoChunks
    BY <1>4, <1>5, RingIs
  <2> QED BY <1>3, <2>1 DEF LastIndex
<1>7. ASSUME NEW n \in log[i].size..emitted, NEW r,
             r = Ring(n, a, log[i].applied, log[b].entries),
             NEW success, Ends(i, m, r, state[i], acked[i], success)
      PROVE  /\ Rings(b)' /\ Beliefs(b)' /\ Counts' /\ Grows(b)
             /\ \E fits : TakeUpdate(i, m, fits)
             /\ \E d : msgs' = msgs \cup {d} /\ AnswerOf(d, i, b) /\ d.from # b
  <2>1. LearnAcked(i, m).acked = a
    BY <1>5, <1>6
  <2>2. /\ Rings(b)' /\ Beliefs(b)' /\ Counts' /\ Grows(b)
        /\ \E fits : TakeUpdate(i, m, fits)
        /\ \E d : msgs' = msgs \cup {d} /\ AnswerOf(d, i, b)
    BY <1>1, <1>2, <1>4, <1>7, <2>1, EndsStep
  <2> QED BY <1>2, <2>2 DEF AnswerOf
<1>8. CASE UpdateRefused(i, m)
  <2>1. UNCHANGED <<log, acked, state, emitted>>
    BY <1>8, Zenon DEF UpdateRefused, logVars
  <2>2. \E fits : TakeUpdate(i, m, fits)
    BY <1>8, Zenon DEF UpdateRefused
  <2>3. \E success : Reply(i, m, log[i], success)
    BY <1>8, Zenon DEF UpdateRefused
  <2>4. \E d : msgs' = msgs \cup {d} /\ AnswerOf(d, i, b)
    <3>1. log[i].size <= log'[i].size
      BY <1>3, <2>1
    <3> QED BY <1>1, <1>3, <2>3, <3>1, ReplyIs
  <2>5. Rings(b)' /\ Beliefs(b)' /\ Counts' /\ Grows(b)
    BY <2>1, SameLogs
  <2> QED BY <1>2, <2>2, <2>4, <2>5 DEF AnswerOf
<1>9. CASE UpdateHeartbeat(i, m)
  <2>1. \E success : Ends(i, m, [LearnAcked(i, m) EXCEPT !.newentry.data = <<>>],
                          state[i], acked[i], success)
    BY <1>9, Zenon DEF UpdateHeartbeat
  <2>2. [LearnAcked(i, m) EXCEPT !.newentry.data = <<>>]
           = Ring(log[i].size, a, log[i].applied, log[b].entries)
    BY <1>4 DEF Ring, NoChunks
  <2>3. log[i].size \in log[i].size..emitted
    BY <1>3
  <2> QED BY <1>7, <2>1, <2>2, <2>3
<1>10. ASSUME Heard(i, m), m.entry # <<>>
       PROVE  \E k \in 0..log[i].size : k < emitted /\ m.entry[1] = Part(log[b].entries, k)
  <2>1. PICK k \in 0..emitted-1 : m.entry = <<Part(log[b].entries, k)>>
    BY <1>1, <1>10 DEF Carries
  <2>2. PICK c : c = m.entry[1] /\ c = Part(log[b].entries, k)
    BY <2>1
  <2>3. Appendable(log[i], c.previndex, c.prevterm)
    <3>1. ~ c.snapshot
      BY <2>2, PartIs
    <3> QED BY <1>10, <2>2, <3>1 DEF Heard, Fits
  <2>4. k - 1 <= log[i].size - 1
    <3>1. c.previndex = k - 1
      BY <2>2, PartIs
    <3>2. c.previndex <= LastIndex(log[i])
      BY <2>3 DEF Appendable
    <3>3. PICK n, last : n \in Nat /\ n = log[i].size /\ last = LastIndex(log[i]) /\ last = n - 1
      <4>1. log[i].first = 0
        BY <1>3, RingIs DEF RingOf
      <4> QED BY <1>3, <4>1 DEF LastIndex
    <3> QED BY <3>1, <3>2, <3>3
  <2> QED BY <1>3, <2>2, <2>4
<1>11. CASE UpdateIgnored(i, m)
  <2>1. Heard(i, m) /\ m.entry # <<>>
    BY <1>11, Zenon DEF UpdateIgnored
  <2>2. PICK k \in 0..log[i].size : m.entry[1] = Part(log[b].entries, k)
    BY <1>10, <2>1
  <2>3. OtherTerm(l, m.entry[1]) \/ Gap(l, m.entry[1])
    BY <1>5, <1>11, Zenon DEF UpdateIgnored
  <2> QED BY <1>6, <2>2, <2>3, ReceivedIs
<1>12. CASE UpdateChunk(i, m)
  <2>1. Heard(i, m) /\ m.entry # <<>>
    BY <1>12, Zenon DEF UpdateChunk
  <2>2. PICK k, c :
           /\ k \in 0..log[i].size /\ k < emitted /\ c = m.entry[1] /\ c = Part(log[b].entries, k)
    BY <1>10, <2>1
  <2>3. UpdatePart(i, m, l, c) \/ UpdateSnapshot(i, m, l, c) \/ UpdateAppend(i, m, l, c)
    BY <1>5, <1>12, <2>2, Zenon DEF UpdateChunk
  <2>4. Len(Received(l, c).data) = c.totalLen /\ ~ c.snapshot
    BY <1>6, <2>2, PartIs, ReceivedIs
  <2>5. UpdateAppend(i, m, l, c)
    BY <2>3, <2>4 DEF UpdatePart, UpdateSnapshot
  <2>6. ~ Full(l) /\ ~ NoRoom(l, c) /\ MakeRoom(i, l, c) = l
    <3>1. ~ Full(l)
      BY <1>3, <1>6 DEF Full
    <3> QED BY <3>1 DEF NoRoom, MakeRoom
  <2>7. \/ \E why : Fail(i, why)
        \/ \E success : Ends(i, m, Place(l, c), state[i], acked[i], success)
    <3> DEFINE r == MakeRoom(i, l, c)
    <3>1. IF NoRoom(l, c)
          THEN Ends(i, m, [l EXCEPT !.newentry = Received(l, c)], state[i], acked[i], FALSE)
          ELSE IF Extends(l, c) /\ Full(l) /\ ~ CanCompact(l) THEN Fail(i, "compact")
          ELSE IF ~ CanPlace(r, c) THEN Fail(i, "append")
          ELSE Ends(i, m, Place(r, c), state[i],
                    IF Extends(l, c) /\ Full(l) THEN Restarted(i, r) ELSE acked[i], TRUE)
      BY <2>5, Zenon DEF UpdateAppend
    <3> HIDE DEF r
    <3>2. \/ \E why : Fail(i, why)
          \/ \E success : Ends(i, m, Place(r, c), state[i],
                    IF Extends(l, c) /\ Full(l) THEN Restarted(i, r) ELSE acked[i], success)
      BY <2>6, <3>1, Zenon
    <3>3. (IF Extends(l, c) /\ Full(l) THEN Restarted(i, r) ELSE acked[i]) = acked[i]
      BY <2>6, Zenon
    <3>4. r = l
      BY <2>6 DEF r
    <3> QED BY <3>2, <3>3, <3>4
  <2>8. ASSUME NEW why, Fail(i, why)
        PROVE  Rings(b)' /\ Beliefs(b)' /\ Counts' /\ Grows(b) /\ UNCHANGED <<role, msgs>>
    <3>1. UNCHANGED <<log, acked, state, emitted>> /\ UNCHANGED <<role, msgs>>
      BY <2>8 DEF Fail, vars
    <3> QED BY <3>1, SameLogs
  <2>9. PICK n \in log[i].size..emitted : n = IF k = log[i].size THEN log[i].size + 1 ELSE log[i].size
    BY <1>3, <2>2
  <2>10. Place(l, c) = Ring(n, a, log[i].applied, log[b].entries)
    <3>1. Written(log[b].entries, k + 1)
      BY <1>3, <2>2 DEF Written
    <3>2. log[i].size \in Nat /\ log[i].size < LogLen
      BY <1>3
    <3> QED BY <1>4, <1>5, <2>2, <2>9, <3>1, <3>2, PlaceIs
  <2> QED BY <1>7, <2>7, <2>8, <2>10
<1> QED BY <1>8, <1>9, <1>11, <1>12 DEF HandleUpdate

-----------------------------------------------------------------------------
(* beat, handleDone, handleVote                                            *)

LEMMA PayloadIs ==
  ASSUME NEW n \in Nat, n <= LogLen, NEW x, NEW p, NEW es, NEW l, l = Ring(n, x, p, es),
         Written(es, n), NEW a, a.entries \in 0..n, a.bytes = 0
  PROVE  Carries(Payload(l, a), es, n)
<1>1. l.first = 0 /\ LastIndex(l) = n - 1
  BY RingIs DEF LastIndex
<1>2. CASE ~ Sends(l, a)
  BY <1>2 DEF Payload, Carries
<1>3. CASE Sends(l, a)
  <2>1. PICK k \in 0..n-1 : k = a.entries
    BY <1>1, <1>3 DEF Sends
  <2>2. SendIndex(l, a) = k
    <3>1. Max({0, k}) = k
      BY TwoNumbers
    <3> QED BY <1>1, <2>1, <3>1 DEF SendIndex
  <2>3. PICK e : e = Slot(l, k)
    OBVIOUS
  <2>4. e = es[k] /\ e = Write(es[k].term, k + 1)
    BY <2>3, SlotIs DEF Written
  <2>5. e.data = Client(k + 1) /\ e.snapshot = FALSE /\ e.term = es[k].term
    BY <2>4 DEF Write, Entry
  <2>6. (IF k > 0 THEN Slot(l, k - 1).term ELSE -1) = IF k > 0 THEN es[k - 1].term ELSE -1
    <3>1. CASE k > 0
      <4>1. k - 1 \in 0..n-1
        BY <3>1
      <4>2. Slot(l, k - 1) = es[k - 1]
        BY <4>1, SlotIs
      <4> QED BY <3>1, <4>2
    <3> QED BY <3>1
  <2>7. Len(e.data) = 1 /\ e.data[a.bytes + 1] = [body |-> <<k + 1>>, part |-> 1]
    BY <2>5, ClientIs
  <2>8. Payload(l, a) =
          <<[snapshot  |-> e.snapshot, previndex |-> k - 1,
             prevterm  |-> IF k > 0 THEN Slot(l, k - 1).term ELSE -1,
             entryTerm |-> e.term, totalLen |-> Len(e.data),
             offset    |-> a.bytes, chunk |-> e.data[a.bytes + 1]]>>
    BY <1>3, <2>2, <2>3 DEF Payload
  <2>9. Payload(l, a) = <<Part(es, k)>>
    BY <2>5, <2>6, <2>7, <2>8 DEF Part
  <2> QED BY <2>9 DEF Carries
<1> QED BY <1>2, <1>3

\* What b sends of its log is a letter.
LEMMA UpdateIs ==
  ASSUME OneReign, NEW b \in Server, Rings(b), NEW j \in Server \ {b}, NEW s,
         NEW a \in [entries : Nat, bytes : {0}], a.entries <= emitted,
         NEW u, u = Update(b, j, s, log[b], a)
  PROVE  Letter(u, b)
<1>1. /\ emitted \in Nat /\ emitted <= LogLen /\ Written(log[b].entries, emitted)
      /\ log[b] = Ring(emitted, log[b].acked, log[b].applied, log[b].entries)
      /\ log[b].acked \in Nat
  BY RingsAre, LogAssumption DEF RingOf
<1>2. /\ u.type = "update" /\ u.from = b /\ u.to = j /\ u.acked = log[b].acked
      /\ u.entry = Payload(log[b], a)
  BY DEF Update
<1>3. a.entries \in 0..emitted /\ a.bytes = 0
  BY <1>1
<1>4. Carries(u.entry, log[b].entries, emitted)
  BY <1>1, <1>2, <1>3, PayloadIs
<1> QED BY <1>1, <1>2, <1>4 DEF Letter

LEMMA CarriesMore ==
  ASSUME NEW e, NEW n \in Nat, NEW m \in Nat, n <= m, NEW es, NEW fs,
         \A k \in 0..n-1 : fs[k] = es[k], Carries(e, es, n)
  PROVE  Carries(e, fs, m)
<1>1. CASE e = <<>>
  BY <1>1 DEF Carries
<1>2. CASE \E k \in 0..n-1 : e = <<Part(es, k)>>
  <2>1. PICK k \in 0..n-1 : e = <<Part(es, k)>>
    BY <1>2
  <2>2. k \in 0..m-1 /\ (k > 0 => k - 1 \in 0..n-1)
    OBVIOUS
  <2>3. Part(es, k) = Part(fs, k)
    BY <2>2 DEF Part
  <2> QED BY <2>1, <2>2, <2>3 DEF Carries
<1> QED BY <1>1, <1>2 DEF Carries

LEMMA LetterStays ==
  ASSUME NEW b \in Server, Rings(b), Rings(b)', Grows(b), NEW m, Letter(m, b)
  PROVE  Letter(m, b)'
<1>1. /\ emitted \in Nat /\ emitted' \in Nat /\ log[b].acked \in Nat /\ log'[b].acked \in Nat
      /\ emitted <= emitted' /\ log[b].acked <= log'[b].acked
      /\ \A j \in Server : log[j].size \in Nat /\ log'[j].size \in Nat
      /\ \A k \in 0..emitted-1 : log'[b].entries[k] = log[b].entries[k]
  <2>1. emitted \in Nat /\ log[b].acked \in Nat /\ \A j \in Server : log[j].size \in Nat
    BY RingsAre DEF RingOf
  <2>2. emitted' \in Nat /\ \A j \in Server : log'[j].size \in Nat /\ log'[j].acked \in Nat
    BY DEF Rings
  <2> QED BY <2>1, <2>2 DEF Grows
<1>2. ASSUME m.type = "update"
      PROVE  m.acked \in 0..log'[b].acked /\ Carries(m.entry, log'[b].entries, emitted')
  <2>1. m.acked \in 0..log[b].acked /\ Carries(m.entry, log[b].entries, emitted)
    BY <1>2 DEF Letter
  <2> QED BY <1>1, <2>1, CarriesMore
<1>3. ASSUME m.type = "done" PROVE m.entries \in 0..log'[m.from].size /\ m.bytes = 0
  <2>1. m.entries \in 0..log[m.from].size /\ m.bytes = 0 /\ m.from \in Server
    BY <1>3 DEF Letter
  <2>2. log[m.from].size \in 0..log'[m.from].size
    BY <2>1 DEF Grows
  <2> QED BY <1>1, <2>1, <2>2
<1> QED BY <1>2, <1>3 DEF Letter

LEMMA LettersStep ==
  ASSUME NEW b \in Server, Rings(b), Rings(b)', Grows(b), Letters(b),
         \A u \in msgs' \ msgs : Letter(u, b)'
  PROVE  Letters(b)'
BY LetterStays DEF Letters

LEMMA SameRings ==
  ASSUME NEW b \in Server, Rings(b), UNCHANGED <<log, emitted>>
  PROVE  Rings(b)' /\ Grows(b)
<1>1. Rings(b)'
  BY DEF Rings
<1>2. Grows(b)
  <2>1. \A j \in Server : log[j].size \in Nat /\ log[j].acked \in Nat /\ log[j].applied \in Nat
    BY RingsAre DEF RingOf
  <2> QED BY <2>1, RingsAre DEF Grows
<1> QED BY <1>1, <1>2

\* b believes something else of its peers, and that is true of their logs too.
LEMMA BeliefsStep ==
  ASSUME OneReign, NEW b \in Server, Rings(b), Beliefs(b), Counts,
         UNCHANGED <<log, state, emitted>>,
         NEW f \in [Server -> [entries : Nat, bytes : {0}]],
         \A j \in Server : f[j].entries <= log[j].size,
         acked' = [acked EXCEPT ![b] = f]
  PROVE  Rings(b)' /\ Beliefs(b)' /\ Counts' /\ Grows(b)
<1>1. Rings(b)' /\ Grows(b)
  BY SameRings
<1>2. (log[b].acked = 0 \/ Majority(Cardinality(Having(log[b].acked))))'
  BY <1>1, MajorityStays
<1>3. Counts'
  BY DEF Counts
<1>4. acked \in [Server -> [Server -> [entries : Nat, bytes : {0}]]]
  BY DEF Beliefs
<1>5. /\ acked' \in [Server -> [Server -> [entries : Nat, bytes : {0}]]]
      /\ acked'[b] = f /\ \A j \in Server \ {b} : acked'[j] = acked[j]
  BY <1>4
<1>6. /\ \A j \in Server : acked'[b][j].entries <= log'[j].size
      /\ \A j \in Server \ {b}, k \in Server : acked'[j][k].entries <= log'[j].acked
  BY <1>5 DEF Beliefs
<1> QED BY <1>1, <1>2, <1>3, <1>5, <1>6 DEF Beliefs

LEMMA BelievesIs ==
  ASSUME NEW b \in Server, Rings(b), Beliefs(b), NEW j \in Server
  PROVE  /\ acked[b] \in [Server -> [entries : Nat, bytes : {0}]]
         /\ acked[b][j] \in [entries : Nat, bytes : {0}]
         /\ acked[b][j].entries \in Nat /\ acked[b][j].bytes = 0
         /\ acked[b][j].entries <= log[j].size /\ log[j].size \in Nat /\ emitted \in Nat
         /\ log[j].size <= emitted /\ acked[b][j].entries <= emitted
<1>1. acked[b] \in [Server -> [entries : Nat, bytes : {0}]]
  BY DEF Beliefs
<1>2. acked[b][j] \in [entries : Nat, bytes : {0}]
  BY <1>1
<1>3. log[j].size \in Nat /\ emitted \in Nat /\ log[j].size <= emitted
  BY RingsAre DEF RingOf
<1>4. acked[b][j].entries <= log[j].size /\ acked[b][j].entries \in Nat /\ acked[b][j].bytes = 0
  BY <1>2 DEF Beliefs
<1>5. acked[b][j].entries <= emitted
  BY <1>3, <1>4
<1> QED BY <1>1, <1>2, <1>3, <1>4, <1>5

LEMMA BelievedIs ==
  ASSUME NEW n \in Nat, NEW a \in [entries : Nat, bytes : {0}], a.entries <= n,
         NEW m, m.entries \in 0..n, m.bytes = 0
  PROVE  /\ Believed(a, m) \in [entries : Nat, bytes : {0}]
         /\ Believed(a, m).entries <= n
<1>1. a.entries \in Nat /\ a.bytes = 0
  OBVIOUS
<1>2. CASE m.success
  <2>1. Believed(a, m) = [entries |-> m.entries, bytes |-> m.bytes]
    BY <1>2 DEF Believed
  <2> QED BY <2>1
<1>3. CASE ~ m.success /\ a.entries > 0
  <2>1. Believed(a, m) = [entries |-> a.entries - 1, bytes |-> 0]
    BY <1>3 DEF Believed
  <2>2. a.entries - 1 \in Nat /\ a.entries - 1 <= n
    BY <1>1, <1>3
  <2> QED BY <2>1, <2>2
<1>4. CASE ~ m.success /\ ~ (a.entries > 0)
  BY <1>4 DEF Believed
<1> QED BY <1>2, <1>3, <1>4

\* What is sent fits the logs as they are before the step.
NewLetters(b) == msgs \subseteq msgs' /\ \A u \in msgs' \ msgs : Letter(u, b)

LEMMA HandleDoneStep ==
  ASSUME OneReign, NEW b \in Server, Rings(b), Beliefs(b), Counts, Letters(b),
         NEW i \in Server, NEW m \in msgs, m.to = i, HandleDone(i, m)
  PROVE  /\ Rings(b)' /\ Beliefs(b)' /\ Counts' /\ Grows(b)
         /\ UNCHANGED role \/ \E beats : TakeDone(i, m, beats)
         /\ NewLetters(b)
<1>1. /\ i = b /\ m.from \in Server \ {b} /\ m.entries \in 0..log[m.from].size /\ m.bytes = 0
  BY DEF HandleDone, Letters, Letter
<1>2. PICK j \in Server \ {b} : j = m.from
  BY <1>1
<1>3. PICK a : /\ a = acked[b][j] \/ a = Believed(acked[b][j], m)
               /\ \/ \E why : Fail(b, why)
                  \/ /\ \E beats : TakeDone(b, m, beats)
                     /\ acked' = [acked EXCEPT ![b][j] = a]
                     /\ \/ \E s : msgs' = msgs \cup {Update(b, j, s, log[b], a)}
                        \/ msgs' = msgs
                     /\ UNCHANGED <<log, state, emitted>>
  <2> DEFINE counts == Takes(i, m) /\ m.curterm >= term[i]
             x == IF counts THEN Believed(acked[i][m.from], m) ELSE acked[i][m.from]
             beats == counts /\ Sends(log[i], x)
  <2>1. IF beats /\ leaderId[i] = i /\ ~ CanSend(log[i], x)
        THEN Fail(i, "beat")
        ELSE /\ TakeDone(i, m, beats)
             /\ acked' = [acked EXCEPT ![i][m.from] = x]
             /\ msgs' = IF beats /\ leaderId[i] = i
                        THEN msgs \cup {Update(i, m.from, sequence[i][m.from] + 2, log[i], x)}
                        ELSE msgs
             /\ UNCHANGED <<log, state, emitted, broken>>
    BY Zenon DEF HandleDone
  <2>2. x = acked[i][m.from] \/ x = Believed(acked[i][m.from], m)
    OBVIOUS
  <2> HIDE DEF x, beats
  <2>3. CASE Fail(i, "beat")
    BY <1>1, <1>2, <2>2, <2>3, Zenon
  <2>4. CASE /\ TakeDone(i, m, beats)
             /\ acked' = [acked EXCEPT ![i][m.from] = x]
             /\ msgs' = IF beats /\ leaderId[i] = i
                        THEN msgs \cup {Update(i, m.from, sequence[i][m.from] + 2, log[i], x)}
                        ELSE msgs
             /\ UNCHANGED <<log, state, emitted, broken>>
    <3>1. \E t : TakeDone(b, m, t)
      BY <1>1, <2>4, Zenon
    <3>2. (\E s : msgs' = msgs \cup {Update(b, j, s, log[b], x)}) \/ msgs' = msgs
      BY <1>1, <1>2, <2>4, Zenon
    <3>3. acked' = [acked EXCEPT ![b][j] = x] /\ UNCHANGED <<log, state, emitted>>
      BY <1>1, <1>2, <2>4, Zenon
    <3> QED BY <1>1, <1>2, <2>2, <3>1, <3>2, <3>3, Zenon
  <2> QED BY <2>1, <2>3, <2>4, Zenon
<1>4. a \in [entries : Nat, bytes : {0}] /\ a.entries <= log[j].size /\ a.entries <= emitted
  <2>1. /\ acked[b][j] \in [entries : Nat, bytes : {0}] /\ acked[b][j].entries <= log[j].size
        /\ log[j].size \in Nat /\ emitted \in Nat /\ log[j].size <= emitted
    BY BelievesIs
  <2>2. a \in [entries : Nat, bytes : {0}] /\ a.entries <= log[j].size
    BY <1>1, <1>2, <1>3, <2>1, BelievedIs
  <2>3. a.entries \in Nat
    BY <2>2
  <2> QED BY <2>1, <2>2, <2>3
<1>5. CASE \E why : Fail(b, why)
  <2>1. UNCHANGED <<log, acked, state, emitted, role, msgs>>
    BY <1>5 DEF Fail, vars
  <2>2. NewLetters(b)
    BY <2>1 DEF NewLetters
  <2> QED BY <2>1, <2>2, SameLogs
<1>6. CASE /\ \E beats : TakeDone(b, m, beats)
           /\ acked' = [acked EXCEPT ![b][j] = a]
           /\ \/ \E s : msgs' = msgs \cup {Update(b, j, s, log[b], a)}
              \/ msgs' = msgs
           /\ UNCHANGED <<log, state, emitted>>
  <2>1. PICK f : f = [acked[b] EXCEPT ![j] = a]
    OBVIOUS
  <2>2. f \in [Server -> [entries : Nat, bytes : {0}]] /\ \A k \in Server : f[k].entries <= log[k].size
    <3>1. acked[b] \in [Server -> [entries : Nat, bytes : {0}]]
      BY BelievesIs
    <3>2. \A k \in Server : acked[b][k].entries <= log[k].size
      BY BelievesIs
    <3> QED BY <1>4, <2>1, <3>1, <3>2
  <2>3. acked' = [acked EXCEPT ![b] = f]
    BY <1>6, <2>1
  <2>4. Rings(b)' /\ Beliefs(b)' /\ Counts' /\ Grows(b)
    BY <1>6, <2>2, <2>3, BeliefsStep
  <2>5. NewLetters(b)
    <3>1. CASE msgs' = msgs
      BY <3>1 DEF NewLetters
    <3>2. CASE \E s : msgs' = msgs \cup {Update(b, j, s, log[b], a)}
      <4>1. PICK s, u : u = Update(b, j, s, log[b], a) /\ msgs' = msgs \cup {u}
        BY <3>2
      <4>2. Letter(u, b)
        BY <1>4, <4>1, UpdateIs
      <4> QED BY <4>1, <4>2 DEF NewLetters
    <3> QED BY <1>6, <3>1, <3>2
  <2> QED BY <1>1, <1>6, <2>4, <2>5
<1> QED BY <1>3, <1>5, <1>6

LEMMA HandleVoteStep ==
  ASSUME OneReign, NEW b \in Server, Rings(b), Beliefs(b), Counts, Letters(b),
         NEW i \in Server, NEW m \in msgs, m.to = i, HandleVote(i, m)
  PROVE  /\ Rings(b)' /\ Beliefs(b)' /\ Counts' /\ Grows(b)
         /\ TakeVote(i, m) /\ UNCHANGED msgs /\ i = b
<1>1. i = b /\ TakeVote(i, m) /\ UNCHANGED <<msgs, log, state, emitted>>
  BY DEF HandleVote, Letters, Letter
<1>2. PICK f : /\ acked' = [acked EXCEPT ![b] = f]
               /\ f = acked[b] \/ f = [j \in Server |-> [acked[b][j] EXCEPT !.bytes = 0]]
  BY <1>1 DEF HandleVote
<1>3. f \in [Server -> [entries : Nat, bytes : {0}]] /\ \A j \in Server : f[j].entries <= log[j].size
  <2>1. acked[b] \in [Server -> [entries : Nat, bytes : {0}]]
    BY BelievesIs
  <2>2. \A j \in Server : acked[b][j].entries <= log[j].size
    BY BelievesIs
  <2> QED BY <1>2, <2>1, <2>2
<1> QED BY <1>1, <1>2, <1>3, BeliefsStep

-----------------------------------------------------------------------------
(* Every step leaves b the only one that leads.                            *)

LEMMA ReignStep ==
  ASSUME NEW b \in Server, Reign(b), ~ Quiet, msgs \subseteq msgs',
         role' \in [Server -> {Follower, Candidate, Leader}],
         \A j \in Server \ {b} : role'[j] = Follower
  PROVE  Reign(b)'
BY DEF Reign

\* A packet makes nobody but b anything else than a follower.
LEMMA ReceiveRole ==
  ASSUME NEW b \in Server, Reign(b), NEW i \in Server, NEW m,
         \/ UNCHANGED role
         \/ \E fits : TakeUpdate(i, m, fits)
         \/ \E beats : TakeDone(i, m, beats)
         \/ \E granted : TakeClaim(i, m, granted)
         \/ i = b /\ TakeVote(i, m)
  PROVE  /\ role' \in [Server -> {Follower, Candidate, Leader}]
         /\ \A j \in Server \ {b} : role'[j] = Follower
<1>1. /\ role \in [Server -> {Follower, Candidate, Leader}]
      /\ \A j \in Server \ {b} : role[j] = Follower
  BY DEF Reign
<1>2. \/ role' = role
      \/ role' = [role EXCEPT ![i] = Follower]
      \/ role' = [role EXCEPT ![i] = role[i]]
      \/ i = b /\ role' = [role EXCEPT ![i] = Leader]
  <2>1. RoleAt(i, m) = Follower \/ RoleAt(i, m) = role[i]
    BY DEF RoleAt
  <2>2. ASSUME \E fits : TakeUpdate(i, m, fits) PROVE role' = [role EXCEPT ![i] = RoleAt(i, m)]
    BY <2>2, Zenon DEF TakeUpdate
  <2>3. ASSUME \E beats : TakeDone(i, m, beats) PROVE role' = [role EXCEPT ![i] = RoleAt(i, m)]
    BY <2>3, Zenon DEF TakeDone
  <2>4. ASSUME \E granted : TakeClaim(i, m, granted)
        PROVE  role' = [role EXCEPT ![i] = Follower] \/ role' = [role EXCEPT ![i] = role[i]]
    <3>1. role' = [role EXCEPT ![i] = IF m.curterm >= term[i] THEN Follower ELSE role[i]]
      BY <2>4, Zenon DEF TakeClaim
    <3> QED BY <3>1
  <2>5. ASSUME TakeVote(i, m)
        PROVE  \/ role' = role \/ role' = [role EXCEPT ![i] = Leader]
               \/ role' = [role EXCEPT ![i] = RoleAt(i, m)]
    BY <2>5, Zenon DEF TakeVote
  <2> QED BY <2>1, <2>2, <2>3, <2>4, <2>5
<1> QED BY <1>1, <1>2

LEMMA SameLed ==
  ASSUME NEW b \in Server, LedBy(b), UNCHANGED <<role, msgs, log, acked, state, emitted>>
  PROVE  LedBy(b)'
<1>1. Reign(b)'
  BY DEF LedBy, Reign, Quiet
<1>2. Letters(b)'
  BY DEF LedBy, Letters, Letter
<1>3. Rings(b)' /\ Beliefs(b)' /\ Counts' /\ Grows(b)
  BY SameLogs DEF LedBy
<1> QED BY <1>1, <1>2, <1>3 DEF LedBy

\* What is left to show of a step that reads the logs as they are.
LEMMA LedStep ==
  ASSUME NEW b \in Server, LedBy(b), Rings(b)', Beliefs(b)', Counts', Grows(b),
         NewLetters(b), Reign(b)'
  PROVE  LedBy(b)'
<1>1. \A u \in msgs' \ msgs : Letter(u, b)'
  BY LetterStays DEF LedBy, NewLetters
<1>2. Letters(b)'
  BY <1>1, LettersStep DEF LedBy, NewLetters
<1> QED BY <1>2 DEF LedBy

LEMMA ReceiveLed ==
  ASSUME OneReign, NEW b \in Server, LedBy(b), NEW i \in Server, NEW m \in msgs, Receive(i, m)
  PROVE  LedBy(b)'
<1>1. /\ m.to = i /\ ~ Quiet
      /\ Rings(b) /\ Beliefs(b) /\ Counts /\ Letters(b) /\ Reign(b)
      /\ HandleUpdate(i, m) \/ HandleDone(i, m) \/ HandleClaim(i, m) \/ HandleVote(i, m)
  <2>1. ~ Quiet
    BY DEF Quiet
  <2> QED BY <2>1 DEF Receive, LedBy
<1>2. CASE HandleUpdate(i, m)
  <2>1. /\ Rings(b)' /\ Beliefs(b)' /\ Counts' /\ Grows(b)
        /\ \/ UNCHANGED <<role, msgs>>
           \/ /\ \E fits : TakeUpdate(i, m, fits)
              /\ \E d : msgs' = msgs \cup {d} /\ AnswerOf(d, i, b) /\ d.from # b
    BY <1>1, <1>2, HandleUpdateStep
  <2>2. msgs \subseteq msgs' /\ \A u \in msgs' \ msgs : AnswerOf(u, i, b) /\ u.from # b
    BY <2>1
  <2>3. Reign(b)'
    BY <1>1, <2>1, <2>2, ReceiveRole, ReignStep
  <2>4. \A u \in msgs' \ msgs : Letter(u, b)'
    BY <2>2 DEF AnswerOf, Letter
  <2>5. Letters(b)'
    BY <1>1, <2>1, <2>4, LettersStep
  <2> QED BY <2>1, <2>3, <2>5 DEF LedBy
<1>3. CASE HandleDone(i, m)
  <2>1. /\ Rings(b)' /\ Beliefs(b)' /\ Counts' /\ Grows(b)
        /\ UNCHANGED role \/ \E beats : TakeDone(i, m, beats)
        /\ NewLetters(b)
    BY <1>1, <1>3, HandleDoneStep
  <2>2. Reign(b)'
    BY <1>1, <2>1, ReceiveRole, ReignStep DEF NewLetters
  <2> QED BY <2>1, <2>2, LedStep
<1>4. CASE HandleClaim(i, m)
  <2>1. \E granted : TakeClaim(i, m, granted)
    BY <1>4, Zenon DEF HandleClaim
  <2>2. UNCHANGED <<log, acked, state, emitted>>
    BY <1>4, Zenon DEF HandleClaim, logVars
  <2>3. m.from = b /\ i # b
    BY <1>1, <1>4 DEF HandleClaim, Letters, Letter
  <2>4. PICK granted : msgs' = msgs \cup {[type |-> "vote", curterm |-> TermAt(i, m), from |-> i,
                                           to |-> m.from, sequence |-> m.sequence,
                                           granted |-> granted]}
    BY <1>4, Zenon DEF HandleClaim
  <2>5. NewLetters(b)
    BY <2>3, <2>4 DEF NewLetters, Letter
  <2>6. Reign(b)'
    BY <1>1, <2>1, <2>5, ReceiveRole, ReignStep DEF NewLetters
  <2>7. Rings(b)' /\ Beliefs(b)' /\ Counts' /\ Grows(b)
    BY <1>1, <2>2, SameLogs
  <2> QED BY <2>5, <2>6, <2>7, LedStep
<1>5. CASE HandleVote(i, m)
  <2>1. /\ Rings(b)' /\ Beliefs(b)' /\ Counts' /\ Grows(b)
        /\ TakeVote(i, m) /\ UNCHANGED msgs /\ i = b
    BY <1>1, <1>5, HandleVoteStep
  <2>2. NewLetters(b)
    BY <2>1 DEF NewLetters
  <2>3. Reign(b)'
    BY <1>1, <2>1, ReceiveRole, ReignStep
  <2> QED BY <2>1, <2>2, <2>3, LedStep
<1> QED BY <1>1, <1>2, <1>3, <1>4, <1>5

\* beat(NOBODY) with the log b has.
LEMMA BeatAllStep ==
  ASSUME OneReign, NEW b \in Server, LedBy(b), BeatAll(b, log[b], acked[b])
  PROVE  NewLetters(b)
<1>1. msgs' = msgs \cup {Update(b, j, sequence[b][j] + 1, log[b], acked[b][j]) : j \in Peers(b)}
  BY DEF BeatAll
<1>2. ASSUME NEW j \in Peers(b), NEW u, u = Update(b, j, sequence[b][j] + 1, log[b], acked[b][j])
      PROVE  Letter(u, b)
  <2>1. j \in Server \ {b}
    BY DEF Peers
  <2>2. PICK a \in [entries : Nat, bytes : {0}] : a = acked[b][j] /\ a.entries <= emitted
    BY <2>1, BelievesIs DEF LedBy
  <2>3. PICK s : s = sequence[b][j] + 1
    OBVIOUS
  <2> QED BY <1>2, <2>1, <2>2, <2>3, UpdateIs DEF LedBy
<1> QED BY <1>1, <1>2 DEF NewLetters

LEMMA TickLeaderLed ==
  ASSUME OneReign, NEW b \in Server, LedBy(b), NEW i \in Server, TickLeader(i)
  PROVE  LedBy(b)'
<1>1. i = b /\ ~ Quiet /\ Rings(b) /\ Beliefs(b) /\ Counts /\ Letters(b) /\ Reign(b)
  BY DEF TickLeader, LedBy, Reign, Quiet, Follower, Leader
<1>2. \/ Abort(b) /\ UNCHANGED logVars
      \/ \E why : Fail(b, why)
      \/ /\ BeatAll(b, log[b], acked[b]) \/ UNCHANGED msgs
         /\ \E recent : StayLeader(b, recent)
         /\ Refresh(b)
  BY <1>1, Zenon DEF TickLeader
<1>3. CASE Abort(b) /\ UNCHANGED logVars
  BY <1>3, SameLed DEF Abort, logVars
<1>4. CASE \E why : Fail(b, why)
  BY <1>4, SameLed DEF Fail, vars
<1>5. CASE /\ BeatAll(b, log[b], acked[b]) \/ UNCHANGED msgs
           /\ \E recent : StayLeader(b, recent)
           /\ Refresh(b)
  <2>1. NewLetters(b)
    BY <1>5, BeatAllStep DEF NewLetters
  <2>2. role' = role \/ role' = [role EXCEPT ![b] = Follower]
    BY <1>5 DEF StayLeader
  <2>3. Reign(b)'
    <3>1. /\ role' \in [Server -> {Follower, Candidate, Leader}]
          /\ \A j \in Server \ {b} : role'[j] = Follower
      BY <1>1, <2>2 DEF Reign
    <3> QED BY <1>1, <2>1, <3>1, ReignStep DEF NewLetters
  <2>4. Rings(b)' /\ Beliefs(b)' /\ Counts' /\ Grows(b)
    BY <1>1, <1>5, RefreshStep
  <2> QED BY <2>1, <2>3, <2>4, LedStep
<1> QED BY <1>2, <1>3, <1>4, <1>5

LEMMA TickWaitingLed ==
  ASSUME OneReign, NEW b \in Server, LedBy(b), NEW i \in Server, TickWaiting(i)
  PROVE  LedBy(b)'
<1>1. Refresh(i) /\ UNCHANGED <<role, msgs>>
  BY DEF TickWaiting, vars
<1>2. Rings(b)' /\ Beliefs(b)' /\ Counts' /\ Grows(b)
  BY <1>1, RefreshStep DEF LedBy
<1>3. NewLetters(b)
  BY <1>1 DEF NewLetters
<1>4. emitted' = emitted
  BY <1>1 DEF Refresh
<1>5. Reign(b)'
  BY <1>1, <1>4 DEF LedBy, Reign, Quiet
<1> QED BY <1>2, <1>3, <1>5, LedStep

\* A write of a client.
LEMMA EmitLed ==
  ASSUME OneReign, NEW b \in Server, LedBy(b), NEW i \in Server, Emit(i)
  PROVE  LedBy(b)'
<1>1. i = b /\ ~ Quiet /\ Rings(b) /\ Beliefs(b) /\ Counts /\ Letters(b) /\ Reign(b)
  BY DEF Emit, LedBy, Reign, Quiet, Follower, Leader
<1>2. ~ Full(log[b]) /\ emitted \in Nat /\ log = [j \in Server |-> log[j]]
  BY <1>1, RingsAre, LogAssumption DEF Full
<1>3. PICK l : l = Longer(log[b], Write(term[b], emitted + 1))
  OBVIOUS
<1>4. \/ Abort(b) /\ UNCHANGED logVars
      \/ \E why : Fail(b, why)
      \/ /\ emitted < MaxEmits
         /\ BeatAll(b, l, acked[b])
         /\ log' = [log EXCEPT ![b] = l]
         /\ acked' = [acked EXCEPT ![b] = acked[b]]
         /\ emitted' = emitted + 1
         /\ UNCHANGED <<role, state>>
  <2>1. Compacted(b) = log[b] /\ CompactedAcks(b) = acked[b] /\ HasRoom(log[b])
    BY <1>2, Zenon DEF Compacted, CompactedAcks, HasRoom
  <2>2. PICK e : e = [Compacted(b) EXCEPT !.entries[(LastIndex(Compacted(b)) + 1) % LogLen] =
                                              Entry(term[b], FALSE, Client(emitted + 1)),
                                          !.size = @ + 1]
    OBVIOUS
  <2>3. e = l
    BY <1>3, <2>1, <2>2, Zenon DEF Longer, Write
  <2>4. \/ Abort(b) /\ UNCHANGED logVars
        \/ \E why : Fail(b, why)
        \/ ~ HasRoom(log[b])
        \/ /\ emitted < MaxEmits
           /\ BeatAll(b, e, CompactedAcks(b))
           /\ log' = [log EXCEPT ![b] = e]
           /\ acked' = [acked EXCEPT ![b] = CompactedAcks(b)]
           /\ emitted' = emitted + 1
           /\ UNCHANGED <<term, voteFor, role, votes, leaderId, aborted, restarts, voters,
                          state, broken>>
    BY <1>1, <2>2, Zenon DEF Emit
  <2>5. UNCHANGED <<term, voteFor, role, votes, leaderId, aborted, restarts, voters,
                    state, broken>> => UNCHANGED <<role, state>>
    OBVIOUS
  <2> QED BY <2>1, <2>3, <2>4, <2>5, Zenon
<1>5. CASE Abort(b) /\ UNCHANGED logVars
  BY <1>5, SameLed DEF Abort, logVars
<1>6. CASE \E why : Fail(b, why)
  BY <1>6, SameLed DEF Fail, vars
<1>7. CASE /\ emitted < MaxEmits
           /\ BeatAll(b, l, acked[b])
           /\ log' = [log EXCEPT ![b] = l]
           /\ acked' = [acked EXCEPT ![b] = acked[b]]
           /\ emitted' = emitted + 1
           /\ UNCHANGED <<role, state>>
  <2>1. /\ Rings(b)' /\ Grows(b)
        /\ log'[b].acked = log[b].acked /\ log'[b].applied = log[b].applied
        /\ \A j \in Server \ {b} : log'[j] = log[j]
    BY <1>1, <1>3, <1>7, NewEntry
  <2>2. /\ acked' = acked /\ log'[b] = l /\ emitted' = emitted + 1
        /\ acked \in [Server -> [Server -> [entries : Nat, bytes : {0}]]]
    <3>1. acked \in [Server -> [Server -> [entries : Nat, bytes : {0}]]]
      BY <1>1 DEF Beliefs
    <3> QED BY <1>2, <1>7, <3>1
  <2>3. \A j \in Server : log'[j].acked = log[j].acked /\ log'[j].applied = log[j].applied
    BY <2>1
  <2>4. Counts'
    BY <1>1, <1>7, <2>3 DEF Counts
  <2>5. ASSUME NEW j \in Server
        PROVE  acked[b][j].entries <= log'[j].size /\ acked[b][j].entries <= emitted
    <3>1. /\ acked[b][j].entries \in Nat /\ acked[b][j].entries <= log[j].size
          /\ log[j].size \in Nat /\ acked[b][j].entries <= emitted
      BY <1>1, BelievesIs
    <3>2. log[j].size \in 0..log'[j].size /\ log'[j].size \in Nat
      BY <2>1 DEF Grows, Rings
    <3> QED BY <3>1, <3>2
  <2>6. Beliefs(b)'
    <3>1. (log[b].acked = 0 \/ Majority(Cardinality(Having(log[b].acked))))'
      BY <1>1, <2>1, MajorityStays
    <3>2. \A j \in Server \ {b}, k \in Server : acked'[j][k].entries <= log'[j].acked
      BY <1>1, <2>2, <2>3 DEF Beliefs
    <3> QED BY <2>2, <2>5, <3>1, <3>2 DEF Beliefs
  <2>7. msgs' = msgs \cup {Update(b, j, sequence[b][j] + 1, l, acked[b][j]) : j \in Peers(b)}
    BY <1>7 DEF BeatAll
  <2>8. ASSUME NEW j \in Peers(b), NEW u, u = Update(b, j, sequence[b][j] + 1, l, acked[b][j])
        PROVE  Letter(u, b)'
    <3>1. j \in Server /\ j # b
      BY DEF Peers
    <3>2. /\ u.type = "update" /\ u.from = b /\ u.to = j /\ u.acked = l.acked
          /\ u.entry = Payload(l, acked[b][j])
      BY <2>8 DEF Update
    <3>3. PICK n, x, p, es :
             /\ n \in Nat /\ x \in Nat
             /\ n = emitted' /\ n <= LogLen /\ n = emitted + 1 /\ es = log'[b].entries
             /\ l = Ring(n, x, p, es) /\ Written(es, n) /\ x = log'[b].acked
      <4>1. l = Ring(l.size, l.acked, l.applied, log'[b].entries) /\ l.size = emitted'
        BY <2>1, <2>2 DEF Rings
      <4>2. l.acked \in Nat /\ l.acked = log'[b].acked
        BY <1>1, <2>1, <2>2, RingsAre DEF RingOf
      <4>3. Written(log'[b].entries, emitted')
        BY <2>1 DEF Rings
      <4>4. emitted + 1 <= LogLen /\ emitted + 1 \in Nat
        BY <1>1, <1>2, RingsAre, LogAssumption
      <4> QED BY <2>2, <4>1, <4>2, <4>3, <4>4
    <3>4. PICK a \in [entries : Nat, bytes : {0}] : a = acked[b][j] /\ a.entries <= emitted
      BY <1>1, <3>1, BelievesIs
    <3>5. a.entries \in 0..n /\ a.bytes = 0
      BY <1>2, <3>3, <3>4
    <3>6. Carries(u.entry, es, n)
      BY <3>2, <3>3, <3>4, <3>5, PayloadIs
    <3>7. u.acked \in 0..log'[b].acked
      BY <3>2, <3>3, RingIs
    <3> QED BY <3>1, <3>2, <3>3, <3>6, <3>7 DEF Letter
  <2>9. Letters(b)'
    <3>1. \A u \in msgs' \ msgs : Letter(u, b)'
      BY <2>7, <2>8
    <3> QED BY <1>1, <2>1, <2>7, <3>1, LettersStep
  <2>10. Reign(b)'
    <3>1. msgs \subseteq msgs'
      BY <2>7
    <3> QED BY <1>1, <1>7, <3>1, ReignStep DEF Reign
  <2> QED BY <2>1, <2>4, <2>6, <2>9, <2>10 DEF LedBy
<1> QED BY <1>4, <1>5, <1>6, <1>7

\* Before the election nobody has anything, so any node will do for b.
LEMMA QuietLed ==
  ASSUME OneReign, NEW b \in Server, LedBy(b), Quiet, NEW c \in Server
  PROVE  LedBy(c)
<1>1. emitted = 0 /\ msgs = {} /\ \A j \in Server : role[j] = Follower
  BY DEF Quiet
<1>2. \A j \in Server : /\ log[j].size = 0 /\ log[j].acked = 0 /\ log[j].applied = 0
                        /\ log[j] = Ring(0, 0, 0, log[b].entries)
  BY <1>1, RingsAre DEF RingOf, LedBy
<1>3. Ring(0, 0, 0, log[b].entries) = Ring(0, 0, 0, log[c].entries)
  <2>1. Upto(log[b].entries, 0) = Upto(log[c].entries, 0)
    BY UptoSame
  <2> QED BY <2>1 DEF Ring
<1>4. Rings(c)
  <2>1. Written(log[c].entries, 0)
    BY DEF Written
  <2>2. emitted \in 0..MaxEmits /\ log = [i \in Server |-> log[i]]
    BY DEF LedBy, Rings
  <2> QED BY <1>1, <1>2, <1>3, <2>1, <2>2 DEF Rings
<1>5. Beliefs(c)
  <2>1. acked \in [Server -> [Server -> [entries : Nat, bytes : {0}]]]
    BY DEF LedBy, Beliefs
  <2>2. \A j \in Server, k \in Server : acked[j][k].entries = 0
    <3> TAKE j \in Server, k \in Server
    <3>1. acked[j][k].entries \in Nat
      <4>1. acked[j][k] \in [entries : Nat, bytes : {0}]
        BY <2>1
      <4> QED BY <4>1
    <3>2. acked[j][k].entries <= 0
      BY <1>2 DEF LedBy, Beliefs
    <3> QED BY <3>1, <3>2
  <2> QED BY <1>2, <2>1, <2>2 DEF Beliefs
<1>6. Letters(c)
  BY <1>1 DEF Letters
<1>7. Reign(c)
  BY DEF LedBy, Reign, Quiet
<1> QED BY <1>4, <1>5, <1>6, <1>7 DEF LedBy

LEMMA ClaimLed ==
  ASSUME OneReign, NEW b \in Server, LedBy(b), Claim(b)
  PROVE  LedBy(b)'
<1>1. StartElection(b) /\ Refresh(b) /\ Rings(b) /\ Beliefs(b) /\ Counts /\ Reign(b)
  BY DEF Claim, LedBy
<1>2. Rings(b)' /\ Beliefs(b)' /\ Counts' /\ Grows(b)
  BY <1>1, RefreshStep
<1>3. role' = [role EXCEPT ![b] = Leader] \/ role' = [role EXCEPT ![b] = Candidate]
  BY <1>1 DEF StartElection
<1>4. msgs' = IF Majority(1) THEN msgs ELSE msgs \cup {ClaimTo(b, j) : j \in Peers(b)}
  BY Zenon DEF Claim
<1>5. ASSUME NEW j \in Peers(b)
      PROVE  /\ ClaimTo(b, j).type = "claim" /\ ClaimTo(b, j).from = b
             /\ ClaimTo(b, j).to = j /\ j \in Server /\ j # b
  BY DEF ClaimTo, Peers
<1>6. NewLetters(b)
  BY <1>4, <1>5 DEF NewLetters, Letter
<1>7. Server = {b} \/ \E m \in msgs' : m.type = "claim"
  <2>1. CASE Peers(b) = {}
    BY <2>1 DEF Peers
  <2>2. CASE Peers(b) # {}
    <3>1. PICK j \in Server : j # b
      BY <2>2 DEF Peers
    <3>2. ~ Majority(1)
      <4>1. Cardinality({b} \cup {j}) = 2 /\ IsFiniteSet({b} \cup {j})
        <5>1. IsFiniteSet({b}) /\ Cardinality({b}) = 1 /\ j \notin {b}
          BY <3>1, FS_Singleton
        <5> QED BY <5>1, FS_AddElement
      <4>2. {b} \cup {j} \in SUBSET Server
        OBVIOUS
      <4>3. 2 <= Cardinality(Server) /\ Cardinality(Server) \in Nat
        BY <4>1, <4>2, ServerAssumption, FS_Subset, FS_CardinalityType
      <4> QED BY <4>3 DEF Majority, peerNum
    <3>3. j \in Peers(b) /\ ClaimTo(b, j) \in msgs'
      BY <1>4, <3>1, <3>2 DEF Peers
    <3> QED BY <1>5, <3>3
  <2> QED BY <2>1, <2>2
<1>8. Reign(b)'
  <2>1. /\ role' \in [Server -> {Follower, Candidate, Leader}]
        /\ \A j \in Server \ {b} : role'[j] = Follower
    BY <1>1, <1>3 DEF Reign
  <2> QED BY <1>7, <2>1 DEF Reign
<1> QED BY <1>2, <1>6, <1>8, LedStep

\* An election is held only if none was, or by the one node there is.
LEMMA TickExpiredLed ==
  ASSUME OneReign, IsFiniteSet(msgs), NEW b \in Server, LedBy(b), NEW i \in Server, TickExpired(i)
  PROVE  LedBy(i)' \/ LedBy(b)'
<1>1. MayClaim(i) /\ ((Abort(i) /\ UNCHANGED logVars) \/ Claim(i))
  BY Zenon DEF TickExpired
<1>2. CASE Abort(i) /\ UNCHANGED logVars
  BY <1>2, SameLed DEF Abort, logVars
<1>3. CASE Claim(i)
  <2>1. CASE Quiet
    BY <1>3, <2>1, QuietLed, ClaimLed
  <2>2. CASE Server = {b}
    <3>1. i = b
      BY <2>2
    <3> QED BY <1>3, <3>1, ClaimLed
  <2>3. CASE \E m \in msgs : m.type = "claim"
    <3> DEFINE C == {m \in msgs : m.type = "claim"}
    <3>1. PICK m \in C : TRUE
      BY <2>3
    <3>2. IsFiniteSet(Elections)
      <4>1. IsFiniteSet(C)
        BY FS_Subset
      <4> DEFINE g == [p \in C |-> <<p.from, p.curterm>>]
      <4>2. g \in Surjection(C, Elections)
        BY DEF Elections, Surjection
      <4> QED BY <4>1, <4>2, FS_Surjection
    <3>3. <<m.from, m.curterm>> \in Elections
      BY <3>1 DEF Elections
    <3>4. Cardinality(Elections) \in Nat /\ Cardinality(Elections) # 0
      BY <3>2, <3>3, FS_EmptySet, FS_CardinalityType
    <3>5. Cardinality(Elections) < 1
      <4>1. MaxElections \in Nat /\ MaxElections <= 1
        BY BoundsAssumption DEF OneReign
      <4> QED BY <1>1, <3>4, <4>1 DEF MayClaim
    <3> QED BY <3>4, <3>5
  <2> QED BY <2>1, <2>2, <2>3 DEF LedBy, Reign
<1> QED BY <1>1, <1>2, <1>3

LEMMA InitLed ==
  ASSUME OneReign, InitRaft, NEW b \in Server
  PROVE  LedBy(b)
<1>1. /\ role = [i \in Server |-> Follower] /\ msgs = {}
      /\ log = [i \in Server |-> NewLog] /\ acked = [i \in Server |-> [j \in Server |-> NewProcess]]
      /\ state = [i \in Server |-> <<>>] /\ emitted = 0
  BY DEF InitRaft, Init
<1>2. Quiet
  BY <1>1 DEF Quiet
<1>3. Reign(b)
  BY <1>1, <1>2 DEF Reign
<1>4. Letters(b)
  BY <1>1 DEF Letters
<1>5. \A i \in Server : log[i] = NewLog
  BY <1>1
<1>6. NewLog.size = 0 /\ NewLog.acked = 0 /\ NewLog.applied = 0
  BY DEF NewLog
<1>7. NewLog = Ring(0, 0, 0, log[b].entries)
  <2>1. Upto(log[b].entries, 0) = [s \in 0..LogLen-1 |-> NoEntry]
    BY LogAssumption DEF Upto
  <2> QED BY <2>1 DEF Ring, NewLog
<1>8. Rings(b)
  <2>1. emitted \in 0..MaxEmits
    BY <1>1, LogAssumption
  <2>2. Written(log[b].entries, 0)
    BY DEF Written
  <2>3. log = [i \in Server |-> log[i]]
    BY <1>1
  <2> QED BY <1>1, <1>5, <1>6, <1>7, <2>1, <2>2, <2>3 DEF Rings
<1>9. Beliefs(b)
  <2>1. NewProcess \in [entries : Nat, bytes : {0}] /\ NewProcess.entries = 0
    BY DEF NewProcess
  <2>2. acked \in [Server -> [Server -> [entries : Nat, bytes : {0}]]]
    BY <1>1, <2>1
  <2>3. \A i \in Server, j \in Server : acked[i][j].entries = 0
    BY <1>1, <2>1
  <2> QED BY <1>5, <1>6, <2>2, <2>3 DEF Beliefs
<1>10. Counts
  <2>1. Counted(0) = <<>>
    BY DEF Counted
  <2>2. state = [i \in Server |-> Counted(0)]
    BY <1>1, <2>1
  <2>3. \A i \in Server : log[i].applied = 0
    BY <1>5, <1>6
  <2> QED BY <2>2, <2>3 DEF Counts
<1> QED BY <1>3, <1>4, <1>8, <1>9, <1>10 DEF LedBy

LEMMA NextLed ==
  ASSUME OneReign, IsFiniteSet(msgs), restarts \in Nat, LogInv, [NextRaft]_raftVars
  PROVE  LogInv'
<1>1. CASE Server = {}
  <2>1. ~ NextRaft
    BY <1>1 DEF NextRaft
  <2> QED BY <1>1, <2>1 DEF LogInv
<1>2. CASE Server # {}
  <2>1. PICK b \in Server : LedBy(b)
    BY <1>2 DEF LogInv
  <2>2. CASE UNCHANGED raftVars
    <3>1. LedBy(b)'
      BY <2>1, <2>2, SameLed DEF raftVars, vars, logVars
    <3> QED BY <2>2, <3>1 DEF LogInv
  <2>3. CASE NextRaft
    <3>1. PICK i \in Server :
             \/ TickExpired(i) \/ TickWaiting(i) \/ TickLeader(i) \/ Emit(i) \/ RestartAll(i)
             \/ \E m \in msgs : Receive(i, m)
      BY <2>3 DEF NextRaft
    <3>2. ~ RestartAll(i)
      <4>1. ~ (restarts < 0)
        OBVIOUS
      <4> QED BY <4>1 DEF RestartAll, Restart, OneReign
    <3>3. \E c \in Server : LedBy(c)'
      BY <2>1, <3>1, <3>2, TickExpiredLed, TickWaitingLed, TickLeaderLed, EmitLed, ReceiveLed
    <3> QED BY <3>3 DEF LogInv
  <2> QED BY <2>2, <2>3
<1> QED BY <1>1, <1>2

-----------------------------------------------------------------------------
(* What the copies of one ring say of the logs and the state machines.     *)

LEMMA CountedIs ==
  ASSUME NEW n \in Nat
  PROVE  /\ Counted(n) \in Seq(Nat) /\ Len(Counted(n)) = n
         /\ \A k \in 1..n : Counted(n)[k] = k
BY DEF Counted

LEMMA CountedPrefix ==
  ASSUME NEW m \in Nat, NEW n \in Nat, m <= n
  PROVE  IsPrefix(Counted(m), Counted(n))
<1>1. PICK s \in Seq(Nat), t \in Seq(Nat) :
         /\ s = Counted(m) /\ t = Counted(n) /\ Len(s) = m /\ Len(t) = n
         /\ \A k \in 1..m : s[k] = t[k]
  <2>1. \A k \in 1..m : Counted(m)[k] = Counted(n)[k]
    BY CountedIs
  <2> QED BY <2>1, CountedIs
<1>2. SubSeq(s, 1, m) = SubSeq(t, 1, m)
  BY <1>1
<1> QED BY <1>1, <1>2 DEF IsPrefix

\* The slots of any node are those of b.
LEMMA SlotOf ==
  ASSUME OneReign, NEW b \in Server, Rings(b), NEW i \in Server, NEW k \in Nat, k < log[i].size
  PROVE  /\ Slot(log[i], k) = log[b].entries[k] /\ k <= LastIndex(log[i])
         /\ Slot(log[i], k) = Write(log[b].entries[k].term, k + 1)
<1>1. /\ emitted \in Nat /\ emitted < LogLen /\ LogLen \in Nat
      /\ RingOf(log[i], emitted, log[b].acked, log[b].entries)
      /\ Written(log[b].entries, emitted)
  BY RingsAre, LogAssumption
<1>2. PICK n, es :
         /\ n \in 0..emitted /\ n = log[i].size /\ es = log[b].entries
         /\ log[i] = Ring(n, log[i].acked, log[i].applied, es)
  BY <1>1 DEF RingOf
<1>3. n \in Nat /\ n <= LogLen /\ k \in 0..n-1 /\ k \in 0..emitted-1
  BY <1>1, <1>2
<1>4. Slot(log[i], k) = es[k]
  BY <1>2, <1>3, SlotIs
<1>5. es[k] = Write(es[k].term, k + 1)
  BY <1>1, <1>2, <1>3 DEF Written
<1>6. LastIndex(log[i]) = n - 1
  BY <1>2, <1>3, RingIs DEF LastIndex
<1> QED BY <1>2, <1>3, <1>4, <1>5, <1>6

LEMMA LedAgree ==
  ASSUME OneReign, NEW b \in Server, LedBy(b)
  PROVE  StateMachinesAgree
<1>1. \A i \in Server : log[i].applied \in Nat /\ state[i] = Counted(log[i].applied)
  BY RingsAre DEF LedBy, Counts, RingOf
<1>3. ASSUME NEW i \in Server, NEW j \in Server
      PROVE  IsPrefix(state[i], state[j]) \/ IsPrefix(state[j], state[i])
  <2>1. PICK m \in Nat, n \in Nat : state[i] = Counted(m) /\ state[j] = Counted(n)
    BY <1>1
  <2>2. m <= n \/ n <= m
    OBVIOUS
  <2> QED BY <2>1, <2>2, CountedPrefix
<1> QED BY <1>3 DEF StateMachinesAgree

LEMMA LedReplicated ==
  ASSUME OneReign, NEW b \in Server, LedBy(b)
  PROVE  AckedIsReplicated
<1>1. ASSUME NEW k \in 0 .. log[b].acked - 1
      PROVE  Majority(Cardinality({j \in Server : Holds(j, b, k)}))
  <2>1. /\ log[b].acked \in Nat /\ log[b].acked <= log[b].size
        /\ \A j \in Server : log[j].size \in Nat
    BY RingsAre DEF LedBy, RingOf
  <2>2. k \in Nat /\ k < log[b].acked /\ k < log[b].size
    BY <2>1
  <2>3. Majority(Cardinality(Having(log[b].acked)))
    BY <2>1, <2>2 DEF LedBy, Beliefs
  <2>4. ASSUME NEW j \in Having(log[b].acked) PROVE Holds(j, b, k)
    <3>1. j \in Server /\ k < log[j].size
      BY <2>1, <2>2 DEF Having
    <3>2. Slot(log[j], k) = Slot(log[b], k) /\ k <= LastIndex(log[j])
      BY <2>2, <3>1, SlotOf DEF LedBy
    <3> QED BY <3>2 DEF Holds
  <2>5. PICK H \in SUBSET Server, J \in SUBSET Server :
           H = Having(log[b].acked) /\ J = {j \in Server : Holds(j, b, k)} /\ H \subseteq J
    <3>1. Having(log[b].acked) \in SUBSET Server
      BY DEF Having
    <3>2. Having(log[b].acked) \subseteq {j \in Server : Holds(j, b, k)}
      BY <2>4, <3>1
    <3> QED BY <3>1, <3>2
  <2>6. Cardinality(H) <= Cardinality(J) /\ Cardinality(H) \in Nat /\ Cardinality(J) \in Nat
    <3>1. IsFiniteSet(J) /\ IsFiniteSet(H)
      BY ServerAssumption, FS_Subset
    <3> QED BY <2>5, <3>1, FS_Subset, FS_CardinalityType
  <2> QED BY <2>3, <2>5, <2>6, MoreIsMajority
<1>2. \A i \in Server : role[i] = Leader => i = b
  BY DEF LedBy, Reign, Follower, Leader
<1> QED BY <1>1, <1>2 DEF AckedIsReplicated

LEMMA LogIsCopied ==
  ASSUME OneReign, LogInv
  PROVE  StateMachinesAgree /\ AckedIsReplicated
<1>1. CASE Server = {}
  BY <1>1 DEF StateMachinesAgree, AckedIsReplicated
<1>2. CASE \E b \in Server : LedBy(b)
  BY <1>2, LedAgree, LedReplicated
<1> QED BY <1>1, <1>2 DEF LogInv

-----------------------------------------------------------------------------
(* The log of a server, as long as one election is held.                   *)

LEMMA SpecRestarts == SpecRaft => [](restarts \in Nat)
<1>1. Proofs!Spec => []Proofs!TypeOK
  BY Proofs!TypeCorrect, ServerAssumption, BoundsAssumption, PTL
     DEF Proofs!IsFiniteSet, IsFiniteSet
<1>2. Proofs!TypeOK => restarts \in Nat
  BY DEF Proofs!TypeOK
<1> QED BY <1>1, <1>2, SpecProved, PTL

LEMMA SpecLed ==
  ASSUME OneReign
  PROVE  SpecRaft => []LogInv
<1>1. InitRaft => LogInv
  BY InitLed DEF LogInv
<1>2. IsFiniteSet(msgs) /\ restarts \in Nat /\ LogInv /\ [NextRaft]_raftVars
      => LogInv'
  BY NextLed
<1> QED BY <1>1, <1>2, SpecFinite, SpecRestarts, PTL DEF SpecRaft

\* Under one leader, for any number of servers and of writes that the ring has
\* slots for, and whatever datagrams are lost, repeated or late: the state
\* machines of any two servers went through the same writes, one of them
\* perhaps further (apply raft.cc:134).
THEOREM MachinesAgree ==
  ASSUME OneReign
  PROVE  SpecRaft => []StateMachinesAgree
<1>1. LogInv => StateMachinesAgree
  BY LogIsCopied
<1> QED BY <1>1, SpecLed, PTL

\* Under one leader, what it takes for acknowledged is in the rings of a
\* majority: a belief about a peer is never ahead of the peer's log, however
\* late the answer (refreshAcked raft.cc:368, handleDone raft.cc:763).
THEOREM AckedStaysWithMajority ==
  ASSUME OneReign
  PROVE  SpecRaft => []AckedIsReplicated
<1>1. LogInv => AckedIsReplicated
  BY LogIsCopied
<1> QED BY <1>1, SpecLed, PTL
=============================================================================
