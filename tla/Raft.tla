-------------------------------- MODULE Raft --------------------------------
(***************************************************************************)
(* The replicated log of the raft_server example, on top of the election   *)
(* state of RaftNode: the ring of entries, the entry being received in     *)
(* chunks, what each node believes its peers hold, compaction into a       *)
(* snapshot, and the state machine that the log is applied to.             *)
(*                                                                         *)
(* A byte string is a sequence of chunks of chunk_len bytes.  An update of *)
(* a client is one chunk, a snapshot SnapLen chunks.  A chunk is its part  *)
(* number and the body it is a part of; a body, and the state machine, is  *)
(* the sequence of the updates applied, which are numbered as emitted.     *)
(***************************************************************************)
EXTENDS RaftNode, Sequences, FiniteSetsExt, SequencesExt

CONSTANTS
    LogLen,     \* Config::log_len: the slots of the ring
    SnapLen,    \* the chunks of a snapshot
    Duplicates, \* whether a datagram may be received more than once
    MaxEmits    \* bound: how many writes of clients are accepted

ASSUME LogAssumption ==
    {LogLen, SnapLen} \subseteq Nat \ {0} /\ Duplicates \in BOOLEAN /\ MaxEmits \in Nat

VARIABLES
    log,        \* m_log: [first, size, acked, applied, entries, newentry]
    acked,      \* acked[i][j]: m_peers[j]->acked on node i, a Process
    state,      \* the state machine: the updates applied, in order
    emitted,    \* how many writes of clients were accepted
    broken,     \* the assertion about its log that stopped a node, or "none"
    received    \* the datagrams that may not be received again

logVars  == <<log, acked, state, emitted, broken>>
raftVars == <<vars, logVars, received>>

-----------------------------------------------------------------------------
(* Entries and the ring.                                                   *)

\* update.len is Len(data); a freed slot has no data and keeps its `bytes'.
Entry(t, snapshot, data) ==
    [term |-> t, snapshot |-> snapshot, bytes |-> Len(data), data |-> data]
NoEntry  == Entry(0, FALSE, <<>>)

\* The entry being received: the chunks got so far, so `bytes' is Len(data).
NoChunks == [term |-> 0, data |-> <<>>]

NewLog == [first |-> 0, size |-> 0, acked |-> 0, applied |-> 0,
           entries |-> [s \in 0..LogLen-1 |-> NoEntry], newentry |-> NoChunks]
NewProcess == [entries |-> 0, bytes |-> 0]

Client(u)      == <<[body |-> <<u>>, part |-> 1]>>
Snapshot(body) == [k \in 1..SnapLen |-> [body |-> body, part |-> k]]

LastIndex(l)    == l.first + l.size - 1
Slot(l, k) == l.entries[k % LogLen]
Full(l)    == l.size = LogLen

InitRaft ==
    /\ Init
    /\ log     = [i \in Server |-> NewLog]
    /\ acked   = [i \in Server |-> [j \in Server |-> NewProcess]]
    /\ state   = [i \in Server |-> <<>>]
    /\ emitted = 0
    /\ received = {}
    /\ broken  = [i \in Server |-> "none"]

\* A failed assertion about the log ends the process.
Fail(i, why) ==
    /\ broken' = [broken EXCEPT ![i] = why]
    /\ UNCHANGED <<vars, log, acked, state, emitted>>

Live(i) == i \notin aborted /\ broken[i] = "none"

-----------------------------------------------------------------------------
(* apply, refreshAcked                                                     *)

ToApply(l) == l.applied .. Min({l.acked, LastIndex(l) + 1}) - 1

\* A client's update; 0 for a slot that never had one, which is no JSON.
Effect(e) == IF e.data = <<>> THEN 0 ELSE e.data[1].body[1]

CanApply(l) == \A k \in ToApply(l) : Slot(l, k).bytes = Len(Slot(l, k).data)

\* Mutant: the index is raised before the entry is taken.
ApplyNext(i, l) ==
    /\ log'   = [log EXCEPT ![i] = [l EXCEPT !.applied = @ + Cardinality(ToApply(l))]]
    /\ state' = [state EXCEPT ![i] = @ \o
                    [k \in 1..Cardinality(ToApply(l)) |-> Effect(Slot(l, l.applied + k))]]

Apply(i, l) ==
    /\ log'   = [log EXCEPT ![i] = [l EXCEPT !.applied = @ + Cardinality(ToApply(l))]]
    /\ state' = [state EXCEPT ![i] = @ \o
                    [k \in 1..Cardinality(ToApply(l)) |-> Effect(Slot(l, l.applied + k - 1))]]

\* Mutant: what the node holds itself counts as acknowledged.
AckedAtOnce(l, i) == [l EXCEPT !.acked = Max({@, LastIndex(l) + 1})]

\* A majority, the node itself included, is believed to hold n entries.
Replicated(i, n) ==
    /\ n > log[i].acked
    /\ Majority(1 + Cardinality({j \in Peers(i) : acked[i][j].entries >= n}))
RefreshAcked(l, i) ==
    [l EXCEPT !.acked =
        Max({@} \cup {n \in {acked[i][j].entries : j \in Peers(i)} : Replicated(i, n)})]

\* The rest of every tick, after its timer part.  The applier asserts that an
\* entry is complete (raft.cc:139).
Refresh(i) ==
    LET l == RefreshAcked(log[i], i)
    IN  /\ IF CanApply(l)
           THEN Apply(i, l) /\ UNCHANGED broken
           ELSE broken' = [broken EXCEPT ![i] = "apply"] /\ UNCHANGED <<log, state>>
        /\ UNCHANGED <<acked, emitted>>

-----------------------------------------------------------------------------
(* beat: what peer j is sent by a node with log l and a belief a about j.  *)

SendIndex(l, a) == Max({l.first, a.entries})
Sends(l, a)     == a.entries <= LastIndex(l)
CanSend(l, a)   ==
    Sends(l, a) =>
        /\ a.entries < l.first => Slot(l, l.first).snapshot
        /\ a.bytes < Len(Slot(l, SendIndex(l, a)).data)
Payload(l, a) ==
    IF ~ Sends(l, a) THEN <<>>
    ELSE LET k == SendIndex(l, a)
             e == Slot(l, k)
         IN  <<[snapshot  |-> e.snapshot, previndex |-> k - 1,
                prevterm  |-> IF k > 0 THEN Slot(l, k - 1).term ELSE -1,
                entryTerm |-> e.term, totalLen |-> Len(e.data),
                offset    |-> a.bytes, chunk |-> e.data[a.bytes + 1]]>>
Update(i, j, s, l, a) ==
    [type |-> "update", curterm |-> term[i], from |-> i, to |-> j, sequence |-> s,
     acked |-> l.acked, entry |-> Payload(l, a)]

\* beat(NOBODY) with log l and beliefs a.
BeatAll(i, l, a) ==
    /\ MayUpdate(peerNum - 1)
    /\ Number(i, Peers(i))
    /\ msgs' = msgs \cup {Update(i, j, sequence[i][j] + 1, l, a[j]) : j \in Peers(i)}
CanBeatAll(i, l, a) == \A j \in Peers(i) : CanSend(l, a[j])

-----------------------------------------------------------------------------
(* tick                                                                    *)

\* Mutant: the claim carries the term from before the election.
ClaimOldTerm(i, j) ==
    [type |-> "claim", curterm |-> term[i], from |-> i, to |-> j,
     sequence |-> sequence[i][j] + 1, index |-> -1, lastTerm |-> -1]

ClaimTo(i, j) ==
    LET l == log[i]
    IN  [type |-> "claim", curterm |-> term[i] + 1, from |-> i, to |-> j,
         sequence |-> sequence[i][j] + 1, index |-> LastIndex(l),
         lastTerm |-> IF LastIndex(l) >= 0 THEN Slot(l, LastIndex(l)).term ELSE -1]
Claim(i) ==
    /\ StartElection(i)
    /\ msgs' = IF Majority(1) THEN msgs ELSE msgs \cup {ClaimTo(i, j) : j \in Peers(i)}
    /\ Refresh(i)

\* The timer of a follower or of a candidate expires.
TickExpired(i) ==
    /\ Live(i)
    /\ role[i] \in {Follower, Candidate}
    /\ MayClaim(i)
    /\ IF role[i] = Candidate /\ leaderId[i] # NOBODY
       THEN Abort(i) /\ UNCHANGED logVars
       ELSE Claim(i)

\* The timer of a follower or of a candidate still runs.
TickWaiting(i) ==
    /\ Live(i)
    /\ role[i] \in {Follower, Candidate}
    /\ Refresh(i)
    /\ UNCHANGED vars

\* A heartbeat to every peer if the timer expired, then the rest of the tick,
\* then checkIsLeaderWithMs.
TickLeader(i) ==
    /\ Live(i)
    /\ role[i] = Leader
    /\ \E expired \in BOOLEAN, recent \in 1..peerNum :
          IF expired /\ Peers(i) # {} /\ leaderId[i] # i
          THEN Abort(i) /\ UNCHANGED logVars
          ELSE IF expired /\ ~ CanBeatAll(i, log[i], acked[i]) THEN Fail(i, "beat")
          ELSE /\ IF expired THEN BeatAll(i, log[i], acked[i]) ELSE UNCHANGED <<sequence, msgs>>
               /\ StayLeader(i, recent)
               /\ Refresh(i)

-----------------------------------------------------------------------------
(* compact: the applied entries are replaced by one snapshot, in the slot  *)
(* of the last of them.                                                    *)

Applied(l)    == l.applied - l.first
CanCompact(l) ==
    /\ Applied(l) <= LogLen
    /\ \A k \in l.first .. l.applied - 1 : Slot(l, k).data # <<>>

\* Mutant: the snapshot is put into the slot that was the first.
CompactInPlace(l, body) ==
    [l EXCEPT !.first = l.applied - 1,
              !.size  = @ - (Applied(l) - 1),
              !.entries[l.first % LogLen] = Entry(@.term, TRUE, Snapshot(body))]

Compact(l, body) ==
    IF Applied(l) <= 0 THEN l
    ELSE [l EXCEPT !.first = l.applied - 1,
                   !.size  = @ - (Applied(l) - 1),
                   !.entries = [s \in 0..LogLen-1 |->
                       IF s = (l.applied - 1) % LogLen
                       THEN Entry(@[s].term, TRUE, Snapshot(body))
                       ELSE IF \E k \in l.first .. l.applied - 2 : s = k % LogLen
                       THEN [@[s] EXCEPT !.snapshot = FALSE, !.data = <<>>]
                       ELSE @[s]]]

\* A peer that needs the new snapshot gets it from its first byte on.
Restarted(i, l) ==
    [j \in Server |-> IF j # i /\ Applied(log[i]) > 0 /\ acked[i][j].entries + 1 <= l.first
                      THEN [acked[i][j] EXCEPT !.bytes = 0]
                      ELSE acked[i][j]]

\* emit: a client writes.  A full log is compacted first, and the write is
\* refused if that leaves no room.
HasRoom(l) == ~ Full(l) \/ Applied(l) > 1
Compacted(i) == IF Full(log[i]) THEN Compact(log[i], state[i]) ELSE log[i]
CompactedAcks(i) == IF Full(log[i]) THEN Restarted(i, Compacted(i)) ELSE acked[i]
Emit(i) ==
    /\ Live(i)
    /\ role[i] = Leader
    /\ LET l == Compacted(i)
           k == LastIndex(l) + 1
           e == [l EXCEPT !.entries[k % LogLen] = Entry(term[i], FALSE, Client(emitted + 1)),
                          !.size = @ + 1]
           a == CompactedAcks(i)
       IN  IF leaderId[i] # i THEN Abort(i) /\ UNCHANGED logVars
           ELSE IF Full(log[i]) /\ ~ CanCompact(log[i]) THEN Fail(i, "compact")
           ELSE IF ~ HasRoom(log[i])
           THEN /\ log' = [log EXCEPT ![i] = l]
                /\ acked' = [acked EXCEPT ![i] = a]
                /\ UNCHANGED <<vars, state, emitted, broken>>
           ELSE IF Slot(l, k).data # <<>> THEN Fail(i, "emit")
           ELSE IF ~ CanBeatAll(i, e, a) THEN Fail(i, "beat")
           ELSE /\ emitted < MaxEmits
                /\ BeatAll(i, e, a)
                /\ log' = [log EXCEPT ![i] = e]
                /\ acked' = [acked EXCEPT ![i] = a]
                /\ emitted' = emitted + 1
                /\ UNCHANGED <<term, voteFor, role, votes, leaderId, aborted, restarts,
                               voters, state, broken>>

-----------------------------------------------------------------------------
(* handleUpdate                                                            *)

Appendable(l, previndex, prevterm) ==
    /\ previndex \in (IF l.first = 0 THEN -1 ELSE l.first) .. LastIndex(l)
    /\ previndex # -1 => Slot(l, previndex).term = prevterm

Fits(l, m) ==
    m.entry # <<>> /\ ~ m.entry[1].snapshot
        => Appendable(l, m.entry[1].previndex, m.entry[1].prevterm)
Heard(i, m) == Fits(log[i], m) /\ Timely(i, m)

\* What the leader says is acknowledged, as far as this log reaches, is taken
\* over; and the leader is believed to hold that much.
Learns(i, m) == m.acked > log[i].acked
LearnAcked(i, m) ==
    IF Learns(i, m)
    THEN [log[i] EXCEPT !.acked = Min({log[i].first + log[i].size, m.acked})]
    ELSE log[i]

Reply(i, m, l, success) ==
    msgs' = msgs \cup {[type |-> "done", curterm |-> TermAt(i, m), from |-> i, to |-> m.from,
                        sequence |-> m.sequence, success |-> success,
                        entries |-> LastIndex(l) + 1, bytes |-> Len(l.newentry.data)]}

\* The outcome of an update that was heard: the log and the state machine after
\* it, the beliefs about peers that a compaction resets, the answer.
Ends(i, m, l, body, acks, success) ==
    /\ TakeUpdate(i, m, TRUE)
    /\ log' = [log EXCEPT ![i] = l]
    /\ state' = [state EXCEPT ![i] = body]
    /\ acked' = [acked EXCEPT ![i] =
                    [acks EXCEPT ![m.from] =
                        IF Learns(i, m)
                        THEN [entries |-> LearnAcked(i, m).acked, bytes |-> 0] ELSE @]]
    /\ Reply(i, m, l, success)
    /\ UNCHANGED <<emitted, broken>>

\* The update does not fit the log or is of an older term.
UpdateRefused(i, m) ==
    /\ ~ Heard(i, m)
    /\ TakeUpdate(i, m, Fits(log[i], m))
    /\ Reply(i, m, log[i], FALSE)
    /\ UNCHANGED logVars

UpdateHeartbeat(i, m) ==
    /\ Heard(i, m)
    /\ m.entry = <<>>
    /\ LET l == [LearnAcked(i, m) EXCEPT !.newentry.data = <<>>]
       IN  Ends(i, m, l, state[i], acked[i], TRUE)

\* A chunk that does not continue what was received: of another term, or past
\* a gap.
OtherTerm(l, c) == c.offset > 0 /\ l.newentry.term # c.entryTerm
Gap(l, c)       == c.offset > Len(l.newentry.data)

UpdateIgnored(i, m) ==
    /\ Heard(i, m)
    /\ m.entry # <<>>
    /\ LET l == LearnAcked(i, m)
           c == m.entry[1]
       IN  /\ OtherTerm(l, c) \/ Gap(l, c)
           /\ Ends(i, m,
                   IF OtherTerm(l, c)
                   THEN [l EXCEPT !.newentry = [term |-> c.entryTerm, data |-> <<>>]] ELSE l,
                   state[i], acked[i], FALSE)

\* The entry received so far, with the chunk c.
Received(l, c) ==
    [term |-> c.entryTerm, data |-> Append(SubSeq(l.newentry.data, 1, c.offset), c.chunk)]

UpdatePart(i, m, l, c) ==
    /\ Len(Received(l, c).data) # c.totalLen
    /\ Ends(i, m, [l EXCEPT !.newentry = Received(l, c)], state[i], acked[i], TRUE)

\* restore: the log becomes the one snapshot, the state machine its body.
CanRestore(l) ==
    l.size <= LogLen /\ \A k \in l.first .. LastIndex(l) : Slot(l, k).data # <<>>

\* Mutant: the last update of the snapshot does not count as applied.
RestoreOneLess(l, c) ==
    [l EXCEPT !.first = c.previndex + 1, !.size = 1, !.applied = c.previndex + 1,
              !.newentry = NoChunks,
              !.entries = [s \in 0..LogLen-1 |-> Entry(c.entryTerm, TRUE, Received(l, c).data)]]

Restore(l, c) ==
    [l EXCEPT !.first = c.previndex + 1, !.size = 1, !.applied = c.previndex + 2,
              !.newentry = NoChunks,
              !.entries = [s \in 0..LogLen-1 |->
                  IF s = (c.previndex + 1) % LogLen
                  THEN Entry(c.entryTerm, TRUE, Received(l, c).data)
                  ELSE IF \E k \in l.first .. LastIndex(l) : s = k % LogLen
                  THEN [@[s] EXCEPT !.data = <<>>]
                  ELSE @[s]]]

\* The parts of one snapshot in their order, or something that is no snapshot.
Torn == <<-1>>
Body(data) == IF data = Snapshot(data[1].body) THEN data[1].body ELSE Torn

UpdateSnapshot(i, m, l, c) ==
    /\ Len(Received(l, c).data) = c.totalLen
    /\ c.snapshot
    /\ IF CanRestore(l)
       THEN Ends(i, m, Restore(l, c), Body(Received(l, c).data), acked[i], TRUE)
       ELSE Fail(i, "restore")

\* append: behind the last entry, after a compaction if the log is full, or in
\* place of the entry at its index; if that one is of another term, the log
\* ends before it.
Extends(l, c)    == c.previndex = LastIndex(l)
MakeRoom(i, l, c) == IF Extends(l, c) /\ Full(l) THEN Compact(l, state[i]) ELSE l
NoRoom(l, c)     == Extends(l, c) /\ Full(l) /\ Applied(l) <= 0

Place(l, c) ==
    LET k == c.previndex + 1
    IN  [l EXCEPT !.size = IF k > LastIndex(l) THEN @ + 1
                           ELSE IF Slot(l, k).term # c.entryTerm THEN k - l.first ELSE @,
                  !.entries[k % LogLen] = Entry(c.entryTerm, FALSE, Received(l, c).data),
                  !.newentry = NoChunks]
CanPlace(l, c) ==
    c.previndex < LastIndex(l) => Slot(l, c.previndex + 1).data # <<>>

UpdateAppend(i, m, l, c) ==
    /\ Len(Received(l, c).data) = c.totalLen
    /\ ~ c.snapshot
    /\ LET r == MakeRoom(i, l, c)
       IN  IF NoRoom(l, c)
           THEN Ends(i, m, [l EXCEPT !.newentry = Received(l, c)], state[i], acked[i], FALSE)
           ELSE IF Extends(l, c) /\ Full(l) /\ ~ CanCompact(l) THEN Fail(i, "compact")
           ELSE IF ~ CanPlace(r, c) THEN Fail(i, "append")
           ELSE Ends(i, m, Place(r, c), state[i],
                     IF Extends(l, c) /\ Full(l) THEN Restarted(i, r) ELSE acked[i], TRUE)

UpdateChunk(i, m) ==
    /\ Heard(i, m)
    /\ m.entry # <<>>
    /\ LET l == LearnAcked(i, m)
           c == m.entry[1]
       IN  /\ ~ OtherTerm(l, c) /\ ~ Gap(l, c)
           /\ \/ UpdatePart(i, m, l, c)
              \/ UpdateSnapshot(i, m, l, c)
              \/ UpdateAppend(i, m, l, c)

HandleUpdate(i, m) ==
    /\ m.type = "update"
    /\ \/ UpdateRefused(i, m)
       \/ UpdateHeartbeat(i, m)
       \/ UpdateIgnored(i, m)
       \/ UpdateChunk(i, m)

-----------------------------------------------------------------------------
(* handleDone, handleClaim, handleVote                                     *)

\* The leader believes what its peer says it holds; if the peer refused, one
\* entry less than before.
Believed(a, m) ==
    IF m.success THEN [entries |-> m.entries, bytes |-> m.bytes]
    ELSE IF a.entries > 0 THEN [entries |-> a.entries - 1, bytes |-> 0]
    ELSE a

HandleDone(i, m) ==
    /\ m.type = "done"
    /\ LET counts == Takes(i, m) /\ m.curterm >= term[i]
           a      == IF counts THEN Believed(acked[i][m.from], m) ELSE acked[i][m.from]
           beats  == counts /\ Sends(log[i], a)
       IN  IF beats /\ leaderId[i] = i /\ ~ CanSend(log[i], a)
           THEN Fail(i, "beat")
           ELSE /\ beats => MayUpdate(1)
                /\ TakeDone(i, m, beats)
                /\ acked' = [acked EXCEPT ![i][m.from] = a]
                /\ msgs' = IF beats /\ leaderId[i] = i
                           THEN msgs \cup {Update(i, m.from, sequence[i][m.from] + 2, log[i], a)}
                           ELSE msgs
                /\ UNCHANGED <<log, state, emitted, broken>>

\* The check of the candidate's log: by its length first, and by the term of
\* the last entry only if the lengths are the same.
LogOk(l, m) ==
    /\ m.index >= LastIndex(l)
    /\ m.index = LastIndex(l) /\ m.index >= 0 => Slot(l, m.index).term = m.lastTerm

HandleClaim(i, m) ==
    /\ m.type = "claim"
    /\ LET granted == Grants(i, m, LogOk(log[i], m))
       IN  /\ TakeClaim(i, m, granted)
           /\ msgs' = msgs \cup {[type |-> "vote", curterm |-> TermAt(i, m), from |-> i,
                                  to |-> m.from, sequence |-> m.sequence,
                                  granted |-> granted]}
    /\ UNCHANGED logVars

\* becomeLeader forgets the bytes its peers hold of an entry, not the entries.
HandleVote(i, m) ==
    /\ m.type = "vote"
    /\ TakeVote(i, m)
    /\ acked' = [acked EXCEPT ![i] =
                    IF role[i] # Leader /\ role'[i] = Leader
                    THEN [j \in Server |-> [@[j] EXCEPT !.bytes = 0]] ELSE @]
    /\ UNCHANGED <<msgs, log, state, emitted, broken>>

-----------------------------------------------------------------------------
Receive(i, m) ==
    /\ Live(i)
    /\ m.to = i
    /\ m \notin received
    /\ received' = IF Duplicates THEN received ELSE received \cup {m}
    /\ \/ HandleUpdate(i, m)
       \/ HandleDone(i, m)
       \/ HandleClaim(i, m)
       \/ HandleVote(i, m)

\* Nothing is on disk: the log and the state machine are gone too.
RestartAll(i) ==
    /\ Restart(i)
    /\ log'    = [log EXCEPT ![i] = NewLog]
    /\ acked'  = [acked EXCEPT ![i] = [j \in Server |-> NewProcess]]
    /\ state'  = [state EXCEPT ![i] = <<>>]
    /\ broken' = [broken EXCEPT ![i] = "none"]
    /\ UNCHANGED emitted

NextRaft ==
    \E i \in Server :
        \/ /\ TickExpired(i) \/ TickWaiting(i) \/ TickLeader(i) \/ Emit(i) \/ RestartAll(i)
           /\ UNCHANGED received
        \/ \E m \in msgs : Receive(i, m)

SpecRaft == InitRaft /\ [][NextRaft]_raftVars

-----------------------------------------------------------------------------
(* Properties.                                                             *)

\* The state machines of any two nodes went through the same updates, one of
\* them perhaps further (apply raft.cc:134, restore raft.cc:488).
StateMachinesAgree ==
    \A i, j \in Server : IsPrefix(state[i], state[j]) \/ IsPrefix(state[j], state[i])

\* m_log.applied is the number of updates in the state machine, those that
\* came in a snapshot included (raft.cc:141, 515).
AppliedCountsState == \A i \in Server : Len(state[i]) = log[i].applied

\* The ring of a leader holds every entry from `first' on, and the snapshot in
\* its first slot, if there is one, stands for exactly the updates up to that
\* index (compact raft.cc:451, emit raft.cc:522).
LeaderRingIntact ==
    \A i \in Server :
        LET l == log[i]
        IN  role[i] = Leader =>
                /\ l.size <= LogLen
                /\ \A k \in l.first .. LastIndex(l) :
                      IF Slot(l, k).snapshot
                      THEN k = l.first /\ Slot(l, k).data = Snapshot(SubSeq(state[i], 1, k + 1))
                      ELSE /\ Len(Slot(l, k).data) = 1
                           /\ k < l.applied => Slot(l, k).data = Client(state[i][k + 1])

\* Entry k of the log of i is also in the log of j, as far as no snapshot
\* stands for it in either.
InSnapshot(l, k) == k < l.first \/ (k = l.first /\ Slot(l, k).snapshot)
Holds(j, i, k) ==
    /\ k <= LastIndex(log[j])
    /\ \/ InSnapshot(log[j], k)
       \/ InSnapshot(log[i], k)
       \/ Slot(log[j], k).data = Slot(log[i], k).data

\* What a leader takes for acknowledged is in the logs of a majority
\* (refreshAcked raft.cc:368; proto.h:65).
AckedIsReplicated ==
    \A i \in Server :
        role[i] = Leader =>
            \A k \in 0 .. log[i].acked - 1 :
                Majority(Cardinality({j \in Server : Holds(j, i, k)}))

\* What a leader applied is in the logs of a majority, so that it survives the
\* leader (apply raft.cc:134, handleDone raft.cc:794).
AppliedIsReplicated ==
    \A i \in Server :
        role[i] = Leader =>
            \A k \in 0 .. log[i].applied - 1 :
                Majority(Cardinality({j \in Server : Holds(j, i, k)}))

\* A node that keeps running never goes back behind an update it applied: it
\* takes no snapshot older than its state machine (handleUpdate raft.cc:662,
\* restore raft.cc:515).
AppliedGrows ==
    [][restarts' = restarts =>
          \A i \in Server : log'[i].applied >= log[i].applied]_raftVars

\* A state machine is never made from parts of two snapshots (handleUpdate
\* raft.cc:695-727).
SnapshotsAreWhole == \A i \in Server : state[i] # Torn

\* Every behaviour with a log is one of RaftElection, where the log only made
\* choices: what holds there of terms, votes and leaders holds here.
Election == INSTANCE RaftElection WITH
    msgs <- {IF m.type = "vote" THEN m
             ELSE [type |-> m.type, curterm |-> m.curterm, from |-> m.from, to |-> m.to,
                   sequence |-> m.sequence] : m \in msgs}
IsElection == Election!Spec
=============================================================================
