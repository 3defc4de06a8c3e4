------------------------------ MODULE MqBroker ------------------------------
(* The broker of example/mqbroker with one topic, and its connections to a   *)
(* producer and a consumer: MqBroker (mqbroker.cc), Partition, and           *)
(* CommitPartition (commitpartition.cpp) with its thread.                    *)
EXTENDS Partition

CONSTANTS
    Long,          \* the messages that are two units long, the others are one
    MaxLog,        \* bound: packets stored
    MaxFaults      \* bound: crashes of the broker and connections lost

VARIABLES
    broker,        \* down, starting, up; down with no log for the last index,
                   \* or one without its length; astray
    part,          \* the partition of the topic
    subscribed,    \* whether m_consumer has the consumer's connection
    group,         \* CommitPartition::m_infos, the offset of the group
    isDirty,
    thread,        \* where persistentToDiskInThread is
    replicate,     \* its copy of m_infos
    commitFile,    \* the offset in the file of commits
    atBroker, atClient,   \* per client: whether the side has the connection open
    toBroker, toClient,   \* per client: packets under way
    faults

threadVars == <<thread, replicate, commitFile>>
netVars == <<atBroker, atClient, toBroker, toClient>>
brokerVars == <<broker, part, subscribed, group, isDirty, threadVars, netVars, faults>>

Client == {"producer", "consumer"}
Everyone(x) == [c \in Client |-> x]

InitBroker ==
    /\ broker = "up" /\ part = NoPartition /\ subscribed = FALSE
    /\ group = 0 /\ isDirty = FALSE
    /\ thread = "wait" /\ replicate = 0 /\ commitFile = 0
    /\ atBroker = Everyone(FALSE) /\ atClient = Everyone(FALSE)
    /\ toBroker = Everyone(<<>>) /\ toClient = Everyone(<<>>)
    /\ faults = 0

\* A crash of the process: what is mapped or in files stays.
EndsAs(end) ==
    /\ broker' = end /\ thread' = "gone"
    /\ atBroker' = Everyone(FALSE) /\ toBroker' = Everyone(<<>>)
    /\ subscribed' = FALSE
    /\ UNCHANGED <<group, isDirty, replicate, commitFile, atClient, toClient>>
Dies == EndsAs("down") /\ UNCHANGED part

Runs == broker \in {"starting", "up"}
Crash ==
    /\ Runs /\ faults < MaxFaults
    /\ Dies /\ faults' = faults + 1

\* The constructor of CommitPartition starts the thread before isQuit and
\* isDirty have a value: the thread may leave, wait, or copy m_infos while it
\* is still empty.
Start ==
    /\ broker = "down"
    /\ broker' = "starting"
    /\ part' = IF Exists(part) THEN Recovered(part) ELSE part
    /\ group' = 0 /\ isDirty' = FALSE
    /\ thread' \in {"wait", "copy", "gone"}
    /\ UNCHANGED <<subscribed, replicate, commitFile, netVars, faults>>

\* A broker that died between the two files reads the last log under the new
\* index, and is followed no further.  Without any log, or with one that has no
\* length, every start ends in an assertion or a bus error: there is no action.
StartAstray ==
    /\ broker = "no log" /\ Exists(part)
    /\ broker' = "astray"
    /\ UNCHANGED <<part, subscribed, group, isDirty, threadVars, netVars, faults>>
\* What the process has of the partition.
ReadBack == IF broker = "astray" THEN RecoveredWithoutLog(part) ELSE part

\* CommitPartition::init
LoadCommits ==
    /\ broker = "starting"
    /\ broker' = "up" /\ group' = commitFile
    /\ UNCHANGED <<part, subscribed, isDirty, threadVars, netVars, faults>>

\* The timers.  persistentCommitWithMs only wakes the thread.
PersistentPartition ==
    /\ broker = "up" /\ part.dirty
    /\ part' = SyncToDisk(part)
    /\ UNCHANGED <<broker, subscribed, group, isDirty, threadVars, netVars, faults>>
PersistentCommit ==
    /\ broker = "up" /\ thread = "wait" /\ isDirty
    /\ thread' = "copy" /\ isDirty' = FALSE
    /\ UNCHANGED <<broker, part, subscribed, group, replicate, commitFile, netVars, faults>>

\* persistentToDiskInThread: the copy under the lock, then the other file and
\* the rename, then the loop looks at isDirty again.
CopyInfos ==
    /\ Runs /\ thread = "copy"
    /\ replicate' = group /\ thread' = "rename"
    /\ UNCHANGED <<broker, part, subscribed, group, isDirty, commitFile, netVars, faults>>
RenameFile ==
    /\ Runs /\ thread = "rename"
    /\ commitFile' = replicate
    /\ thread' = IF isDirty THEN "copy" ELSE "wait"
    /\ isDirty' = FALSE
    /\ UNCHANGED <<broker, part, subscribed, group, replicate, netVars, faults>>

\* A packet goes to a side that has the connection open, and is lost otherwise.
ToClient(c, packets) ==
    toClient' = IF atClient[c] THEN [toClient EXCEPT ![c] = @ \o packets] ELSE toClient
Packet(c) == Head(toBroker[c])
Taken(c, command) ==
    /\ broker = "up" /\ atBroker[c] /\ toBroker[c] # <<>>
    /\ Packet(c).command = command
    /\ toBroker' = [toBroker EXCEPT ![c] = Tail(@)]

StoredOnce(p, m) == IF Exists(p) THEN p ELSE AddToLog(NewPartition, m)   \* mutant
Stored(p, m) == AddToLog(IF Exists(p) THEN p ELSE NewPartition, m)

\* Whether a delivery is stored: m_messageId_set has no id, since nothing puts
\* one into it, and so a repeated one is stored again.  Then it is
\* acknowledged.
Message(id) == [id |-> id, len |-> IF id \in Long THEN 2 ELSE 1]
HandleDeliver ==
    /\ Taken("producer", "delivery") /\ part.size < MaxLog
    /\ part' = Stored(part, Message(Packet("producer").id))
    /\ ToClient("producer", <<Packet("producer").id>>)
    /\ UNCHANGED <<broker, subscribed, group, isDirty, threadVars, atBroker, atClient, faults>>

\* The process dies while mmapNewLog makes the next files of the partition:
\* with the index only, with a log that has no length yet, or with both.
DiesInFiles ==
    /\ broker = "up" /\ atBroker["producer"] /\ toBroker["producer"] # <<>> /\ part.size < MaxLog
    /\ Exists(part) => IsFull(part, Message(Packet("producer").id))
    /\ faults < MaxFaults /\ faults' = faults + 1
    /\ \/ \E end \in {"no log", "no length"} : EndsAs(end) /\ part' = SyncToDisk(part)
       \/ EndsAs("down") /\ part' = MmapNewLog(part)

HandleSubscribe ==
    /\ Taken("consumer", "subscribe")
    /\ subscribed' = (subscribed \/ Exists(part))
    /\ ToClient("consumer", <<[command |-> IF Exists(part) THEN "subscribe" ELSE "unknown topic"]>>)
    /\ UNCHANGED <<broker, part, group, isDirty, threadVars, atBroker, atClient, faults>>

\* Offset 0 asks for what the group has committed.  When the first packet found
\* is longer than the limit or ends with the file, sendToConsumer ends in an
\* assertion.
HandlePull ==
    /\ Taken("consumer", "pull")
    /\ \E limit \in Limits :
       LET asked   == Packet("consumer").offset
           offset  == IF asked = 0 THEN group ELSE asked
           packets == SendToConsumer(part, offset, limit)
           reply == IF ~subscribed THEN <<[command |-> "unknown consumer"]>>
                    ELSE IF part.size <= offset
                    THEN <<[command |-> "too large", offset |-> offset]>>
                    ELSE [i \in DOMAIN packets |->
                             [command |-> "message", id |-> packets[i].id, offset |-> packets[i].offset]]
       IN  /\ reply # <<>>
           /\ ToClient("consumer", reply)
    /\ UNCHANGED <<broker, part, subscribed, group, isDirty, threadVars, atBroker, atClient, faults>>
FailsAt(limit) ==
    /\ broker = "up" /\ atBroker["consumer"] /\ toBroker["consumer"] # <<>>
    /\ Packet("consumer").command = "pull" /\ subscribed
    /\ LET asked  == Packet("consumer").offset
           offset == IF asked = 0 THEN group ELSE asked
       IN  part.size > offset /\ SendToConsumer(part, offset, limit) = <<>>
PullAsserts ==
    /\ faults < MaxFaults /\ \E limit \in Limits : FailsAt(limit)
    /\ Dies /\ faults' = faults + 1

CommittedNext(offset) == offset + 1   \* mutant
Committed(offset) == IF offset > group THEN offset ELSE group
HandleCommit ==
    /\ Taken("consumer", "commit")
    /\ group' = Committed(Packet("consumer").offset)
    /\ isDirty' = TRUE
    /\ ToClient("consumer", <<[command |-> "commit"]>>)
    /\ UNCHANGED <<broker, part, subscribed, threadVars, atBroker, atClient, faults>>

\* The broker's side of a connection closes: removeInvaildConnection.
CloseAtBroker(c) ==
    /\ broker = "up" /\ atBroker[c]
    /\ \/ ~atClient[c] /\ UNCHANGED faults
       \/ atClient[c] /\ faults < MaxFaults /\ faults' = faults + 1
    /\ atBroker' = [atBroker EXCEPT ![c] = FALSE]
    /\ toBroker' = [toBroker EXCEPT ![c] = <<>>]
    /\ subscribed' = (subscribed /\ c # "consumer")
    /\ UNCHANGED <<broker, part, group, isDirty, threadVars, atClient, toClient>>

BrokerNext ==
    \/ Crash \/ DiesInFiles \/ Start \/ StartAstray \/ LoadCommits
    \/ PersistentPartition \/ PersistentCommit \/ CopyInfos \/ RenameFile
    \/ HandleDeliver \/ HandleSubscribe \/ HandlePull \/ PullAsserts \/ HandleCommit
    \/ \E c \in Client : CloseAtBroker(c)
=============================================================================
