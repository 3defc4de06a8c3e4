--------------------------------- MODULE Mq ---------------------------------
(* A producer (mqbusd/producer.cc) and a consumer (mqbusd/consumer.cc) of a  *)
(* topic, with the broker.  What the directory tells them is left out: a     *)
(* client connects again some time after its connection is gone.             *)
EXTENDS MqBroker

CONSTANTS
    MaxPuts,       \* bound: messages put
    MaxFlight      \* bound: packets under way when a client sends

VARIABLES
    puts, sendQueue, resend,      \* messages put; m_send_queue, m_resend_set
    isVaild,                      \* the producer had a connection at the last sendInLoop
    okd, failed,                  \* messages reported by m_send_ok_cb, and dropped ones by m_send_cb
    vaild, pulling,               \* m_vaild_topic_conne has the topic; a pull timer runs
    local,                        \* m_commit_offset of the connection, 0 for none
    seen,                         \* m_recv_messageId, in the order received
    recv                          \* m_recv_messages

producerVars == <<puts, sendQueue, resend, isVaild, okd, failed>>
consumerVars == <<vaild, pulling, local, seen, recv>>
mqVars == <<brokerVars, producerVars, consumerVars>>

InitMq ==
    /\ InitBroker
    /\ puts = 0 /\ sendQueue = <<>> /\ resend = {} /\ isVaild = FALSE /\ okd = {} /\ failed = {}
    /\ vaild = FALSE /\ pulling = FALSE /\ local = 0 /\ seen = <<>> /\ recv = <<>>

BrokerKeeps == UNCHANGED <<broker, part, subscribed, group, isDirty, threadVars>>
\* The elements of a set of numbers in order.
Sorted(S) == [n \in 1..Cardinality(S) |-> CHOOSE x \in S : Cardinality({y \in S : y < x}) = n - 1]
InRange(s) == {s[i] : i \in DOMAIN s}

ToBroker(c, packets) ==
    /\ Len(toBroker[c]) + Len(toClient[c]) + Len(packets) <= MaxFlight
    /\ toBroker' = IF atBroker[c] THEN [toBroker EXCEPT ![c] = @ \o packets] ELSE toBroker
Received(c) ==
    /\ atClient[c] /\ toClient[c] # <<>> /\ toClient' = [toClient EXCEPT ![c] = Tail(@)]

\* A connection to the broker; the consumer makes one for a topic that is
\* there, and subscribes at once.
Opened(c) ==
    /\ broker = "up" /\ ~atBroker[c] /\ ~atClient[c]
    /\ atBroker' = [atBroker EXCEPT ![c] = TRUE]
    /\ atClient' = [atClient EXCEPT ![c] = TRUE]
    /\ UNCHANGED <<toClient, faults>> /\ BrokerKeeps

CloseAtClient(c) ==
    /\ atClient[c]
    /\ \/ ~atBroker[c] /\ UNCHANGED faults
       \/ atBroker[c] /\ faults < MaxFaults /\ faults' = faults + 1
    /\ atClient' = [atClient EXCEPT ![c] = FALSE]
    /\ toClient' = [toClient EXCEPT ![c] = <<>>]
    /\ vaild' = (vaild /\ c # "consumer")
    /\ UNCHANGED <<atBroker, toBroker, producerVars, pulling, local, seen, recv>> /\ BrokerKeeps
-----------------------------------------------------------------------------
(* Producer                                                                  *)

OnConnectionP ==
    /\ Opened("producer")
    /\ isVaild' = TRUE
    /\ UNCHANGED <<toBroker, puts, sendQueue, resend, okd, failed, consumerVars>>

Put ==
    /\ puts < MaxPuts
    /\ puts' = puts + 1
    /\ sendQueue' = Append(sendQueue, puts + 1)
    /\ UNCHANGED <<brokerVars, resend, isVaild, okd, failed, consumerVars>>

Delivery(id) == [command |-> "delivery", id |-> id]

\* With no broker the messages go to the set of those sent again only if the
\* call may retry; else they are dropped, and reported.
SendInLoop(queue, isRetry) ==
    /\ sendQueue' = <<>>
    /\ IF atClient["producer"]
       THEN ToBroker("producer", [i \in DOMAIN queue |-> Delivery(queue[i])])
            /\ UNCHANGED <<isVaild, failed>>
       ELSE /\ isVaild' = FALSE
            /\ failed' = IF isRetry THEN failed ELSE failed \cup InRange(queue)
            /\ UNCHANGED toBroker
    /\ resend' = IF atClient["producer"] \/ isRetry THEN resend \cup InRange(queue) ELSE resend
    /\ UNCHANGED <<atBroker, atClient, toClient, faults, puts, okd, consumerVars>> /\ BrokerKeeps

Send(isRetry) == sendQueue # <<>> /\ (isVaild \/ isRetry) /\ SendInLoop(sendQueue, isRetry)

\* The timer puts what is not acknowledged behind the queue and sends it all.
CheckReSendSetTimer ==
    resend # {} /\ SendInLoop(sendQueue \o Sorted(resend), TRUE)

\* An acknowledgement, perhaps a second one.
Done(id) == resend \ {id}
HandleDelivery ==
    /\ Received("producer")
    /\ LET id == Head(toClient["producer"])
       IN  /\ okd' = IF id \in resend THEN okd \cup {id} ELSE okd
           /\ resend' = Done(id)
    /\ UNCHANGED <<atBroker, atClient, toBroker, faults, puts, sendQueue, isVaild, failed, consumerVars>>
    /\ BrokerKeeps
-----------------------------------------------------------------------------
(* Consumer                                                                  *)

Asks(packet) == ToBroker("consumer", <<packet>>)

\* The offset kept is that of the connection, and a new one has none.
OnConnectionC ==
    /\ Exists(part) /\ Opened("consumer")
    /\ toBroker' = [toBroker EXCEPT !["consumer"] = <<[command |-> "subscribe"]>>]
    /\ local' = 0
    /\ UNCHANGED <<producerVars, vaild, pulling, seen, recv>>

PullInLoop ==
    /\ vaild /\ pulling
    /\ Asks([command |-> "pull", offset |-> local])
    /\ UNCHANGED <<atBroker, atClient, toClient, faults, producerVars, consumerVars>> /\ BrokerKeeps

HandleSubscribeReply ==
    /\ Received("consumer") /\ Head(toClient["consumer"]).command = "subscribe"
    /\ vaild' = TRUE /\ pulling' = TRUE
    /\ UNCHANGED <<atBroker, atClient, toBroker, faults, producerVars, local, seen, recv>> /\ BrokerKeeps

HandleCommitReply ==
    /\ Received("consumer") /\ Head(toClient["consumer"]).command = "commit"
    /\ UNCHANGED <<atBroker, atClient, toBroker, faults, producerVars, consumerVars>> /\ BrokerKeeps

\* commit, from the callback of a pull, tells the offset behind the last
\* message received and forgets the messages; the callback need not call it.
Commits(messages, offset) ==
    \/ UNCHANGED toBroker /\ recv' = messages /\ local' = offset
    \/ /\ messages # <<>>
       /\ Asks([command |-> "commit", offset |-> Last(messages) + 1])
       /\ local' = Last(messages) + 1
       /\ recv' = <<>>

\* handlePull.  A message that came before is dropped; if it is the one to be
\* pulled next, the offset goes on.
NextLocal(offset) == IF offset = local THEN local + 1 ELSE local
IsNotPending(m) == m.offset \notin InRange(recv)   \* mutant
IsNew(m) == m.id \notin InRange(seen)
HandleMessage ==
    /\ Received("consumer") /\ Head(toClient["consumer"]).command = "message"
    /\ LET m == Head(toClient["consumer"])
       IN  IF IsNew(m)
           THEN Commits(Append(recv, m.offset), local) /\ seen' = Append(seen, m.id)
           ELSE Commits(recv, NextLocal(m.offset)) /\ UNCHANGED seen
    /\ UNCHANGED <<atBroker, atClient, faults, producerVars, vaild, pulling>> /\ BrokerKeeps

HandleTooLarge ==
    /\ Received("consumer") /\ Head(toClient["consumer"]).command = "too large"
    /\ Commits(recv, Head(toClient["consumer"]).offset)
    /\ UNCHANGED <<atBroker, atClient, faults, producerVars, vaild, pulling, seen>> /\ BrokerKeeps

ClientNext ==
    \/ \E c \in Client : CloseAtClient(c)
    \/ OnConnectionP \/ Put \/ CheckReSendSetTimer \/ HandleDelivery
    \/ \E isRetry \in BOOLEAN : Send(isRetry)
    \/ OnConnectionC \/ PullInLoop \/ HandleSubscribeReply \/ HandleCommitReply
    \/ HandleMessage \/ HandleTooLarge

NextMq == (BrokerNext /\ UNCHANGED <<producerVars, consumerVars>>) \/ ClientNext
SpecMq == InitMq /\ [][NextMq]_mqVars
-----------------------------------------------------------------------------
StoredIds == {m.id : m \in Packets(part)}

\* No message is forgotten: one that was put is in the log, or the producer
\* still has it, or the user was told that it failed; and what the user was
\* told to be delivered is in the log, whatever connections and brokers die
\* (handleDelivery producer.cc:186, onMessageFromMqBusd mqbroker.cc:163).
NothingForgotten ==
    /\ \A id \in 1..puts : id \in StoredIds \cup InRange(sendQueue) \cup resend \cup failed
    /\ okd \subseteq StoredIds

\* The consumer sees the messages in the order of the log, each once and none
\* left out, though the log may have one twice, pulls overlap, offsets start
\* again with a connection and commits are lost with the broker: when it sees a
\* message it has seen all that lie before it in the log
\* (handlePull consumer.cc:199, sendToConsumer partition.cc:126).
SeesLogInOrder ==
    \A n \in DOMAIN seen :
        /\ \A k \in 1..n - 1 : seen[k] # seen[n]
        /\ \E m \in Packets(part) :
              /\ m.id = seen[n]
              /\ \A before \in Packets(part) :
                    before.offset < m.offset => \E k \in 1..n - 1 : seen[k] = before.id

\* A commit, in memory or on disk, covers only messages that the consumer has
\* received (commit consumer.cc:104, getOffset commitpartition.cpp:71).
CommitIsCovered ==
    \A m \in Packets(part) : m.offset < group \/ m.offset < commitFile => m.id \in InRange(seen)

\* The index of the partition leads to the right packets, also the one that
\* was read back after a crash that lost its last lines, unless the crash left
\* an index file without its log (partition.cc:35, 82).
IndexLeadsToPacket == broker # "astray" => IndexIsRight(part)

\* "The two go together, if one is missing so is the other": an index that was
\* read back is that of its log (Partition partition.cc:23).
IndexHasItsLog == IndexIsRight(ReadBack)

\* The assertion of sendToConsumer: a pull below the size of the partition
\* finds a packet to send (partition.cc:241).
PullFindsPacket == \A limit \in Limits : ~FailsAt(limit)
=============================================================================
