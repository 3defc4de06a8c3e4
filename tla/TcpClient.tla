----------------------------- MODULE TcpClient ------------------------------
(* skylu::TcpClient with its skylu::Connector (net/tcpclient.cc,            *)
(* net/connector.cc) in the thread of their loop, and the peer they connect *)
(* to.  The loop takes a batch of events, handles them one by one, runs the *)
(* pending functors, and polls again.  The owner calls connect once, then   *)
(* perhaps disconnect or stop, and may destroy the client while the loop    *)
(* runs, as MqBusd does with brokers that are not listed (mqbusd.cc:77,86). *)
EXTENDS Integers, Sequences

CONSTANTS
    InitRetryDelay, MaxRetryDelay,  \* 500 and 30000 ms in the code
    MaxDowns                        \* bound: how often the peer goes down

VARIABLES
    loop,        \* turn; ready: the rest of the batch; running and queued functors
    connector,   \* state, enabled, channel, attempt of m_socket, delay, timers, gaveUp
    client,      \* retry, enabled, connection, calls of the owner; gone: destroyed;
                 \* dangling: what was freed and is called all the same
    peer,        \* up, downs
    broken       \* an assertion of the two files has failed

clientVars == <<loop, connector, client, peer, broken>>

States == {"Disconnected", "Connecting", "Connected"}
Attempts == {"none", "pending", "accepted", "refused"}
Connections == {"none", "open", "lost"}

InitClient ==
    /\ loop = [turn |-> "poll", ready |-> {}, running |-> <<>>, functors |-> <<>>]
    /\ connector = [state |-> "Disconnected", enabled |-> FALSE, channel |-> "none",
                    attempt |-> "none", delay |-> InitRetryDelay, timers |-> 0, gaveUp |-> FALSE]
    /\ \E r \in BOOLEAN :
          client = [retry |-> r, enabled |-> FALSE, connection |-> "none", calls |-> <<>>,
                    gone |-> FALSE, dangling |-> {}]
    /\ peer = [up |-> TRUE, downs |-> 0]
    /\ broken = FALSE
-----------------------------------------------------------------------------
(* What a call leaves of the connector: each yields the set of connectors   *)
(* that the answers of the kernel allow.                                    *)

\* Mutants: the state is left as it was, or no timer is set.
RetryStaysConnecting(c) == [c EXCEPT !.attempt = "none", !.timers = @ + 1]
RetryOnlyCloses(c) == [c EXCEPT !.attempt = "none", !.state = "Disconnected"]

\* retry: the socket goes, and a timer starts the next attempt.
Retry(c) ==
    LET idle == [c EXCEPT !.attempt = "none", !.state = "Disconnected"]
    IN IF c.enabled
       THEN [idle EXCEPT !.timers = @ + 1,
                         !.delay = IF 2 * @ < MaxRetryDelay THEN 2 * @ ELSE MaxRetryDelay]
       ELSE idle

\* The socket is watched for writing until the kernel has an answer.
Connecting(c) == [c EXCEPT !.state = "Connecting", !.channel = "watched", !.attempt = "pending"]

\* connect: under way, refused for now, as it is when the peer is down, or
\* refused for good, when nothing follows.
ConnectOf(c) ==
    {Connecting(c), [c EXCEPT !.attempt = "none", !.gaveUp = TRUE]}
        \cup (IF peer.up THEN {} ELSE {Retry(c)})

StartOf(c) == IF c.enabled THEN ConnectOf(c) ELSE {c}

\* startInLoop asserts its state, and connecting that the last channel is gone.
StartBreaks(c, c2) ==
    \/ c.state /= "Disconnected"
    \/ c2.state = "Connecting" /\ c.channel /= "none"

RestartFrom(c) ==
    [c EXCEPT !.state = "Disconnected", !.delay = InitRetryDelay, !.enabled = TRUE]

\* The channel leaves the poller; a functor destroys it after the batch.
Removed(c) == [c EXCEPT !.channel = "removed"]
Queue(f) == [loop EXCEPT !.functors = Append(@, f)]
-----------------------------------------------------------------------------
(* The owner, in a callback of the loop or before it runs.                  *)
Start(c) ==
    /\ \E c2 \in StartOf(c) :
          connector' = c2 /\ broken' = (broken \/ StartBreaks(c, c2))

Connect ==
    /\ client.calls = <<>>
    /\ client' = [client EXCEPT !.enabled = TRUE, !.calls = <<"connect">>]
    /\ Start([connector EXCEPT !.enabled = TRUE])
    /\ UNCHANGED <<loop, peer>>

\* shutdown sends the FIN, and the peer answers it by closing.
Disconnect ==
    /\ client.calls = <<"connect">>
    /\ client' = [client EXCEPT !.enabled = FALSE, !.calls = Append(@, "disconnect"),
                                !.connection = IF @ = "open" THEN "lost" ELSE @]
    /\ UNCHANGED <<loop, connector, peer, broken>>

Stop ==
    /\ client.calls = <<"connect">>
    /\ client' = [client EXCEPT !.enabled = FALSE, !.calls = Append(@, "stop")]
    /\ connector' = [connector EXCEPT !.enabled = FALSE]
    /\ loop' = Queue("stopInLoop")
    /\ UNCHANGED <<peer, broken>>

\* What is left of a connector that nobody holds: its socket is closed.
Freed(c) ==
    [c EXCEPT !.channel = "none", !.attempt = "none",
              !.state = IF @ = "Connecting" THEN "Disconnected" ELSE @]

\* The rest of the batch and the functors name what they call by plain pointers.
CallsConnector == "channel" \in loop.ready \/ loop.running /= <<>> \/ loop.functors /= <<>>

Uses(kept) ==
    (IF connector.timers = 0 /\ CallsConnector THEN {"connector"} ELSE {})
        \cup (IF ~kept /\ "connection" \in loop.ready THEN {"connection"} ELSE {})

\* ~TcpClient, in a callback of the loop.  The connector goes too, unless a retry
\* timer holds it, and so does the connection, unless the user has kept it.  If
\* the loop is yet to call what was freed, the behaviour ends here.
Destroy ==
    /\ client.calls /= <<>> /\ ~client.gone
    /\ \E kept \in BOOLEAN :
          /\ client' = [client EXCEPT !.gone = TRUE, !.calls = Append(@, "destroy"),
                                      !.dangling = Uses(kept),
                                      !.connection = IF kept \/ Uses(kept) /= {} THEN @ ELSE "none"]
          /\ connector' = IF connector.timers > 0 \/ Uses(kept) /= {} THEN connector ELSE Freed(connector)
    /\ UNCHANGED <<loop, peer, broken>>
-----------------------------------------------------------------------------
(* Events of one batch.                                                     *)
Take(event) == loop' = [loop EXCEPT !.ready = @ \ {event}]
TakeAndQueue(event, f) ==
    loop' = [Queue(f) EXCEPT !.ready = @ \ {event}]

Possible ==
    {e \in {"channel", "timer", "connection"} :
        \/ e = "channel" /\ connector.channel = "watched"
                         /\ connector.attempt \in {"accepted", "refused"}
        \/ e = "timer" /\ connector.timers > 0
        \/ e = "connection" /\ client.connection = "lost"}

Poll ==
    /\ loop.turn = "poll"
    /\ Possible /= {} \/ loop.functors /= <<>>
    /\ loop' = [loop EXCEPT !.turn = "events", !.ready = Possible]
    /\ UNCHANGED <<connector, client, peer, broken>>

EndEvents ==
    /\ loop.turn = "events" /\ loop.ready = {}
    /\ loop' = [loop EXCEPT !.turn = "functors", !.running = loop.functors, !.functors = <<>>]
    /\ UNCHANGED <<connector, client, peer, broken>>

EndFunctors ==
    /\ loop.turn = "functors" /\ loop.running = <<>>
    /\ loop' = [loop EXCEPT !.turn = "poll"]
    /\ UNCHANGED <<connector, client, peer, broken>>

\* handleWrite with no error: the socket becomes a connection.
Accepted ==
    /\ connector.attempt = "accepted"
    /\ connector' = [Removed(connector) EXCEPT !.state = "Connected", !.attempt = "none"]
    /\ client' = IF connector.enabled
                 THEN [client EXCEPT !.connection = IF peer.up THEN "open" ELSE "lost"]
                 ELSE client

\* handleError, or handleWrite that reads the error: try again later.
Refused ==
    /\ connector.attempt = "refused"
    /\ connector' = Retry(Removed(connector))
    /\ UNCHANGED client

HandleChannel ==
    /\ "channel" \in loop.ready /\ connector.state = "Connecting"
    /\ Accepted \/ Refused
    /\ TakeAndQueue("channel", "resetChannel")
    /\ UNCHANGED <<peer, broken>>

HandleTimer ==
    /\ "timer" \in loop.ready /\ Take("timer") /\ ~client.gone
    /\ Start([connector EXCEPT !.timers = @ - 1])
    /\ UNCHANGED <<client, peer>>

\* Of a destroyed client only the timer holds the connector: an attempt under way
\* is dropped with it, one that is refused at once sets the next timer.
OrphanTimer ==
    /\ "timer" \in loop.ready /\ Take("timer") /\ client.gone
    /\ LET c == [connector EXCEPT !.timers = @ - 1]
       IN \E c2 \in StartOf(c) :
             /\ broken' = (broken \/ StartBreaks(c, c2))
             /\ IF c2.timers > 0
                THEN connector' = c2 /\ UNCHANGED client
                ELSE /\ connector' = Freed(c2)
                     /\ client' = [client EXCEPT !.dangling = IF loop.functors = <<>> THEN {} ELSE {"connector"}]
    /\ UNCHANGED peer

\* The connection's handleClose calls removeConnection.
MayRestart == client.retry /\ client.enabled

RemoveConnection ==
    /\ "connection" \in loop.ready /\ Take("connection") /\ ~client.gone
    /\ client' = [client EXCEPT !.connection = "none"]
    /\ IF MayRestart THEN Start(RestartFrom(connector)) ELSE UNCHANGED <<connector, broken>>
    /\ UNCHANGED peer

\* The callback that the destructor has set reads m_loop of the client that is gone.
CloseAfterDestroy ==
    /\ "connection" \in loop.ready /\ client.gone
    /\ client' = [client EXCEPT !.dangling = {"client"}]
    /\ UNCHANGED <<loop, connector, peer, broken>>

ResetChannel ==
    /\ loop.running /= <<>> /\ Head(loop.running) = "resetChannel"
    /\ loop' = [loop EXCEPT !.running = Tail(@)]
    /\ connector' = [connector EXCEPT !.channel = "none"]
    /\ UNCHANGED <<client, peer, broken>>

\* stopInLoop ends an attempt that is under way.
StopInLoop ==
    /\ loop.running /= <<>> /\ Head(loop.running) = "stopInLoop"
    /\ IF connector.state = "Connecting"
       THEN /\ connector' = Retry(Removed(connector))
            /\ loop' = [Queue("resetChannel") EXCEPT !.running = Tail(@)]
       ELSE UNCHANGED connector /\ loop' = [loop EXCEPT !.running = Tail(@)]
    /\ UNCHANGED <<client, peer, broken>>
-----------------------------------------------------------------------------
(* The peer and the kernel.                                                 *)
Answer ==
    /\ connector.attempt = "pending"
    /\ connector' = [connector EXCEPT !.attempt = IF peer.up THEN "accepted" ELSE "refused"]
    /\ UNCHANGED <<loop, client, peer, broken>>

GoDown ==
    /\ peer.up /\ peer.downs < MaxDowns
    /\ peer' = [up |-> FALSE, downs |-> peer.downs + 1]
    /\ client' = [client EXCEPT !.connection = IF @ = "open" THEN "lost" ELSE @]
    /\ UNCHANGED <<loop, connector, broken>>

ComeUp ==
    /\ ~peer.up
    /\ peer' = [peer EXCEPT !.up = TRUE]
    /\ UNCHANGED <<loop, connector, client, broken>>

LoopStep ==
    \/ Poll \/ EndEvents \/ EndFunctors
    \/ HandleChannel \/ HandleTimer \/ RemoveConnection
    \/ OrphanTimer \/ CloseAfterDestroy
    \/ ResetChannel \/ StopInLoop

Owner == Connect \/ Disconnect \/ Stop \/ Destroy

\* What follows the use of a freed object is undefined, and not modelled.
Defined == client.dangling = {}

NextClient == Defined /\ (LoopStep \/ Owner \/ Answer \/ GoDown \/ ComeUp)

FairClient ==
    /\ WF_clientVars(Defined /\ LoopStep)
    /\ WF_clientVars(Defined /\ Answer) /\ WF_clientVars(Defined /\ ComeUp)
-----------------------------------------------------------------------------
\* The assertions of connector.cc:31 and :89 hold for an owner that connects
\* once: a restart never meets a channel that still awaits its reset, nor does
\* the timer of a client that was destroyed.
ClientAssertions == ~broken

\* The client pursues its peer one way at a time: by an attempt, a retry timer
\* or a connection, so that no two connections arise from one client
\* (connector.cc:97, :137, tcpclient.cc:112).
OneWayAtATime ==
    \/ connector.timers = 0 /\ connector.state /= "Connecting"
    \/ connector.timers + (IF connector.state = "Connecting" THEN 1 ELSE 0) = 1
       /\ client.connection = "none"

\* When the client is deleted, its connection is deleted with it (mqbusd.cc:86):
\* no close comes that calls the client.
GoesWithConnection == "client" \notin client.dangling

\* A client that retries, is not told to stop or destroyed, and whose peer stays
\* up is connected in the end, unless the kernel refused for good
\* (connector.cc:58-79, tcpclient.cc:112).
Reconnects ==
    []<>(\/ client.connection = "open"
         \/ ~client.retry \/ ~client.enabled \/ client.gone \/ connector.gaveUp \/ ~peer.up)
=============================================================================
