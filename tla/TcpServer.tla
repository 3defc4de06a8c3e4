------------------------------ MODULE TcpServer ------------------------------
(***************************************************************************)
(* A server (tcpserver.cc): one loop accepts connections and keeps the     *)
(* table of them, other loops serve them.  The loops call each other by    *)
(* functors, which run in the order of FunctorQueue.                       *)
(*                                                                         *)
(* The user is one like HttpServer: its callbacks send, shut the           *)
(* connection down, or set a timer in the accepting loop that does so      *)
(* (httpserver.cpp:45).  The callbacks that a server does not set (write   *)
(* complete, high water) are left out.                                     *)
(***************************************************************************)
EXTENDS TcpConnection, FiniteSets

CONSTANTS
    Conn,       \* the connections, of which each is accepted once
    Base,       \* the accepting loop
    Io,         \* the loops of the thread pool
    NULL,
    MaxSends    \* bound: how many messages the user sends on a connection

VARIABLES
    pool,       \* m_loops: Io, or none if there are no threads
    conn,       \* the TcpConnection objects
    loop,       \* m_loop of each
    table,      \* m_connections
    queue,      \* the functors queued for each loop
    inbox,      \* whether the peer sent something that was not read
    eof,        \* whether the peer shut its side down
    timers,     \* the connections with a timer that shuts them down
    closing     \* the shutdown that such a timer is in the middle of

peerVars == <<inbox, eof>>
vars == <<pool, conn, loop, table, queue, peerVars, timers, closing>>

Loop == {Base} \cup Io

\* The functors: connectEstablished, removeConnectionInLoop, connectDestroyed
\* hold the connection; shutdownInLoop has a plain pointer to it.
Functor == [do : {"establish", "remove", "destroy", "shutdown"}, conn : Conn]
Do(what, c) == [do |-> what, conn |-> c]
Pending(l) == {queue[l][k] : k \in 1..Len(queue[l])}

\* Does anything hold a shared pointer to the connection?
Held(c) ==
    \/ c \in table \cup timers
    \/ closing # NULL /\ closing.conn = c
    \/ \E l \in Loop : \E f \in Pending(l) : f.conn = c /\ f.do # "shutdown"

Init ==
    /\ pool \in {{}, Io}
    /\ conn = [c \in Conn |-> New]
    /\ loop = [c \in Conn |-> Base]
    /\ table = {}
    /\ queue = [l \in Loop |-> <<>>]
    /\ inbox = [c \in Conn |-> FALSE]
    /\ eof = [c \in Conn |-> FALSE]
    /\ timers = {}
    /\ closing = NULL

\* The accepting loop goes on only after the callback of the timer.
Free(l) == l # Base \/ closing = NULL

-----------------------------------------------------------------------------
(* What the callbacks of the user may do with connection c, in its loop.   *)

Calls(r, n) ==
    LET s == IF r.sent < MaxSends * Chunks THEN {r, Send(r, n)} ELSE {r}
    IN  s \cup {Shutdown(t) : t \in s}

UserCall(c, r) ==
    /\ \E n \in 0..Chunks : \E s \in Calls(r, n) : conn' = [conn EXCEPT ![c] = s]
    /\ timers' = timers \/ timers' = timers \cup {c}

-----------------------------------------------------------------------------
(* Accepting                                                               *)

\* newConnection: getNextLoop is one of the pool, the accepting one if the
\* pool is empty; runInLoop establishes the connection at once in that case.
NewConnection(c) ==
    /\ Free(Base)
    /\ conn[c].state = "none"
    /\ table' = table \cup {c}
    /\ \/ /\ pool = {}
          /\ UserCall(c, Established(Create(conn[c])))
          /\ UNCHANGED <<loop, queue>>
       \/ \E l \in pool :
          /\ loop' = [loop EXCEPT ![c] = l]
          /\ conn' = [conn EXCEPT ![c] = Create(@)]
          /\ queue' = [queue EXCEPT ![l] = Append(@, Do("establish", c))]
          /\ UNCHANGED timers
    /\ UNCHANGED <<pool, peerVars, closing>>

-----------------------------------------------------------------------------
(* Events of a connection, handled in its loop                             *)

HandleRead(c) ==
    /\ Free(loop[c])
    /\ "read" \in conn[c].events
    /\ inbox[c]
    /\ inbox' = [inbox EXCEPT ![c] = FALSE]
    /\ UserCall(c, conn[c])
    /\ UNCHANGED <<pool, loop, table, queue, eof, closing>>

\* Mutants: the connection is destroyed in the accepting loop, or not at all.
DestroyHere(c, q) ==
    /\ table' = table \ {c}
    /\ queue' = [q EXCEPT ![Base] = Append(@, Do("destroy", c))]
OnlyErase(c, q) == table' = table \ {c} /\ queue' = q

\* removeConnectionInLoop, when the functors left are q.
RemoveInLoop(c, q) ==
    /\ table' = table \ {c}
    /\ queue' = [q EXCEPT ![loop[c]] = Append(@, Do("destroy", c))]

\* removeConnection, the close callback.
RemoveConnection(c) ==
    IF loop[c] = Base THEN RemoveInLoop(c, queue)
    ELSE queue' = [queue EXCEPT ![Base] = Append(@, Do("remove", c))] /\ UNCHANGED table

\* handleRead at the end of the stream, then handleClose.  A connection that
\* was reset gets there too, after handleRead has logged the error.
HandleClose(c) ==
    /\ Free(loop[c])
    /\ "read" \in conn[c].events
    /\ (eof[c] /\ ~ inbox[c]) \/ conn[c].gone
    /\ conn' = [conn EXCEPT ![c] = Closed(@)]
    /\ RemoveConnection(c)
    /\ UNCHANGED <<pool, loop, peerVars, timers, closing>>

HandleWrite(c, n) ==
    /\ Free(loop[c])
    /\ "write" \in conn[c].events
    /\ conn' = [conn EXCEPT ![c] = Written(@, n)]
    /\ UNCHANGED <<pool, loop, table, queue, peerVars, timers, closing>>

-----------------------------------------------------------------------------
(* Functors                                                                *)

RunFunctor(l) ==
    /\ Free(l)
    /\ queue[l] # <<>>
    /\ LET c == Head(queue[l]).conn
           what == Head(queue[l]).do
           left == [queue EXCEPT ![l] = Tail(@)]
       IN  \/ /\ what = "establish"
              /\ UserCall(c, Established(conn[c]))
              /\ queue' = left
              /\ UNCHANGED table
           \/ /\ what = "remove"
              /\ RemoveInLoop(c, left)
              /\ UNCHANGED <<conn, timers>>
           \/ /\ what = "destroy"
              /\ conn' = [conn EXCEPT ![c] = Destroyed(@)]
              /\ queue' = left
              /\ UNCHANGED <<table, timers>>
           \/ /\ what = "shutdown"
              /\ conn' = [conn EXCEPT ![c] = ShutdownInLoop(@)]
              /\ queue' = left
              /\ UNCHANGED <<table, timers>>
    /\ UNCHANGED <<pool, loop, peerVars, closing>>

-----------------------------------------------------------------------------
(* shutdown, called by a timer of the accepting loop.  In another thread    *)
(* than the connection's it is three steps: the state is looked at, is set, *)
(* and shutdownInLoop is queued.                                            *)

CloseTimer(c) ==
    /\ Free(Base)
    /\ c \in timers
    /\ timers' = timers \ {c}
    /\ IF loop[c] = Base
       THEN conn' = [conn EXCEPT ![c] = Shutdown(@)] /\ UNCHANGED closing
       ELSE /\ closing' = IF conn[c].state = "connected"
                          THEN [conn |-> c, at |-> "checked"] ELSE closing
            /\ UNCHANGED conn
    /\ UNCHANGED <<pool, loop, table, queue, peerVars>>

SetState ==
    /\ closing # NULL /\ closing.at = "checked"
    /\ conn' = [conn EXCEPT ![closing.conn].state = "disconnecting"]
    /\ closing' = [closing EXCEPT !.at = "set"]
    /\ UNCHANGED <<pool, loop, table, queue, peerVars, timers>>

QueueShutdown ==
    /\ closing # NULL /\ closing.at = "set"
    /\ queue' = [queue EXCEPT ![loop[closing.conn]] = Append(@, Do("shutdown", closing.conn))]
    /\ closing' = NULL
    /\ UNCHANGED <<pool, conn, loop, table, peerVars, timers>>

-----------------------------------------------------------------------------
(* The peer                                                                *)

PeerSends(c) ==
    /\ conn[c].state # "none" /\ ~ eof[c] /\ ~ conn[c].gone
    /\ inbox' = [inbox EXCEPT ![c] = TRUE]
    /\ UNCHANGED <<pool, conn, loop, table, queue, eof, timers, closing>>

PeerCloses(c) ==
    /\ conn[c].state # "none" /\ ~ eof[c]
    /\ eof' = [eof EXCEPT ![c] = TRUE]
    /\ UNCHANGED <<pool, conn, loop, table, queue, inbox, timers, closing>>

PeerResets(c) ==
    /\ conn[c].state # "none" /\ ~ conn[c].gone
    /\ conn' = [conn EXCEPT ![c].gone = TRUE]
    /\ UNCHANGED <<pool, loop, table, queue, peerVars, timers, closing>>

Next ==
    \/ \E c \in Conn :
          \/ NewConnection(c) \/ HandleRead(c) \/ HandleClose(c) \/ CloseTimer(c)
          \/ \E n \in 0..Len(conn[c].out) : HandleWrite(c, n)
          \/ PeerSends(c) \/ PeerCloses(c) \/ PeerResets(c)
    \/ \E l \in Loop : RunFunctor(l)
    \/ SetState \/ QueueShutdown

\* The loops go on: they handle what is ready and run what is queued.  That a
\* socket takes output again and again is up to the peer, which reads.
Fairness ==
    /\ \A l \in Loop : WF_vars(RunFunctor(l))
    /\ WF_vars(SetState) /\ WF_vars(QueueShutdown)
    /\ \A c \in Conn :
          /\ SF_vars(HandleRead(c)) /\ SF_vars(HandleClose(c)) /\ SF_vars(CloseTimer(c))
          /\ SF_vars(\E n \in 1..Len(conn[c].out) : HandleWrite(c, n))

Spec == Init /\ [][Next]_vars /\ Fairness

-----------------------------------------------------------------------------
(* Properties.                                                             *)

TypeOK ==
    /\ \A c \in Conn :
          /\ conn[c].state \in States
          /\ conn[c].events \subseteq {"read", "write"}
          /\ conn[c].events # {} <=> conn[c].index = "add"
    /\ table \subseteq Conn /\ timers \subseteq Conn
    /\ \A l \in Loop : Pending(l) \subseteq Functor
    /\ closing \in [conn : Conn, at : {"checked", "set"}] \cup {NULL}

\* No assertion about a connection fails: what is established is new, what is
\* removed is in the table and what is destroyed has a quiet channel in the
\* poller (tcpconnection.cc:102, tcpserver.cc:72, epoller.cc:89-96).
AssertionsHold ==
    /\ \A c \in Conn : "read" \in conn[c].events =>
          conn[c].state \in {"connected", "disconnecting"} /\ c \in table
    /\ \A l \in Loop : queue[l] # <<>> =>
          LET f == Head(queue[l])
              r == conn[f.conn]
          IN  CASE f.do = "establish" -> r.state = "connecting"
                [] f.do = "remove"    -> f.conn \in table
                [] f.do = "destroy"   -> CanRemove(Quiet(r)) /\ l = loop[f.conn]
                [] f.do = "shutdown"  -> TRUE

\* A functor with a plain pointer never outlives its connection: shutdown hands
\* the loop `this' (tcpconnection.cc:111), and the accepting loop, which keeps
\* the table, queues the destruction later (tcpserver.cc:74).
PointersAreLive ==
    \A l \in Loop : \A f \in Pending(l) : f.do = "shutdown" => Held(f.conn)

\* The stream has no gap, repetition or change of order, however much of it
\* the kernel takes at a time (sendInLoop and handleWrite).
StreamIntact ==
    \A c \in Conn : LET s == conn[c].wire \o conn[c].out IN s = [k \in 1..Len(s) |-> k]

\* Of an open connection, writing is shut down only after the output: nothing
\* that was accepted for sending is left behind (tcpconnection.cc:115-120).
FinAfterOutput ==
    \A c \in Conn : "read" \in conn[c].events /\ conn[c].fin => conn[c].out = <<>>

\* Output that waits is watched for, and nothing is watched for without
\* output, until the connection is closed (tcpconnection.cc:34-35, 190).
OutputIsWatched ==
    \A c \in Conn : "read" \in conn[c].events =>
        (conn[c].out # <<>> <=> "write" \in conn[c].events)

\* A connection that the peer closes is taken out of the table and destroyed.
ClosedIsReleased ==
    \A c \in Conn : eof[c] \/ conn[c].gone ~> ~ Held(c) /\ conn[c].index = "new"

\* After shutdown the writing side is shut down, or the connection closed.
ShutdownEnds ==
    \A c \in Conn : conn[c].state = "disconnecting" ~> conn[c].fin \/ "read" \notin conn[c].events
=============================================================================
