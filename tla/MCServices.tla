----------------------------- MODULE MCServices -----------------------------
(* What must happen in skylu/net and in the directory of brokers: one part  *)
(* in each behaviour, the others at rest, since in its initial state none   *)
(* of them does anything by itself.                                         *)
EXTENDS Integers, Sequences, FiniteSets

CONSTANTS
    Conn, Base, Io, NULL, MaxSends, Chunks,        \* TcpServer
    InitRetryDelay, MaxRetryDelay, MaxDowns,       \* TcpClient
    Brokers, Directories, Descriptors, MaxFaults    \* Directory

\* The accepting loop is none of the pool, and no broker is the absent one.
ASSUME ServicesAssumption ==
    /\ Base \notin Io
    /\ MaxSends \in Nat /\ Chunks \in Nat
    /\ InitRetryDelay \in Nat /\ MaxRetryDelay \in Nat
    /\ "no host" \notin Brokers /\ Descriptors \in Nat

VARIABLES
    which,
    pool, conn, loop, table, queue, inbox, eof, timers, closing,
    clientLoop, connector, client, peer, broken,
    owner, thread, semaphore, isStart, m_loop, threadLoop, got,
    running, links, sockets, tables, busd, clients, asks, faults

S == INSTANCE TcpServer
C == INSTANCE TcpClient WITH loop <- clientLoop
L == INSTANCE LoopThread WITH loop <- threadLoop
D == INSTANCE Directory WITH
       Host <- Brokers, Dir <- Directories, Fd <- 1..Descriptors, DirFaults <- MaxFaults, conn <- links

serverVars == <<pool, conn, loop, table, queue, inbox, eof, timers, closing>>
clientVars == <<clientLoop, connector, client, peer, broken>>
threadVars == <<owner, thread, semaphore, isStart, m_loop, threadLoop, got>>
dirVars == <<running, links, sockets, tables, busd, clients, asks, faults>>
vars == <<which, serverVars, clientVars, threadVars, dirVars>>

Init ==
    /\ which \in {"TcpServer", "TcpClient", "LoopThread", "Directory"}
    /\ S!Init /\ (which = "TcpServer" \/ pool = {})
    /\ C!InitClient /\ (which = "TcpClient" \/ client.retry)
    /\ L!InitThread /\ D!InitDirectory

Next ==
    /\ UNCHANGED which
    /\ \/ which = "TcpServer" /\ S!Next
          /\ UNCHANGED <<clientVars, threadVars, dirVars>>
       \/ which = "TcpClient" /\ C!NextClient
          /\ UNCHANGED <<serverVars, threadVars, dirVars>>
       \/ which = "LoopThread" /\ L!NextThread
          /\ UNCHANGED <<serverVars, clientVars, dirVars>>
       \/ which = "Directory" /\ D!NextDirectory
          /\ UNCHANGED <<serverVars, clientVars, threadVars>>

Spec ==
    /\ Init /\ [][Next]_vars
    /\ S!Fairness /\ C!FairClient /\ L!FairThread /\ D!FairDirectory
-----------------------------------------------------------------------------
\* No assertion of the server, the client or the directory fails, and what one
\* thread or peer keeps of a connection agrees with what another does: a client
\* pursues its peer one way at a time.
AssertionsHold ==
    S!TypeOK /\ S!AssertionsHold /\ C!ClientAssertions /\ C!OneWayAtATime /\ D!TablesAgree

\* Nobody holds a pointer to what is gone: a connection that a functor is to
\* shut down, the loop on the stack of its thread until it is told to quit, an
\* object that its thread still works on.
PointersAreLive == S!PointersAreLive /\ L!LoopIsThere

\* Output is sent in order, is watched for while it waits, and comes before the
\* end of the stream.
OutputIsKept == S!StreamIntact /\ S!OutputIsWatched /\ S!FinAfterOutput

\* A connection that was closed is released, one that was shut down ends.
ConnectionsEnd == S!ClosedIsReleased /\ S!ShutdownEnds

\* The connection of a client that is deleted does not outlive it.
ClientGoesWithConnection == C!GoesWithConnection

\* A client whose peer stays up is connected in the end.
Reconnects == C!Reconnects

\* A loop thread that was constructed starts, and its destructor ends.
ThreadsStartAndEnd == L!ThreadStarts /\ L!DestructorEnds

\* What a busd connects to follows the brokers that run.
BusdFollowsBrokers == D!DeadAreForgotten /\ D!BrokersAreFound
=============================================================================
