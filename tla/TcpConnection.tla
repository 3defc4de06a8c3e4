---------------------------- MODULE TcpConnection ----------------------------
(***************************************************************************)
(* A connection of skylu/net (tcpconnection.cc), as a record and what each *)
(* of its functions makes of the record.  The functions run in the thread  *)
(* of the connection's loop; only shutdown is called by others.            *)
(*                                                                         *)
(* A message is Chunks chunks, numbered in the order in which they were    *)
(* sent; the kernel takes any number of chunks at a time.                  *)
(***************************************************************************)
EXTENDS Naturals, Sequences

CONSTANT Chunks     \* the length of a message

States == {"none", "connecting", "connected", "disconnecting", "disconnected"}

Connection == [
    state  : States,
    events : SUBSET {"read", "write"},      \* m_events of the channel
    index  : {"new", "add", "del"},         \* m_index of the channel
    out    : Seq(Nat),                      \* m_output_buffer
    wire   : Seq(Nat),                      \* what the kernel has taken
    fin    : BOOLEAN,                       \* whether writing was shut down
    gone   : BOOLEAN,                       \* whether the peer reset the connection
    sent   : Nat ]                          \* how many chunks were sent so far

New == [state |-> "none", events |-> {}, index |-> "new", out |-> <<>>, wire |-> <<>>,
        fin |-> FALSE, gone |-> FALSE, sent |-> 0]

-----------------------------------------------------------------------------
(* The channel                                                             *)

\* Mutant: a channel without events stays in the poller's set.
StaysAdded(r, events) == [r EXCEPT !.events = events, !.index = "add"]

\* Channel::update: a channel without events leaves the poller's set.
Watch(r, events) ==
    [r EXCEPT !.events = events, !.index = IF events = {} THEN "del" ELSE "add"]

\* The asserts of Epoller::removeChannel, and what it does.
CanRemove(r) == r.events = {} /\ r.index # "new"
Remove(r) == [r EXCEPT !.index = "new"]

-----------------------------------------------------------------------------
(* Reading and closing                                                     *)

Create(r) == [r EXCEPT !.state = "connecting"]

\* connectEstablished, up to the callback.
Established(r) == Watch([r EXCEPT !.state = "connected"], {"read"})

\* Mutant: the channel is not disabled.
StaysEnabled(r) == [r EXCEPT !.state = "disconnected"]

\* handleClose, up to the callback.
Closed(r) == Watch([r EXCEPT !.state = "disconnected"], {})

\* connectDestroyed: nothing but closing brings a connection here.
Quiet(r) == IF r.state = "connected" THEN Closed(r) ELSE r
Destroyed(r) == Remove(Quiet(r))

-----------------------------------------------------------------------------
(* Writing                                                                 *)

\* Mutant: writing is shut down at once.
ShutsAtOnce(r) == [r EXCEPT !.fin = TRUE]

ShutdownInLoop(r) == IF "write" \in r.events THEN r ELSE [r EXCEPT !.fin = TRUE]

\* shutdown, called in the loop.
Shutdown(r) ==
    IF r.state = "connected" THEN ShutdownInLoop([r EXCEPT !.state = "disconnecting"]) ELSE r

\* write fails after either side has shut the connection down.
Fails(r) == r.fin \/ r.gone

\* The kernel takes the first n chunks of data.
Taken(r, data, n) == [r EXCEPT !.wire = @ \o SubSeq(data, 1, n)]
Left(data, n) == SubSeq(data, n + 1, Len(data))

\* Mutant: the kernel is asked although output is waiting.
AsksAlways(r) == TRUE

AsksKernel(r) == "write" \notin r.events /\ r.out = <<>>

\* sendInLoop: what the kernel does not take waits for the socket to become
\* writable; what cannot be sent is dropped.
SendInLoop(r, data, n) ==
    IF r.state = "disconnected" \/ (AsksKernel(r) /\ Fails(r)) THEN r
    ELSE LET m == IF AsksKernel(r) THEN n ELSE 0
             s == Taken(r, data, m)
         IN  IF Left(data, m) = <<>> THEN s
             ELSE Watch([s EXCEPT !.out = @ \o Left(data, m)], s.events \cup {"write"})

\* send, called in the loop.
Send(r, n) ==
    IF r.state = "connected"
    THEN SendInLoop([r EXCEPT !.sent = @ + Chunks], [k \in 1..Chunks |-> r.sent + k], n)
    ELSE r

\* Mutants: the loop no longer waits for the socket once something was
\* written; writing is not shut down after the last output.
StopsWaiting(r, n) ==
    IF n = 0 \/ Fails(r) THEN r
    ELSE Watch([Taken(r, r.out, n) EXCEPT !.out = Left(r.out, n)], r.events \ {"write"})
NoShutdown(r, n) ==
    IF n = 0 \/ Fails(r) THEN r
    ELSE LET s == [Taken(r, r.out, n) EXCEPT !.out = Left(r.out, n)]
         IN  IF s.out # <<>> THEN s ELSE Watch(s, s.events \ {"write"})

\* handleWrite
Written(r, n) ==
    IF n = 0 \/ Fails(r) THEN r
    ELSE LET s == [Taken(r, r.out, n) EXCEPT !.out = Left(r.out, n)]
             t == Watch(s, s.events \ {"write"})
         IN  IF s.out # <<>> THEN s
             ELSE IF s.state = "disconnecting" THEN ShutdownInLoop(t) ELSE t
=============================================================================
