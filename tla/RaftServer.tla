----------------------------- MODULE RaftServer -----------------------------
(* The clients of a raft node (example/raft_server/raftserver.cpp): a write  *)
(* of a client goes to the log, and the client is answered once its index is *)
(* applied, from the request that lies in its input buffer all the time.     *)
(* Of raft there is what it promises: a leader appends, what a majority has  *)
(* acknowledged stays, another leader may replace the rest.                  *)
EXTENDS Integers, Sequences

CONSTANTS
    User,                     \* the connections of clients
    LogSize,                  \* entries from which on emit may find the log full
    MaxRequests, MaxTerms     \* bounds: requests sent, elections won

VARIABLES
    process,     \* "up"; "aborted" by an assertion; "hangs" in its loop
    leads, term, \* isLeader, and how often it has come to lead
    log,         \* the entries: the id of a write of its users, or Other
    acked, applied,
    link,        \* User -> "none", "open", "shut" (kdisConnecting), "closed"
    input,       \* User -> requests in the input buffer
    waits,       \* User -> [expect, term] of m_wait_clients, or NoWait
    replies,     \* User -> what was sent to it
    asked        \* requests sent

raftOnly == <<leads, term, log, acked, applied>>
userVars == <<process, raftOnly, link, input, waits, replies, asked>>

Other == 0
NoWait == [expect |-> 0, term |-> 0]

InitUsers ==
    /\ process = "up" /\ leads = FALSE /\ term = 0
    /\ log = <<>> /\ acked = 0 /\ applied = 0
    /\ link = [u \in User |-> "none"] /\ input = [u \in User |-> <<>>]
    /\ waits = [u \in User |-> NoWait] /\ replies = [u \in User |-> <<>>] /\ asked = 0
-----------------------------------------------------------------------------
(* Raft.                                                                     *)
Lead ==
    /\ process = "up" /\ ~leads /\ term < MaxTerms
    /\ leads' = TRUE /\ term' = term + 1
    /\ UNCHANGED <<process, log, acked, applied, link, input, waits, replies, asked>>

\* A majority has the log up to here.
Acknowledge ==
    /\ process = "up" /\ leads
    /\ acked' \in acked + 1..Len(log)
    /\ UNCHANGED <<process, leads, term, log, applied, link, input, waits, replies, asked>>

\* Another leader: what was not acknowledged may go, an entry of its own come.
Follow ==
    /\ process = "up" /\ term > 0
    /\ leads' = FALSE
    /\ \E kept \in acked..Len(log), new \in {<<>>, <<Other>>} :
          /\ Len(log) + Len(new) <= MaxRequests
          /\ log' = SubSeq(log, 1, kept) \o new
    /\ acked' \in acked..Len(log') /\ applied' \in applied..acked'
    /\ UNCHANGED <<process, term, link, input, waits, replies, asked>>
-----------------------------------------------------------------------------
(* Requests.                                                                 *)

\* The callback of a new connection: only a leader serves.
Accept(u) ==
    /\ process = "up" /\ link[u] = "none"
    /\ link' = [link EXCEPT ![u] = IF leads THEN "open" ELSE "shut"]
    /\ UNCHANGED <<process, raftOnly, input, waits, replies, asked>>

\* The close of a connection; onCloseConnection is set nowhere, so that the
\* client stays among those that wait.
CloseClient(u) ==
    /\ process = "up" /\ link[u] \in {"open", "shut"}
    /\ link' = [link EXCEPT ![u] = "closed"]
    /\ UNCHANGED <<process, raftOnly, input, waits, replies, asked>>

Marked(buffer, mark) == [buffer EXCEPT ![1].mark = mark]

\* send(Buffer *) sends all that the buffer has and empties it, if the
\* connection is open; if not, it does neither.
Send(u, buffer, same) ==
    IF link[u] = "open"
    THEN /\ replies' = [replies EXCEPT ![u] = Append(@, [all |-> buffer, same |-> same])]
         /\ input' = [input EXCEPT ![u] = <<>>]
    ELSE input' = [input EXCEPT ![u] = buffer] /\ UNCHANGED replies

Refuse(u, buffer) ==
    /\ leads => waits[u] = NoWait /\ buffer[1].mark /= "asked"
    /\ link' = [link EXCEPT ![u] = "shut"] /\ input' = [input EXCEPT ![u] = buffer]
    /\ UNCHANGED <<process, log, waits, replies>>

\* The assertion of line 181.
WriteTwice(u, buffer) ==
    /\ leads /\ waits[u] /= NoWait
    /\ process' = "aborted" /\ UNCHANGED <<log, link, input, waits, replies>>

\* emit; a write that finds the log full is not answered, and stays in the
\* buffer, as one that waits does.
SetRequest(u, buffer) ==
    /\ leads /\ waits[u] = NoWait /\ buffer[1].op = "set" /\ buffer[1].mark = "asked"
    /\ input' = [input EXCEPT ![u] = buffer]
    /\ \/ /\ Len(log) < MaxRequests
          /\ log' = Append(log, buffer[1].id)
          /\ waits' = [waits EXCEPT ![u] = [expect |-> Len(log) + 1, term |-> term]]
       \/ Len(log) >= LogSize /\ UNCHANGED <<log, waits>>
    /\ UNCHANGED <<process, link, replies>>

GetRequest(u, buffer) ==
    /\ leads /\ waits[u] = NoWait /\ buffer[1].op = "get" /\ buffer[1].mark = "asked"
    /\ \E mark \in {"ok", "fail"} : Send(u, Marked(buffer, mark), TRUE)
    /\ UNCHANGED <<process, log, link, waits>>

\* handleRead and onMessage: what has come, one request or two, goes behind
\* what the buffer has, and the first of all is looked at.
OnMessage(u) ==
    /\ process = "up" /\ link[u] \in {"open", "shut"}
    /\ \E ops \in {<<o>> : o \in {"set", "get"}} \cup {<<"set", o>> : o \in {"set", "get"}} :
          /\ asked + Len(ops) <= MaxRequests /\ asked' = asked + Len(ops)
          /\ LET new == [i \in DOMAIN ops |-> [id |-> asked + i, op |-> ops[i], mark |-> "asked"]]
                 buffer == input[u] \o new
             IN Refuse(u, buffer) \/ WriteTwice(u, buffer) \/ SetRequest(u, buffer) \/ GetRequest(u, buffer)
    /\ UNCHANGED <<leads, term, acked, applied>>
-----------------------------------------------------------------------------
(* Raft::tick.                                                               *)
AppliedTooSoon(index) == index <= acked + 1   \* mutant
IsApplied(index) == index <= acked

\* CheckClientApplied, over the clients whose write is applied, or those that
\* come before one whose write is not: at that one the loop stays for ever.
Answer(us) ==
    LET sent == {u \in us : link[u] = "open"}
        buffer(u) == Marked(input[u], "ok")
    IN /\ replies' = [u \in User |->
              IF u \in sent THEN Append(replies[u], [all |-> buffer(u), same |-> waits[u].term = term])
              ELSE replies[u]]
       /\ input' = [u \in User |->
              IF u \in sent THEN <<>> ELSE IF u \in us THEN buffer(u) ELSE input[u]]
       /\ waits' = [u \in User |-> IF u \in us THEN NoWait ELSE waits[u]]

\* The node applies what is acknowledged, may find that it has lost its
\* quorum, and looks at the clients if it has not.
Tick ==
    /\ process = "up" /\ applied' = acked
    /\ leads' \in {leads, FALSE}
    /\ LET waiting == {u \in User : waits[u] /= NoWait}
           ready   == {u \in waiting : IsApplied(waits[u].expect)}
       IN \/ ~leads' /\ UNCHANGED <<process, input, waits, replies>>
          \/ /\ leads' /\ ready = waiting
             /\ Answer(ready) /\ UNCHANGED process
          \/ /\ leads' /\ ready /= waiting
             /\ process' = "hangs" /\ \E us \in SUBSET ready : Answer(us)
    /\ UNCHANGED <<term, log, acked, link, asked>>

NextUsers ==
    \/ Lead \/ Acknowledge \/ Follow \/ Tick
    \/ \E u \in User : Accept(u) \/ CloseClient(u) \/ OnMessage(u)

SpecUsers == InitUsers /\ [][NextUsers]_userVars
-----------------------------------------------------------------------------
\* A write that is answered with OK by the leader that took it is applied, and
\* is the one the answer shows, although the answer is made of the buffer as it
\* is then: with what was left there by a write that failed, what came in one
\* read with it, and over connections that close (raftserver.cpp:201, :233).
OkShowsApplied ==
    \A u \in User : \A i \in DOMAIN replies[u] :
        LET first == replies[u][i].all[1]
        IN first.op = "set" /\ first.mark = "ok" /\ replies[u][i].same =>
              \E k \in 1..applied : log[k] = first.id

\* No write is answered by OK twice.
OkIsSentOnce ==
    \A u \in User : \A i, j \in DOMAIN replies[u] :
        replies[u][i].all[1].id = replies[u][j].all[1].id => i = j

\* What a raft node answers its clients by OK was applied, and is answered once,
\* as long as the leader that took the write leads.
OkIsApplied == OkShowsApplied /\ OkIsSentOnce
=============================================================================
