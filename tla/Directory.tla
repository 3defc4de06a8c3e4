----------------------------- MODULE Directory ------------------------------
(* Service discovery: brokers that register with every directory server     *)
(* (example/dirserver/dirserver.cc), and a producer or consumer that asks   *)
(* the servers which brokers there are and keeps a client for each of them  *)
(* (example/mqbusd/mqbusd.cc).  Brokers crash and come back, connections    *)
(* break, and a server restarts with empty tables; what a server has not    *)
(* read yet of a connection, a registration or its end, is in "sockets".    *)
EXTENDS Integers, FiniteSets

CONSTANTS
    Host, Dir,     \* the brokers; the directory servers
    Fd,            \* descriptors a server has for the brokers
    DirFaults      \* bound: crashes, broken connections and restarts, in all

VARIABLES
    running,     \* Host -> BOOLEAN
    conn,        \* Host -> Dir -> descriptor of the broker's connection, or NoFd
    sockets,     \* Dir -> Fd -> [host, unread, ends]: the server's end
    tables,      \* Dir -> [info, link, beat]: what the server knows
    busd,        \* [tmp, info, count, timer, left, gone]: its left are the hosts that a
                 \* deleted client is still connected to; gone if it has crashed
    clients,     \* Host -> "none", "connecting", "open", "dead": m_mqserver_clients
    asks,        \* Dir -> [at: "off", "unlinked", "idle", "asked" or "answered", list]
    faults

dirVars == <<running, conn, sockets, tables, busd, clients, asks, faults>>

NoFd == 0
At(place) == [at |-> place, list |-> {}]
NoHost == "no host"
Free == [host |-> NoHost, unread |-> FALSE, ends |-> FALSE]
EmptyTables == [info |-> {}, link |-> [fd \in {} |-> NoHost], beat |-> [fd \in {} |-> 0]]

InitDirectory ==
    /\ running = [h \in Host |-> FALSE]
    /\ conn = [h \in Host |-> [d \in Dir |-> NoFd]]
    /\ sockets = [d \in Dir |-> [fd \in Fd |-> Free]]
    /\ tables = [d \in Dir |-> EmptyTables]
    /\ busd = [tmp |-> {}, info |-> {}, count |-> 0, timer |-> FALSE, left |-> {}, gone |-> FALSE]
    /\ clients = [h \in Host |-> "none"]
    /\ asks = [d \in Dir |-> At("off")]
    /\ faults = 0
-----------------------------------------------------------------------------
(* Brokers.                                                                 *)
Faulty == faults < DirFaults /\ faults' = faults + 1

Lost(d, fds) ==
    LET ended == [fd \in Fd |-> [sockets[d][fd] EXCEPT !.ends = @ \/ fd \in fds]]
    IN  [sockets EXCEPT ![d] = ended]

StartBroker(h) ==
    /\ ~running[h]
    /\ running' = [running EXCEPT ![h] = TRUE]
    /\ UNCHANGED <<conn, sockets, tables, busd, clients, asks, faults>>

\* What a busd may be once its connections with a host have closed: of a client
\* that was deleted, the close callback reads the freed client (tcpclient.cc:41),
\* which may end the process or do no harm (TcpClient has the steps).
Closed(h) ==
    LET lives == [busd EXCEPT !.left = @ \ {h}]
    IN  {lives} \cup (IF h \in busd.left THEN {[lives EXCEPT !.gone = TRUE]} ELSE {})

\* A client of a broker does not retry once it was connected.
Broken(h) == clients' = [clients EXCEPT ![h] = IF @ = "open" THEN "dead" ELSE @]

CrashBroker(h) ==
    /\ running[h] /\ Faulty
    /\ running' = [running EXCEPT ![h] = FALSE]
    /\ conn' = [conn EXCEPT ![h] = [d \in Dir |-> NoFd]]
    /\ sockets' = [d \in Dir |-> Lost(d, {conn[h][d]})[d]]
    /\ Broken(h) /\ busd' \in Closed(h)
    /\ UNCHANGED <<tables, asks>>

\* The connections of the busd with a broker break, and both go on.
BreakClient(h) ==
    /\ clients[h] = "open" \/ h \in busd.left
    /\ Faulty /\ Broken(h) /\ busd' \in Closed(h)
    /\ UNCHANGED <<running, conn, sockets, tables, asks>>

Break(h, d) ==
    /\ conn[h][d] /= NoFd /\ Faulty
    /\ conn' = [conn EXCEPT ![h][d] = NoFd]
    /\ sockets' = Lost(d, {conn[h][d]})
    /\ UNCHANGED <<running, tables, busd, clients, asks>>

\* The client of the broker connects, and its callback registers at once.
ConnectToDir(h, d) ==
    /\ running[h] /\ conn[h][d] = NoFd
    /\ \E fd \in Fd :
          /\ sockets[d][fd] = Free
          /\ \A lower \in Fd : lower < fd => sockets[d][lower] /= Free
          /\ conn' = [conn EXCEPT ![h][d] = fd]
          /\ sockets' = [sockets EXCEPT ![d][fd] = [host |-> h, unread |-> TRUE, ends |-> FALSE]]
    /\ UNCHANGED <<running, tables, busd, clients, asks, faults>>

\* sendKeepAliveWithMs registers again with every server that is connected.
SendKeepAlive(h) ==
    /\ \E d \in Dir : conn[h][d] /= NoFd /\ ~sockets[d][conn[h][d]].unread
    /\ sockets' = [d \in Dir |->
           IF conn[h][d] = NoFd THEN sockets[d]
           ELSE [sockets[d] EXCEPT ![conn[h][d]].unread = TRUE]]
    /\ UNCHANGED <<running, conn, tables, busd, clients, asks, faults>>
-----------------------------------------------------------------------------
(* A directory server.                                                      *)
Set(f, x, y) == [z \in DOMAIN f \cup {x} |-> IF z = x THEN y ELSE f[z]]
Drop(f, xs) == [z \in DOMAIN f \ xs |-> f[z]]

\* Mutant: the host of a connection that ended stays listed.
HostStays(t, fds) == [t EXCEPT !.link = Drop(@, fds), !.beat = Drop(@, fds)]

\* What is left of the tables without these connections: their hosts go too.
Without(t, fds) ==
    [info |-> t.info \ {t.link[fd] : fd \in fds}, link |-> Drop(t.link, fds), beat |-> Drop(t.beat, fds)]

HandleRegister(d, fd) ==
    /\ sockets[d][fd].unread
    /\ sockets' = [sockets EXCEPT ![d][fd].unread = FALSE]
    /\ LET h == sockets[d][fd].host
       IN tables' = [tables EXCEPT ![d] =
              [info |-> @.info \cup {h}, link |-> Set(@.link, fd, h), beat |-> Set(@.beat, fd, 0)]]
    /\ UNCHANGED <<running, conn, busd, clients, asks, faults>>

\* The close callback, once all that came before the end has been read.
HandleClose(d, fd) ==
    /\ sockets[d][fd].ends /\ ~sockets[d][fd].unread
    /\ sockets' = [sockets EXCEPT ![d][fd] = Free]
    /\ tables' = [tables EXCEPT ![d] = Without(@, {fd} \cap DOMAIN @.link)]
    /\ UNCHANGED <<running, conn, busd, clients, asks, faults>>

\* The timer drops the connections not heard of since the check before the last:
\* a registration lives for more than one and less than two of its periods.
Late(t) == {fd \in DOMAIN t.beat : t.beat[fd] = 1}

\* A broker registers every 3 s and the check runs every 5 s: a connection that
\* lasts has brought a registration since the check before.
RegistersInTime(d) == \A fd \in Late(tables[d]) : \A h \in Host : conn[h][d] /= fd

\* The code goes on with a reference to the entry that it has erased; the entry's
\* memory still names the connection, which the server's own table keeps alive.
ListenClient(d) ==
    /\ tables[d].beat /= EmptyTables.beat /\ RegistersInTime(d)
    /\ LET left == Without(tables[d], Late(tables[d]))
           checked == [left EXCEPT !.beat = [fd \in DOMAIN @ |-> 1]]
       IN tables' = [tables EXCEPT ![d] = checked]
    /\ UNCHANGED <<running, conn, sockets, busd, clients, asks, faults>>

\* The answer is an acknowledgement if there is no broker, else the list; there
\* is none when brokers are listed and no connection is.
Answer(t) == [at |-> "answered", list |-> t.info]

HandleRequest(d) ==
    /\ asks[d].at = "asked"
    /\ LET t == tables[d]
       IN asks' = [asks EXCEPT ![d] = IF t.info = {} \/ DOMAIN t.beat /= {} THEN Answer(t) ELSE At("idle")]
    /\ UNCHANGED <<running, conn, sockets, tables, busd, clients, faults>>

RestartDir(d) ==
    /\ Faulty
    /\ tables' = [tables EXCEPT ![d] = EmptyTables]
    /\ sockets' = [sockets EXCEPT ![d] = [fd \in Fd |-> Free]]
    /\ conn' = [h \in Host |-> [conn[h] EXCEPT ![d] = NoFd]]
    /\ asks' = [asks EXCEPT ![d] = IF @.at = "off" THEN @ ELSE At("unlinked")]
    /\ UNCHANGED <<running, busd, clients>>
-----------------------------------------------------------------------------
(* MqBusd.                                                                  *)
Started == \A d \in Dir : asks[d].at /= "off"

Connect ==
    /\ ~Started
    /\ asks' = [d \in Dir |-> At("unlinked")]
    /\ UNCHANGED <<running, conn, sockets, tables, busd, clients, faults>>

LinkToDir(d) ==
    /\ ~busd.gone /\ asks[d].at = "unlinked"
    /\ asks' = [asks EXCEPT ![d] = At("asked")]
    /\ UNCHANGED <<running, conn, sockets, tables, busd, clients, faults>>

\* updateMqSeverConfWithMs asks every server that is connected.
AskAll ==
    /\ ~busd.gone /\ busd.timer /\ \E d \in Dir : asks[d].at = "idle"
    /\ asks' = [d \in Dir |-> IF asks[d].at = "idle" THEN At("asked") ELSE asks[d]]
    /\ UNCHANGED <<running, conn, sockets, tables, busd, clients, faults>>

Enough(count) == 2 * count >= Cardinality(Dir)

\* updateMqBrokerClients: clients of brokers that are not listed are deleted, new
\* ones come.  ~TcpClient runs in the loop: a connection that the user keeps too,
\* as Producer does in m_vaild_conne, stays open without its client.
Updated(hosts, kept) ==
    /\ kept \subseteq {h \in Host \ hosts : clients[h] = "open"}
    /\ busd' = [busd EXCEPT !.tmp = {}, !.info = hosts, !.count = 0, !.timer = TRUE,
                            !.left = @ \cup kept]
    /\ clients' = [h \in Host |->
           IF h \notin hosts THEN "none"
           ELSE IF clients[h] = "none" THEN "connecting" ELSE clients[h]]

\* The brokers of an answer are added to those of the answers before.
Gathered(known, answer) == known \cup answer.list

HandleAnswer(d) ==
    /\ ~busd.gone /\ asks[d].at = "answered"
    /\ asks' = [asks EXCEPT ![d] = At("idle")]
    /\ LET hosts == Gathered(busd.tmp, asks[d])
       IN IF Enough(busd.count + 1)
          THEN \E kept \in SUBSET Host : Updated(hosts, kept)
          ELSE busd' = [busd EXCEPT !.tmp = hosts, !.count = @ + 1] /\ UNCHANGED clients
    /\ UNCHANGED <<running, conn, sockets, tables, faults>>

\* A client goes on trying until its broker answers; it does so only once.
Connected(h) ==
    /\ ~busd.gone /\ clients[h] = "connecting" /\ running[h]
    /\ clients' = [clients EXCEPT ![h] = "open"]
    /\ UNCHANGED <<running, conn, sockets, tables, busd, asks, faults>>

Broker(h) ==
    \/ StartBroker(h) \/ CrashBroker(h) \/ SendKeepAlive(h) \/ BreakClient(h)
    \/ \E d \in Dir : Break(h, d) \/ ConnectToDir(h, d)

Server(d) ==
    \/ \E fd \in Fd : HandleRegister(d, fd) \/ HandleClose(d, fd)
    \/ ListenClient(d) \/ HandleRequest(d) \/ RestartDir(d)

Busd == AskAll \/ \E d \in Dir : LinkToDir(d) \/ HandleAnswer(d)

NextDirectory ==
    \/ \E h \in Host : Broker(h) \/ Connected(h)
    \/ \E d \in Dir : Server(d)
    \/ Connect \/ Busd

FairDirectory ==
    /\ \A h \in Host : /\ WF_dirVars(SendKeepAlive(h)) /\ WF_dirVars(Connected(h))
                       /\ \A d \in Dir : WF_dirVars(ConnectToDir(h, d))
    /\ \A d \in Dir : /\ \A fd \in Fd : WF_dirVars(HandleRegister(d, fd)) /\ WF_dirVars(HandleClose(d, fd))
                      /\ WF_dirVars(ListenClient(d)) /\ WF_dirVars(HandleRequest(d))
                      /\ WF_dirVars(LinkToDir(d)) /\ WF_dirVars(HandleAnswer(d))
    /\ WF_dirVars(AskAll)
-----------------------------------------------------------------------------
\* The tables of a server agree, as dirserver.cc:82 and :88 assert: a connection
\* with a heartbeat has a host, and a host that is listed has a connection, so
\* that a request never goes without an answer (dirserver.cc:126).
TablesAgree ==
    \A d \in Dir : LET t == tables[d]
                   IN /\ DOMAIN t.link = DOMAIN t.beat
                      /\ t.info \subseteq {t.link[fd] : fd \in DOMAIN t.link}

Forgotten(h) == clients[h] = "none" /\ \A d \in Dir : h \notin tables[d].info

Found(h) == clients[h] \in {"open", "dead"}

\* A broker that stays down is not listed for ever, nor kept as a client, though
\* servers restart and connections end in any order, as long as the busd lives.
DeadAreForgotten ==
    \A h \in Host : ~running[h] ~> (running[h] \/ busd.gone \/ Forgotten(h))

\* A broker that goes on running is found and connected to, whatever happens to
\* the servers and to its connections with them; once it was, a connection that
\* breaks is not made again while the broker is listed (tcpclient.cc:111).
BrokersAreFound ==
    \A h \in Host : Started /\ running[h] ~> (Found(h) \/ ~running[h] \/ busd.gone)
=============================================================================
