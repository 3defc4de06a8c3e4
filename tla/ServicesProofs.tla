--------------------------- MODULE ServicesProofs ---------------------------
(***************************************************************************)
(* Proofs about the connections of skylu/net, the threads of its loops and *)
(* the tables of a directory server, as MCServices composes them.          *)
(***************************************************************************)
EXTENDS MCServices, SequenceTheorems, TLAPS

(***************************************************************************)
(* The thread of a loop.  Once started, the thread runs its loop until the *)
(* owner has told it to quit, so what startLoop returned is there.         *)
(***************************************************************************)

OwnerPlaces == {"construct", "constructWait", "constructed", "start", "lockLoop", "waitLoop",
                "loopNotified", "started", "quit", "wakeup", "join", "destroyed"}
BeforeLoop == {"none", "begin", "await", "awaitPost", "construct"}

ThreadInv ==
    /\ owner \in OwnerPlaces
    /\ thread \in BeforeLoop \cup {"publish", "loop", "unpublish", "leave", "ended"}
    /\ owner = "construct" <=> thread = "none"
    /\ thread \in BeforeLoop => threadLoop = "none"
    /\ m_loop \in BOOLEAN /\ (m_loop <=> thread \in {"loop", "unpublish"})
    /\ owner \notin {"wakeup", "join", "destroyed"} => threadLoop \in {"none", "alive"}
    /\ thread \in {"publish", "loop"} /\ owner \notin {"wakeup", "join", "destroyed"} => threadLoop = "alive"
    /\ thread \in {"unpublish", "leave", "ended"} => owner \in {"wakeup", "join", "destroyed"}
    /\ owner \in {"started", "quit"} => got = TRUE /\ thread = "loop"
    /\ owner = "destroyed" => thread = "ended"

LEMMA ThreadInit == L!InitThread => ThreadInv
  BY DEF L!InitThread, ThreadInv, OwnerPlaces, BeforeLoop

LEMMA ThreadStep ==
  ASSUME ThreadInv, L!NextThread \/ UNCHANGED threadVars
  PROVE  ThreadInv'
<1> USE DEF ThreadInv, OwnerPlaces, BeforeLoop
<1>1. CASE UNCHANGED threadVars
  BY <1>1 DEF threadVars
<1>2. CASE L!Create
  BY <1>2 DEF L!Create
<1>3. CASE L!Constructed \/ L!SetStart \/ L!PostStart
  BY <1>3 DEF L!Constructed, L!SetStart, L!PostStart
<1>4. CASE L!WaitLoop
  BY <1>4 DEF L!WaitLoop, L!LoopIsSet
<1>5. CASE L!Quit \/ L!Wakeup
  BY <1>5 DEF L!Quit, L!Wakeup
<1>6. CASE L!Join
  BY <1>6 DEF L!Join
<1>7. CASE L!Destroy
  BY <1>7 DEF L!Destroy
<1>8. CASE L!Begin \/ L!AwaitPost
  BY <1>8 DEF L!Begin, L!AwaitPost
<1>9. CASE L!Await
  BY <1>9 DEF L!Await, L!StartSeen
<1>10. CASE L!MakeLoop
  BY <1>10 DEF L!MakeLoop
<1>11. CASE L!Publish
  BY <1>11 DEF L!Publish
<1>12. CASE L!LeaveLoop
  BY <1>12 DEF L!LeaveLoop
<1>13. CASE L!Unpublish
  BY <1>13 DEF L!Unpublish
<1>14. CASE L!EndThread
  BY <1>14 DEF L!EndThread
<1> QED
  BY <1>1, <1>2, <1>3, <1>4, <1>5, <1>6, <1>7, <1>8, <1>9, <1>10, <1>11, <1>12, <1>13, <1>14
     DEF L!NextThread, L!OwnerStep, L!ThreadStep

LEMMA LoopIsThere == ThreadInv => L!LoopIsThere
  BY DEF ThreadInv, L!LoopIsThere

(***************************************************************************)
(* The tables of a directory server.  A registration could take the place  *)
(* of another host's, and leave that one listed, were a descriptor not     *)
(* that of one host from its connection until its end was read.            *)
(***************************************************************************)

Descriptor == 1..Descriptors
Socket == [host : Brokers \cup {D!NoHost}, unread : BOOLEAN, ends : BOOLEAN]

\* Nothing of a descriptor that is free was told, or is still to be read.
SocketOk(s) == s \in Socket /\ (s.host = D!NoHost => s = D!Free)

TableOk(t, of) ==
    /\ t = [info |-> t.info, link |-> t.link, beat |-> t.beat]
    /\ DOMAIN t.link = DOMAIN t.beat
    /\ t.info \subseteq {t.link[fd] : fd \in DOMAIN t.link}
    /\ \A fd \in DOMAIN t.link : fd \in Descriptor /\ of[fd].host = t.link[fd] /\ t.link[fd] # D!NoHost

\* A broker that is connected has a socket of its own.
LinkOk(h, fd, of) == fd # D!NoFd => fd \in Descriptor /\ of[fd].host = h /\ ~ of[fd].ends

DirInv ==
    /\ links \in [Brokers -> [Directories -> Descriptor \cup {D!NoFd}]]
    /\ sockets \in [Directories -> [Descriptor -> Socket]]
    /\ tables = [d \in Directories |-> tables[d]]
    /\ \A d \in Directories : \A fd \in Descriptor : SocketOk(sockets[d][fd])
    /\ \A d \in Directories : TableOk(tables[d], sockets[d])
    /\ \A h \in Brokers : \A d \in Directories : LinkOk(h, links[h][d], sockets[d])

LEMMA DirectoryInit == D!InitDirectory => DirInv
<1> SUFFICES ASSUME D!InitDirectory PROVE DirInv
  OBVIOUS
<1>1. D!Free \in Socket /\ SocketOk(D!Free)
  BY DEF D!Free, Socket, SocketOk
<1>2. ASSUME NEW of PROVE TableOk(D!EmptyTables, of)
  BY DEF D!EmptyTables, TableOk
<1>3. /\ links \in [Brokers -> [Directories -> Descriptor \cup {D!NoFd}]]
      /\ \A h \in Brokers : \A d \in Directories : links[h][d] = D!NoFd
  BY DEF D!InitDirectory
<1>4. /\ sockets \in [Directories -> [Descriptor -> Socket]]
      /\ \A d \in Directories : \A fd \in Descriptor : sockets[d][fd] = D!Free
  BY <1>1 DEF D!InitDirectory, Descriptor
<1>5. tables = [d \in Directories |-> tables[d]] /\ \A d \in Directories : tables[d] = D!EmptyTables
  BY DEF D!InitDirectory
<1> QED BY <1>1, <1>2, <1>3, <1>4, <1>5 DEF DirInv, LinkOk

\* A step of one server's sockets, tables and links.
LEMMA ServerStep ==
  ASSUME DirInv, NEW d \in Directories,
         links' \in [Brokers -> [Directories -> Descriptor \cup {D!NoFd}]],
         NEW of \in [Descriptor -> Socket], sockets' = [sockets EXCEPT ![d] = of],
         NEW t, tables' = [tables EXCEPT ![d] = t], TableOk(t, of),
         \A fd \in Descriptor : SocketOk(of[fd]),
         \A h \in Brokers : LinkOk(h, links'[h][d], of),
         \A h \in Brokers : \A e \in Directories \ {d} : links'[h][e] = links[h][e]
  PROVE  DirInv'
<1>1. /\ sockets' \in [Directories -> [Descriptor -> Socket]]
      /\ sockets'[d] = of /\ \A e \in Directories \ {d} : sockets'[e] = sockets[e]
  BY DEF DirInv
<1>2. /\ DOMAIN tables' = Directories
      /\ tables' = [e \in Directories |-> tables'[e]]
      /\ tables'[d] = t /\ \A e \in Directories \ {d} : tables'[e] = tables[e]
  BY DEF DirInv
<1>3. \A e \in Directories : \A fd \in Descriptor : SocketOk(sockets'[e][fd])
  BY <1>1 DEF DirInv
<1>4. \A e \in Directories : TableOk(tables'[e], sockets'[e])
  BY <1>1, <1>2 DEF DirInv
<1>5. \A h \in Brokers : \A e \in Directories : LinkOk(h, links'[h][e], sockets'[e])
  <2> SUFFICES ASSUME NEW h \in Brokers, NEW e \in Directories PROVE LinkOk(h, links'[h][e], sockets'[e])
    OBVIOUS
  <2>1. CASE e = d
    BY <1>1, <2>1
  <2>2. CASE e # d
    <3>1. links'[h][e] = links[h][e] /\ sockets'[e] = sockets[e]
      BY <1>1, <2>2
    <3> QED BY <3>1 DEF DirInv
  <2> QED BY <2>1, <2>2
<1>6. /\ links' \in [Brokers -> [Directories -> Descriptor \cup {D!NoFd}]]
  OBVIOUS
<1> HIDE DEF Descriptor
<1> QED BY <1>1, <1>2, <1>3, <1>4, <1>5 DEF DirInv, SocketOk, TableOk, LinkOk

\* The tables are about the hosts of the sockets only.
LEMMA SameHosts ==
  ASSUME NEW t, NEW of, TableOk(t, of), NEW of2, \A fd \in Descriptor : of2[fd].host = of[fd].host
  PROVE  TableOk(t, of2)
  BY DEF TableOk

\* The connection of one broker ends.
LEMMA ConnectionEnds ==
  ASSUME DirInv, NEW h \in Brokers, NEW d \in Directories, NEW of,
         of = [fd \in Descriptor |-> [sockets[d][fd] EXCEPT !.ends = @ \/ fd \in {links[h][d]}]]
  PROVE  /\ of \in [Descriptor -> Socket]
         /\ \A fd \in Descriptor : SocketOk(of[fd])
         /\ TableOk(tables[d], of)
         /\ \A g \in Brokers \ {h} : LinkOk(g, links[g][d], of)
<1>1. \A fd \in Descriptor : sockets[d][fd] \in Socket /\ SocketOk(sockets[d][fd])
  BY DEF DirInv
<1>2. ASSUME NEW fd \in Descriptor
      PROVE  /\ of[fd] \in Socket /\ of[fd].host = sockets[d][fd].host
             /\ of[fd].unread = sockets[d][fd].unread
             /\ of[fd].ends <=> sockets[d][fd].ends \/ fd = links[h][d]
  BY <1>1 DEF Socket
<1>3. LinkOk(h, links[h][d], sockets[d]) /\ h # D!NoHost
  BY ServicesAssumption DEF DirInv, D!NoHost
<1>4. ASSUME NEW fd \in Descriptor PROVE SocketOk(of[fd])
  <2>1. CASE of[fd].host # D!NoHost
    BY <1>2, <2>1 DEF SocketOk
  <2>2. CASE of[fd].host = D!NoHost
    <3>1. fd # links[h][d] /\ sockets[d][fd] = D!Free
      <4>1. sockets[d][fd].host = D!NoHost
        BY <1>2, <2>2
      <4>2. sockets[d][fd] = D!Free
        BY <1>1, <4>1 DEF SocketOk
      <4>3. fd # links[h][d]
        BY <1>3, <4>1 DEF LinkOk, Descriptor, D!NoFd
      <4> QED BY <4>2, <4>3
    <3>2. /\ of[fd].unread = FALSE /\ of[fd].ends = FALSE
          /\ of[fd] = [host |-> of[fd].host, unread |-> of[fd].unread, ends |-> of[fd].ends]
      BY <1>2, <3>1 DEF D!Free, Socket
    <3>3. of[fd] = D!Free
      BY <2>2, <3>2 DEF D!Free
    <3> QED BY <1>2, <3>3 DEF SocketOk
  <2> QED BY <2>1, <2>2
<1>5. TableOk(tables[d], of)
  <2>1. TableOk(tables[d], sockets[d])
    BY DEF DirInv
  <2>2. \A fd \in Descriptor : of[fd].host = sockets[d][fd].host
    BY <1>2
  <2> QED BY <2>1, <2>2, SameHosts
<1>6. ASSUME NEW g \in Brokers \ {h}, links[g][d] # D!NoFd PROVE LinkOk(g, links[g][d], of)
  <2>1. LinkOk(g, links[g][d], sockets[d])
    BY DEF DirInv
  <2>2. links[g][d] # links[h][d]
    BY <1>3, <1>6, <2>1 DEF LinkOk
  <2> QED BY <1>2, <1>6, <2>1, <2>2 DEF LinkOk
<1>7. of \in [Descriptor -> Socket]
  BY <1>2
<1> QED BY <1>4, <1>5, <1>6, <1>7 DEF LinkOk

LEMMA CrashBrokerStep ==
  ASSUME DirInv, NEW h \in Brokers, D!CrashBroker(h)
  PROVE  DirInv'
<1> DEFINE Ended(d) == [fd \in Descriptor |-> [sockets[d][fd] EXCEPT !.ends = @ \/ fd \in {links[h][d]}]]
<1>1. /\ links' = [links EXCEPT ![h] = [d \in Directories |-> D!NoFd]]
      /\ UNCHANGED tables
  BY DEF D!CrashBroker
<1>2. /\ DOMAIN sockets' = Directories
      /\ \A d \in Directories : sockets'[d] = Ended(d)
  BY DEF D!CrashBroker, D!Lost, DirInv, Descriptor
<1>3. \A d \in Directories :
         /\ sockets'[d] \in [Descriptor -> Socket]
         /\ \A fd \in Descriptor : SocketOk(sockets'[d][fd])
         /\ TableOk(tables[d], sockets'[d])
         /\ \A g \in Brokers \ {h} : LinkOk(g, links[g][d], sockets'[d])
  BY <1>2, ConnectionEnds
<1>4. sockets' \in [Directories -> [Descriptor -> Socket]]
  <2>1. sockets' = [d \in Directories |-> sockets'[d]]
    BY DEF D!CrashBroker
  <2> QED BY <1>3, <2>1
<1>5. /\ links' \in [Brokers -> [Directories -> Descriptor \cup {D!NoFd}]]
      /\ \A d \in Directories : links'[h][d] = D!NoFd
      /\ \A g \in Brokers \ {h} : links'[g] = links[g]
  BY <1>1 DEF DirInv
<1>6. \A g \in Brokers : \A d \in Directories : LinkOk(g, links'[g][d], sockets'[d])
  BY <1>3, <1>5 DEF LinkOk
<1> QED BY <1>1, <1>3, <1>4, <1>5, <1>6 DEF DirInv, SocketOk, TableOk, LinkOk

LEMMA BreakStep ==
  ASSUME DirInv, NEW h \in Brokers, NEW d \in Directories, D!Break(h, d)
  PROVE  DirInv'
<1>1. PICK of : of = [fd \in Descriptor |-> [sockets[d][fd] EXCEPT !.ends = @ \/ fd \in {links[h][d]}]]
  OBVIOUS
<1>2. /\ of \in [Descriptor -> Socket]
      /\ \A fd \in Descriptor : SocketOk(of[fd])
      /\ TableOk(tables[d], of)
      /\ \A g \in Brokers \ {h} : LinkOk(g, links[g][d], of)
  BY <1>1, ConnectionEnds
<1>3. sockets' = [sockets EXCEPT ![d] = of]
  BY <1>1 DEF D!Break, D!Lost, Descriptor
<1>4. /\ links' \in [Brokers -> [Directories -> Descriptor \cup {D!NoFd}]]
      /\ links'[h][d] = D!NoFd
      /\ \A g \in Brokers : \A e \in Directories : g # h \/ e # d => links'[g][e] = links[g][e]
  BY DEF D!Break, DirInv
<1>5. tables' = [tables EXCEPT ![d] = tables[d]]
  BY DEF D!Break, DirInv
<1>6. \A g \in Brokers : LinkOk(g, links'[g][d], of)
  BY <1>2, <1>4 DEF LinkOk
<1>7. \A g \in Brokers : \A e \in Directories \ {d} : links'[g][e] = links[g][e]
  BY <1>4
<1> HIDE DEF Descriptor
<1> QED BY <1>2, <1>3, <1>4, <1>5, <1>6, <1>7, ServerStep

LEMMA ConnectToDirStep ==
  ASSUME DirInv, NEW h \in Brokers, NEW d \in Directories, D!ConnectToDir(h, d)
  PROVE  DirInv'
<1>1. PICK fd \in Descriptor :
         /\ sockets[d][fd] = D!Free
         /\ links' = [links EXCEPT ![h][d] = fd]
         /\ sockets' = [sockets EXCEPT ![d][fd] = [host |-> h, unread |-> TRUE, ends |-> FALSE]]
  BY DEF D!ConnectToDir, Descriptor
<1>2. PICK new : new = [host |-> h, unread |-> TRUE, ends |-> FALSE]
  OBVIOUS
<1>3. new \in Socket /\ new.host = h /\ ~ new.ends /\ SocketOk(new)
  BY <1>2, ServicesAssumption DEF Socket, SocketOk, D!NoHost
<1>4. PICK of : of = [sockets[d] EXCEPT ![fd] = new]
  OBVIOUS
<1>5. /\ sockets[d] \in [Descriptor -> Socket]
      /\ of \in [Descriptor -> Socket] /\ of[fd] = new
      /\ \A e \in Descriptor \ {fd} : of[e] = sockets[d][e]
  BY <1>3, <1>4 DEF DirInv
<1>6. sockets' = [sockets EXCEPT ![d] = of]
  BY <1>1, <1>2, <1>4 DEF DirInv
<1>7. \A e \in Descriptor : SocketOk(of[e])
  BY <1>3, <1>5 DEF DirInv
<1>8. sockets[d][fd].host = D!NoHost
  BY <1>1 DEF D!Free
<1>9. TableOk(tables[d], of)
  <2>1. TableOk(tables[d], sockets[d])
    BY DEF DirInv
  <2>2. fd \notin DOMAIN tables[d].link
    BY <1>8, <2>1 DEF TableOk
  <2>3. \A e \in DOMAIN tables[d].link : of[e] = sockets[d][e]
    BY <1>5, <2>1, <2>2 DEF TableOk
  <2> QED BY <2>1, <2>3 DEF TableOk
<1>10. \A g \in Brokers : LinkOk(g, links[g][d], of) \/ g = h
  <2> SUFFICES ASSUME NEW g \in Brokers PROVE LinkOk(g, links[g][d], of)
    OBVIOUS
  <2>1. LinkOk(g, links[g][d], sockets[d]) /\ g # D!NoHost
    BY ServicesAssumption DEF DirInv, D!NoHost
  <2> QED BY <1>5, <1>8, <2>1 DEF LinkOk
<1>11. LinkOk(h, fd, of)
  BY <1>3, <1>5 DEF LinkOk
<1>12. /\ links' \in [Brokers -> [Directories -> Descriptor \cup {D!NoFd}]]
       /\ links'[h][d] = fd
       /\ \A g \in Brokers : \A e \in Directories : g # h \/ e # d => links'[g][e] = links[g][e]
  BY <1>1 DEF DirInv
<1>13. tables' = [tables EXCEPT ![d] = tables[d]]
  <2>1. UNCHANGED tables
    BY DEF D!ConnectToDir
  <2> QED BY <2>1 DEF DirInv
<1>14. \A g \in Brokers : LinkOk(g, links'[g][d], of)
  BY <1>10, <1>11, <1>12
<1> QED BY <1>5, <1>6, <1>7, <1>9, <1>12, <1>13, <1>14, ServerStep

LEMMA SendKeepAliveStep ==
  ASSUME DirInv, NEW h \in Brokers, D!SendKeepAlive(h)
  PROVE  DirInv'
<1>1. ASSUME NEW d \in Directories
      PROVE  /\ sockets'[d] \in [Descriptor -> Socket]
             /\ \A fd \in Descriptor : SocketOk(sockets'[d][fd])
             /\ \A fd \in Descriptor : sockets'[d][fd].host = sockets[d][fd].host
             /\ \A fd \in Descriptor : sockets'[d][fd].ends = sockets[d][fd].ends
  <2>1. /\ sockets[d] \in [Descriptor -> Socket]
        /\ \A fd \in Descriptor : SocketOk(sockets[d][fd])
        /\ LinkOk(h, links[h][d], sockets[d]) /\ h # D!NoHost
    BY ServicesAssumption DEF DirInv, D!NoHost
  <2>2. CASE links[h][d] = D!NoFd
    BY <2>1, <2>2 DEF D!SendKeepAlive
  <2>3. CASE links[h][d] # D!NoFd
    <3>1. PICK fd : fd = links[h][d]
      OBVIOUS
    <3>2. fd \in Descriptor /\ sockets[d][fd].host = h
      BY <2>1, <2>3, <3>1 DEF LinkOk
    <3>3. sockets'[d] = [sockets[d] EXCEPT ![fd].unread = TRUE]
      BY <2>3, <3>1 DEF D!SendKeepAlive
    <3>4. /\ sockets'[d] \in [Descriptor -> Socket]
          /\ sockets'[d][fd].host = h /\ sockets'[d][fd].ends = sockets[d][fd].ends
          /\ \A e \in Descriptor \ {fd} : sockets'[d][e] = sockets[d][e]
      BY <2>1, <3>2, <3>3 DEF Socket
    <3> QED BY <2>1, <3>2, <3>4 DEF SocketOk
  <2> QED BY <2>2, <2>3
<1>2. sockets' = [d \in Directories |-> sockets'[d]] /\ UNCHANGED <<links, tables>>
  BY DEF D!SendKeepAlive
<1>3. sockets' \in [Directories -> [Descriptor -> Socket]]
  BY <1>1, <1>2
<1>4. \A d \in Directories : TableOk(tables[d], sockets'[d])
  BY <1>1, SameHosts DEF DirInv
<1>5. ASSUME NEW g \in Brokers, NEW d \in Directories PROVE LinkOk(g, links[g][d], sockets'[d])
  <2>1. LinkOk(g, links[g][d], sockets[d])
    BY DEF DirInv
  <2>2. \A fd \in Descriptor : /\ sockets'[d][fd].host = sockets[d][fd].host
                              /\ sockets'[d][fd].ends = sockets[d][fd].ends
    BY <1>1
  <2> QED BY <2>1, <2>2 DEF LinkOk
<1> HIDE DEF Descriptor, Socket
<1> QED BY <1>1, <1>2, <1>3, <1>4, <1>5 DEF DirInv, SocketOk, TableOk, LinkOk

\* Hosts go with their connections.
LEMMA WithoutOk ==
  ASSUME NEW t, NEW of, TableOk(t, of), NEW fds
  PROVE  /\ TableOk(D!Without(t, fds), of)
         /\ DOMAIN D!Without(t, fds).link = DOMAIN t.link \ fds
<1> DEFINE r == D!Without(t, fds)
<1>1. /\ r = [info |-> r.info, link |-> r.link, beat |-> r.beat]
      /\ r.info = t.info \ {t.link[fd] : fd \in fds}
      /\ r.link = [fd \in DOMAIN t.link \ fds |-> t.link[fd]]
      /\ DOMAIN r.beat = DOMAIN t.beat \ fds
  BY DEF D!Without, D!Drop
<1> HIDE DEF r
<1>2. DOMAIN r.link = DOMAIN t.link \ fds /\ DOMAIN r.link = DOMAIN r.beat
  BY <1>1 DEF TableOk
<1>3. ASSUME NEW h \in r.info PROVE \E fd \in DOMAIN r.link : r.link[fd] = h
  <2>1. h \in t.info /\ h \notin {t.link[fd] : fd \in fds}
    BY <1>1
  <2>2. PICK fd \in DOMAIN t.link : t.link[fd] = h
    BY <2>1 DEF TableOk
  <2>3. fd \in DOMAIN t.link \ fds
    BY <2>1, <2>2
  <2> QED BY <1>1, <1>2, <2>2, <2>3
<1>4. \A fd \in DOMAIN r.link : fd \in Descriptor /\ of[fd].host = r.link[fd] /\ r.link[fd] # D!NoHost
  BY <1>1, <1>2 DEF TableOk
<1>5. TableOk(r, of)
  BY <1>1, <1>2, <1>3, <1>4 DEF TableOk
<1> QED BY <1>2, <1>5 DEF r

LEMMA ListenClientStep ==
  ASSUME DirInv, NEW d \in Directories, D!ListenClient(d)
  PROVE  DirInv'
<1>1. PICK left : left = D!Without(tables[d], D!Late(tables[d]))
  OBVIOUS
<1>2. PICK t : t = [left EXCEPT !.beat = [fd \in DOMAIN @ |-> 1]]
  OBVIOUS
<1>3. tables' = [tables EXCEPT ![d] = t] /\ UNCHANGED <<links, sockets>>
  BY <1>1, <1>2 DEF D!ListenClient
<1>4. TableOk(left, sockets[d])
  BY <1>1, WithoutOk DEF DirInv
<1>5. t.info = left.info /\ t.link = left.link /\ DOMAIN t.beat = DOMAIN left.beat
      /\ t = [info |-> t.info, link |-> t.link, beat |-> t.beat]
  <2>1. left = [info |-> left.info, link |-> left.link, beat |-> left.beat]
    BY <1>4 DEF TableOk
  <2> QED BY <1>2, <2>1
<1>6. TableOk(t, sockets[d])
  BY <1>4, <1>5 DEF TableOk
<1>7. /\ sockets' = [sockets EXCEPT ![d] = sockets[d]]
      /\ sockets[d] \in [Descriptor -> Socket] /\ \A fd \in Descriptor : SocketOk(sockets[d][fd])
      /\ links' \in [Brokers -> [Directories -> Descriptor \cup {D!NoFd}]]
      /\ \A h \in Brokers : LinkOk(h, links'[h][d], sockets[d])
      /\ \A h \in Brokers : \A e \in Directories \ {d} : links'[h][e] = links[h][e]
  BY <1>3 DEF DirInv
<1> HIDE DEF Descriptor, Socket
<1> QED BY <1>3, <1>6, <1>7, ServerStep

LEMMA HandleCloseStep ==
  ASSUME DirInv, NEW d \in Directories, NEW fd \in Descriptor, D!HandleClose(d, fd)
  PROVE  DirInv'
<1>1. PICK t : t = D!Without(tables[d], {fd} \cap DOMAIN tables[d].link)
  OBVIOUS
<1>2. PICK of : of = [sockets[d] EXCEPT ![fd] = D!Free]
  OBVIOUS
<1>3. /\ tables' = [tables EXCEPT ![d] = t] /\ sockets' = [sockets EXCEPT ![d] = of]
      /\ UNCHANGED links /\ sockets[d][fd].ends
  BY <1>1, <1>2 DEF D!HandleClose, DirInv
<1>4. D!Free \in Socket /\ SocketOk(D!Free)
  BY DEF D!Free, Socket, SocketOk
<1>5. /\ of \in [Descriptor -> Socket] /\ of[fd] = D!Free
      /\ \A e \in Descriptor \ {fd} : of[e] = sockets[d][e]
  BY <1>2, <1>4 DEF DirInv
<1>6. \A e \in Descriptor : SocketOk(of[e])
  BY <1>4, <1>5 DEF DirInv
<1>7. TableOk(t, of)
  <2>1. TableOk(t, sockets[d]) /\ fd \notin DOMAIN t.link
    BY <1>1, WithoutOk DEF DirInv
  <2> QED BY <1>5, <2>1 DEF TableOk
<1>8. \A h \in Brokers : LinkOk(h, links[h][d], of)
  BY <1>3, <1>5 DEF DirInv, LinkOk
<1>9. /\ links' \in [Brokers -> [Directories -> Descriptor \cup {D!NoFd}]]
      /\ \A h \in Brokers : LinkOk(h, links'[h][d], of)
      /\ \A h \in Brokers : \A e \in Directories \ {d} : links'[h][e] = links[h][e]
  BY <1>3, <1>8 DEF DirInv
<1> HIDE DEF Descriptor, Socket
<1> QED BY <1>3, <1>5, <1>6, <1>7, <1>9, ServerStep

LEMMA HandleRegisterStep ==
  ASSUME DirInv, NEW d \in Directories, NEW fd \in Descriptor, D!HandleRegister(d, fd)
  PROVE  DirInv'
<1>1. PICK h : h = sockets[d][fd].host
  OBVIOUS
<1>2. PICK link, beat : link = D!Set(tables[d].link, fd, h) /\ beat = D!Set(tables[d].beat, fd, 0)
  OBVIOUS
<1>3. PICK t : t = [info |-> tables[d].info \cup {h}, link |-> link, beat |-> beat]
  OBVIOUS
<1>4. PICK of : of = [sockets[d] EXCEPT ![fd].unread = FALSE]
  OBVIOUS
<1>5. /\ tables' = [tables EXCEPT ![d] = t] /\ sockets' = [sockets EXCEPT ![d] = of]
      /\ UNCHANGED links /\ sockets[d][fd].unread
  BY <1>1, <1>2, <1>3, <1>4 DEF D!HandleRegister, DirInv
<1>6. sockets[d] \in [Descriptor -> Socket] /\ SocketOk(sockets[d][fd]) /\ TableOk(tables[d], sockets[d])
  BY DEF DirInv
<1>7. h # D!NoHost
  BY <1>1, <1>5, <1>6 DEF SocketOk, D!Free
<1>8. /\ of \in [Descriptor -> Socket]
      /\ of[fd].host = h /\ of[fd].ends = sockets[d][fd].ends
      /\ \A e \in Descriptor \ {fd} : of[e] = sockets[d][e]
  BY <1>1, <1>4, <1>6 DEF Socket
<1>9. \A e \in Descriptor : SocketOk(of[e])
  BY <1>7, <1>8 DEF DirInv, SocketOk
<1>10. /\ DOMAIN link = DOMAIN tables[d].link \cup {fd} /\ DOMAIN beat = DOMAIN tables[d].beat \cup {fd}
       /\ link[fd] = h /\ \A e \in DOMAIN tables[d].link \ {fd} : link[e] = tables[d].link[e]
  BY <1>2 DEF D!Set
<1>11. fd \in DOMAIN tables[d].link => tables[d].link[fd] = h
  BY <1>1, <1>6 DEF TableOk
<1>12. \A e \in DOMAIN tables[d].link : link[e] = tables[d].link[e]
  BY <1>10, <1>11
<1>13. ASSUME NEW host \in t.info PROVE \E e \in DOMAIN link : link[e] = host
  <2>1. CASE host = h
    BY <1>10, <2>1
  <2>2. CASE host # h
    <3>1. PICK e \in DOMAIN tables[d].link : tables[d].link[e] = host
      BY <1>3, <1>6, <1>13, <2>2 DEF TableOk
    <3> QED BY <1>10, <1>12, <3>1
  <2> QED BY <2>1, <2>2
<1>14. \A e \in DOMAIN link : e \in Descriptor /\ of[e].host = link[e] /\ link[e] # D!NoHost
  <2> SUFFICES ASSUME NEW e \in DOMAIN link PROVE e \in Descriptor /\ of[e].host = link[e] /\ link[e] # D!NoHost
    OBVIOUS
  <2>1. CASE e = fd
    BY <1>7, <1>8, <1>10, <2>1
  <2>2. CASE e # fd
    BY <1>6, <1>8, <1>10, <2>2 DEF TableOk
  <2> QED BY <2>1, <2>2
<1>15. TableOk(t, of)
  BY <1>3, <1>6, <1>10, <1>13, <1>14 DEF TableOk
<1>16. \A g \in Brokers : LinkOk(g, links[g][d], of)
  BY <1>1, <1>8 DEF DirInv, LinkOk
<1>17. /\ links' \in [Brokers -> [Directories -> Descriptor \cup {D!NoFd}]]
       /\ \A g \in Brokers : LinkOk(g, links'[g][d], of)
       /\ \A g \in Brokers : \A e \in Directories \ {d} : links'[g][e] = links[g][e]
  BY <1>5, <1>16 DEF DirInv
<1> HIDE DEF Descriptor, Socket
<1> QED BY <1>5, <1>8, <1>9, <1>15, <1>17, ServerStep

LEMMA RestartDirStep ==
  ASSUME DirInv, NEW d \in Directories, D!RestartDir(d)
  PROVE  DirInv'
<1>1. PICK of : of = [fd \in Descriptor |-> D!Free]
  OBVIOUS
<1>2. /\ tables' = [tables EXCEPT ![d] = D!EmptyTables] /\ sockets' = [sockets EXCEPT ![d] = of]
      /\ links' = [h \in Brokers |-> [links[h] EXCEPT ![d] = D!NoFd]]
  BY <1>1 DEF D!RestartDir, Descriptor
<1>3. D!Free \in Socket /\ SocketOk(D!Free)
  BY DEF D!Free, Socket, SocketOk
<1>4. of \in [Descriptor -> Socket] /\ \A fd \in Descriptor : SocketOk(of[fd])
  BY <1>1, <1>3
<1>5. TableOk(D!EmptyTables, of)
  BY DEF D!EmptyTables, TableOk
<1>6. /\ links' \in [Brokers -> [Directories -> Descriptor \cup {D!NoFd}]]
      /\ \A h \in Brokers : links'[h][d] = D!NoFd
      /\ \A h \in Brokers : \A e \in Directories \ {d} : links'[h][e] = links[h][e]
  BY <1>2 DEF DirInv
<1>7. \A h \in Brokers : LinkOk(h, links'[h][d], of)
  BY <1>6 DEF LinkOk
<1> HIDE DEF Descriptor, Socket
<1> QED BY <1>2, <1>4, <1>5, <1>6, <1>7, ServerStep

LEMMA DirectoryStep ==
  ASSUME DirInv, D!NextDirectory \/ UNCHANGED dirVars
  PROVE  DirInv'
<1>1. CASE UNCHANGED <<links, sockets, tables>>
  <2> HIDE DEF Descriptor, Socket
  <2> QED BY <1>1 DEF DirInv, SocketOk, TableOk, LinkOk
<1>2. CASE \E h \in Brokers : D!StartBroker(h) \/ D!BreakClient(h) \/ D!Connected(h)
  BY <1>1, <1>2 DEF D!StartBroker, D!BreakClient, D!Connected
<1>3. CASE \E d \in Directories : D!HandleRequest(d) \/ D!LinkToDir(d) \/ D!HandleAnswer(d)
  BY <1>1, <1>3 DEF D!HandleRequest, D!LinkToDir, D!HandleAnswer
<1>4. CASE D!Connect \/ D!AskAll
  BY <1>1, <1>4 DEF D!Connect, D!AskAll
<1>5. CASE UNCHANGED dirVars
  BY <1>1, <1>5 DEF dirVars
<1>6. CASE \E h \in Brokers : D!CrashBroker(h) \/ D!SendKeepAlive(h)
  BY <1>6, CrashBrokerStep, SendKeepAliveStep
<1>7. CASE \E h \in Brokers : \E d \in Directories : D!Break(h, d) \/ D!ConnectToDir(h, d)
  BY <1>7, BreakStep, ConnectToDirStep
<1>8. CASE \E d \in Directories : \E fd \in Descriptor : D!HandleRegister(d, fd) \/ D!HandleClose(d, fd)
  BY <1>8, HandleRegisterStep, HandleCloseStep
<1>9. CASE \E d \in Directories : D!ListenClient(d) \/ D!RestartDir(d)
  BY <1>9, ListenClientStep, RestartDirStep
<1> QED
  BY <1>2, <1>3, <1>4, <1>5, <1>6, <1>7, <1>8, <1>9
     DEF D!NextDirectory, D!Broker, D!Server, D!Busd, Descriptor

LEMMA TablesAgree == DirInv => D!TablesAgree
  BY DEF DirInv, D!TablesAgree, TableOk

(***************************************************************************)
(* The client.  What keeps it on one way at a time is that the channel of  *)
(* an attempt is reset before anything else can start: in the round of the *)
(* loop in which it was removed, unless the owner has stopped the client.  *)
(***************************************************************************)

Turns == {"poll", "events", "functors"}
Events == {"channel", "timer", "connection"}
Functors == {"resetChannel", "stopInLoop"}
ConnectorType == [
    state : {"Disconnected", "Connecting", "Connected"}, enabled : BOOLEAN,
    channel : {"none", "watched", "removed"}, attempt : {"none", "pending", "accepted", "refused"},
    delay : Nat, timers : Nat, gaveUp : BOOLEAN]
OwnerCalls == {"connect", "disconnect", "stop", "destroy"}
Objects == {"connector", "connection", "client"}
ClientType == [
    retry : BOOLEAN, enabled : BOOLEAN, connection : {"none", "open", "lost"}, calls : Seq(OwnerCalls),
    gone : BOOLEAN, dangling : SUBSET Objects]
LoopType == [turn : Turns, ready : SUBSET Events, running : Seq(Functors), functors : Seq(Functors)]

In(f, s) == \E k \in 1..Len(s) : s[k] = f
Stopped(c, t) == ~ c.enabled /\ ~ t.enabled

\* The one way that connector c and client t are on.
WayOk(c, t) ==
    /\ c.channel = "watched" <=> c.state = "Connecting"
    /\ c.attempt # "none" <=> c.state = "Connecting"
    /\ c.timers # 0 => c.timers = 1 /\ c.state = "Disconnected" /\ t.connection = "none"
    /\ c.state = "Connecting" => t.connection = "none"
    /\ t.connection # "none" => c.state = "Connected"

\* What loop l has of it.
ReadyOk(l, c, t) ==
    /\ l.ready # {} => l.turn = "events"
    /\ "timer" \in l.ready => c.timers = 1
    /\ "channel" \in l.ready => c.state = "Connecting"
    /\ "connection" \in l.ready => t.connection = "lost"

ResetOk(l, c, t) ==
    /\ l.turn # "functors" => l.running = <<>>
    /\ In("stopInLoop", l.functors) \/ In("stopInLoop", l.running) => Stopped(c, t)
    /\ In("resetChannel", l.functors) => (l.turn = "events" /\ l.ready = {}) \/ Stopped(c, t)
    /\ In("resetChannel", l.functors) \/ In("resetChannel", l.running) => c.channel # "watched"
    /\ c.channel = "removed" =>
          \/ Stopped(c, t)
          \/ l.turn = "events" /\ l.ready = {} /\ In("resetChannel", l.functors)
          \/ l.turn = "functors" /\ In("resetChannel", l.running)

\* Before connect, nothing has happened.
IdleOk(l, c, t) ==
    t.calls = <<>> =>
        /\ c.state = "Disconnected" /\ c.timers = 0 /\ c.channel = "none" /\ t.connection = "none"
        /\ l.ready = {} /\ l.running = <<>> /\ l.functors = <<>>

ClientInv ==
    /\ clientLoop \in LoopType /\ connector \in ConnectorType /\ client \in ClientType
    /\ broken = FALSE
    /\ WayOk(connector, client)
    /\ ReadyOk(clientLoop, connector, client)
    /\ ResetOk(clientLoop, connector, client)
    /\ IdleOk(clientLoop, connector, client)

LEMMA InEmpty == \A f : ~ In(f, <<>>)
  BY DEF In

LEMMA InAppend ==
  ASSUME NEW s \in Seq(Functors), NEW f \in Functors
  PROVE  /\ Append(s, f) \in Seq(Functors)
         /\ \A g : In(g, Append(s, f)) <=> In(g, s) \/ g = f
<1>1. /\ Append(s, f) \in Seq(Functors) /\ Len(Append(s, f)) = Len(s) + 1 /\ Len(s) \in Nat
      /\ \A k \in 1..Len(s) : Append(s, f)[k] = s[k]
      /\ Append(s, f)[Len(s) + 1] = f
  BY AppendProperties
<1>2. ASSUME NEW g, In(g, s) PROVE In(g, Append(s, f))
  BY <1>1, <1>2 DEF In
<1>3. In(f, Append(s, f))
  BY <1>1 DEF In
<1>4. ASSUME NEW g, In(g, Append(s, f)) PROVE In(g, s) \/ g = f
  BY <1>1, <1>4 DEF In
<1> QED BY <1>1, <1>2, <1>3, <1>4

LEMMA InTail ==
  ASSUME NEW s \in Seq(Functors), s # <<>>
  PROVE  /\ Tail(s) \in Seq(Functors) /\ In(Head(s), s)
         /\ \A g : In(g, Tail(s)) => In(g, s)
         /\ \A g : In(g, s) /\ g # Head(s) => In(g, Tail(s))
<1>1. /\ Tail(s) \in Seq(Functors) /\ Len(Tail(s)) = Len(s) - 1 /\ Len(s) \in Nat \ {0}
      /\ \A k \in 1..Len(s) - 1 : Tail(s)[k] = s[k + 1]
      /\ Head(s) = s[1]
  BY HeadTailProperties
<1>2. ASSUME NEW g, In(g, Tail(s)) PROVE In(g, s)
  <2>1. PICK k \in 1..Len(s) - 1 : Tail(s)[k] = g
    BY <1>1, <1>2 DEF In
  <2>2. k + 1 \in 1..Len(s) /\ s[k + 1] = g
    BY <1>1, <2>1
  <2> QED BY <2>2 DEF In
<1>3. ASSUME NEW g, In(g, s), g # Head(s) PROVE In(g, Tail(s))
  <2>1. PICK k \in 1..Len(s) : s[k] = g
    BY <1>3 DEF In
  <2>2. k # 1 /\ k - 1 \in 1..Len(s) - 1 /\ (k - 1) + 1 = k
    BY <1>1, <1>3, <2>1
  <2>3. Tail(s)[k - 1] = g
    BY <1>1, <2>1, <2>2
  <2> QED BY <1>1, <2>2, <2>3 DEF In
<1>4. In(Head(s), s)
  BY <1>1 DEF In
<1> QED BY <1>1, <1>2, <1>3, <1>4

LEMMA ClientInit == C!InitClient => ClientInv
<1> SUFFICES ASSUME C!InitClient PROVE ClientInv
  OBVIOUS
<1>1. /\ clientLoop = [turn |-> "poll", ready |-> {}, running |-> <<>>, functors |-> <<>>]
      /\ connector = [state |-> "Disconnected", enabled |-> FALSE, channel |-> "none",
                      attempt |-> "none", delay |-> InitRetryDelay, timers |-> 0, gaveUp |-> FALSE]
      /\ \E r \in BOOLEAN :
            client = [retry |-> r, enabled |-> FALSE, connection |-> "none", calls |-> <<>>,
                      gone |-> FALSE, dangling |-> {}]
      /\ broken = FALSE
  BY DEF C!InitClient
<1>2. clientLoop \in LoopType
  BY <1>1 DEF LoopType, Turns
<1>3. connector \in ConnectorType
  BY <1>1, ServicesAssumption DEF ConnectorType
<1>4. client \in ClientType
  BY <1>1 DEF ClientType
<1> QED BY <1>1, <1>2, <1>3, <1>4, InEmpty DEF ClientInv, WayOk, ReadyOk, ResetOk, IdleOk, Stopped

LEMMA RetryFits ==
  ASSUME NEW c \in ConnectorType
  PROVE  /\ C!Retry(c) \in ConnectorType
         /\ C!Retry(c).state = "Disconnected" /\ C!Retry(c).attempt = "none"
         /\ C!Retry(c).channel = c.channel /\ C!Retry(c).enabled = c.enabled
         /\ C!Retry(c).timers = IF c.enabled THEN c.timers + 1 ELSE c.timers
<1>1. PICK idle : idle = [c EXCEPT !.attempt = "none", !.state = "Disconnected"]
  OBVIOUS
<1>2. /\ idle \in ConnectorType /\ idle.state = "Disconnected" /\ idle.attempt = "none"
      /\ idle.channel = c.channel /\ idle.enabled = c.enabled
      /\ idle.timers = c.timers /\ idle.delay = c.delay /\ c.timers \in Nat
  BY <1>1 DEF ConnectorType
<1>3. CASE ~ c.enabled
  BY <1>1, <1>2, <1>3 DEF C!Retry
<1>4. CASE c.enabled
  <2>1. PICK delay : delay = IF 2 * idle.delay < MaxRetryDelay THEN 2 * idle.delay ELSE MaxRetryDelay
    OBVIOUS
  <2>2. delay \in Nat
    <3>1. MaxRetryDelay \in Nat
      BY ServicesAssumption
    <3>2. idle.delay \in Nat
      BY <1>2 DEF ConnectorType
    <3>3. 2 * idle.delay \in Nat
      BY <3>2
    <3> QED BY <2>1, <3>1, <3>3
  <2>3. PICK timer : timer = idle.timers + 1
    OBVIOUS
  <2>3a. PICK next : next = [idle EXCEPT !.timers = timer, !.delay = delay]
    OBVIOUS
  <2>4. C!Retry(c) = next
    BY <1>1, <1>4, <2>1, <2>3, <2>3a DEF C!Retry
  <2>4a. timer \in Nat /\ timer = c.timers + 1
    BY <1>2, <2>3
  <2>5. /\ next \in ConnectorType /\ next.timers = timer
        /\ next.state = idle.state /\ next.attempt = idle.attempt
        /\ next.channel = idle.channel /\ next.enabled = idle.enabled
    BY <1>2, <2>2, <2>3a, <2>4a DEF ConnectorType
  <2> QED BY <1>2, <1>4, <2>4, <2>4a, <2>5
<1> QED BY <1>3, <1>4

\* An attempt that starts with connector c finds no other way.
LEMMA StartFits ==
  ASSUME NEW c \in ConnectorType, NEW t, WayOk(c, t), t.connection = "none",
         c.state = "Disconnected", c.timers = 0, c.enabled => c.channel = "none",
         NEW c2 \in C!StartOf(c)
  PROVE  /\ c2 \in ConnectorType /\ WayOk(c2, t) /\ c2.enabled = c.enabled
         /\ c2.channel = "watched" => c.enabled
         /\ c2.channel # "watched" => c2.channel = c.channel
         /\ ~ C!StartBreaks(c, c2)
<1>1. CASE ~ c.enabled
  BY <1>1 DEF C!StartOf, C!StartBreaks, ConnectorType, WayOk
<1>2. CASE c.enabled
  <2>1. \/ c2 = C!Connecting(c)
        \/ c2 = [c EXCEPT !.attempt = "none", !.gaveUp = TRUE]
        \/ c2 = C!Retry(c)
    BY <1>2 DEF C!StartOf, C!ConnectOf
  <2>2. CASE c2 = C!Connecting(c)
    BY <1>2, <2>2 DEF C!Connecting, C!StartBreaks, ConnectorType, WayOk
  <2>3. CASE c2 = [c EXCEPT !.attempt = "none", !.gaveUp = TRUE]
    BY <1>2, <2>3 DEF C!StartBreaks, ConnectorType, WayOk
  <2>4. CASE c2 = C!Retry(c)
    <3>1. /\ c2 \in ConnectorType /\ c2.state = "Disconnected" /\ c2.attempt = "none"
          /\ c2.channel = "none" /\ c2.enabled = c.enabled
          /\ c2.timers = c.timers + 1
      BY <1>2, <2>4, RetryFits
    <3>2. c2.timers = 1
      BY <3>1
    <3> QED BY <1>2, <3>1, <3>2 DEF C!StartBreaks, WayOk
  <2> QED BY <2>1, <2>2, <2>3, <2>4
<1> QED BY <1>1, <1>2 DEF ConnectorType

\* A connector that is freed is on no way.
LEMMA FreedFits ==
  ASSUME NEW c \in ConnectorType, NEW t, WayOk(c, t)
  PROVE  /\ C!Freed(c) \in ConnectorType /\ WayOk(C!Freed(c), t)
         /\ C!Freed(c).channel = "none" /\ C!Freed(c).enabled = c.enabled
         /\ C!Freed(c).timers = c.timers
<1>1. PICK state : state = IF c.state = "Connecting" THEN "Disconnected" ELSE c.state
  OBVIOUS
<1>2. C!Freed(c) = [c EXCEPT !.channel = "none", !.attempt = "none", !.state = state]
  BY <1>1 DEF C!Freed
<1>3. /\ C!Freed(c) \in ConnectorType /\ C!Freed(c).state = state /\ state # "Connecting"
      /\ C!Freed(c).channel = "none" /\ C!Freed(c).attempt = "none"
      /\ C!Freed(c).enabled = c.enabled /\ C!Freed(c).timers = c.timers
      /\ c.state \in {"Disconnected", "Connected"} => state = c.state
  BY <1>1, <1>2 DEF ConnectorType
<1>4. WayOk(C!Freed(c), t)
  BY <1>3 DEF WayOk, ConnectorType
<1> QED BY <1>3, <1>4

LEMMA ConnectStep ==
  ASSUME ClientInv, C!Connect
  PROVE  ClientInv'
<1>1. PICK c : c = [connector EXCEPT !.enabled = TRUE]
  OBVIOUS
<1>2. PICK c2 \in C!StartOf(c) : connector' = c2 /\ broken' = (broken \/ C!StartBreaks(c, c2))
  BY <1>1 DEF C!Connect, C!Start
<1>3. /\ client' = [client EXCEPT !.enabled = TRUE, !.calls = <<"connect">>]
      /\ client.calls = <<>> /\ UNCHANGED clientLoop
  BY DEF C!Connect
<1>4. /\ c \in ConnectorType /\ c.state = "Disconnected" /\ c.timers = 0 /\ c.channel = "none"
      /\ WayOk(c, client)
  BY <1>1, <1>3 DEF ClientInv, ConnectorType, IdleOk, WayOk
<1>5. client' \in ClientType /\ client'.connection = "none" /\ client'.calls # <<>>
  <2>1. PICK calls : calls = <<"connect">>
    OBVIOUS
  <2>2. calls \in Seq(OwnerCalls) /\ calls # <<>>
    BY <2>1 DEF OwnerCalls
  <2>3. client \in ClientType /\ client' = [client EXCEPT !.enabled = TRUE, !.calls = calls]
    BY <1>3, <2>1 DEF ClientInv
  <2>4. client' \in ClientType /\ client'.connection = client.connection /\ client'.calls = calls
    BY <2>2, <2>3 DEF ClientType
  <2> QED BY <1>3, <2>2, <2>4 DEF ClientInv, IdleOk
<1>6. client.connection = "none"
  BY <1>3 DEF ClientInv, IdleOk
<1>7. /\ c2 \in ConnectorType /\ WayOk(c2, client)
      /\ c2.channel # "watched" => c2.channel = "none"
      /\ ~ C!StartBreaks(c, c2)
  BY <1>4, <1>6, StartFits
<1>8. WayOk(c2, client')
  BY <1>5, <1>6, <1>7 DEF WayOk
<1>9. /\ clientLoop.ready = {} /\ clientLoop.running = <<>> /\ clientLoop.functors = <<>>
  BY <1>3 DEF ClientInv, IdleOk
<1>10. ReadyOk(clientLoop', c2, client')
  BY <1>3, <1>9 DEF ReadyOk
<1>11. ResetOk(clientLoop', c2, client')
  BY <1>3, <1>7, <1>9, InEmpty DEF ResetOk, ConnectorType
<1> QED BY <1>2, <1>3, <1>5, <1>7, <1>8, <1>10, <1>11 DEF ClientInv, IdleOk

LEMMA OwnerStops ==
  ASSUME ClientInv, C!Disconnect \/ C!Stop
  PROVE  ClientInv'
<1>2. client \in ClientType /\ client.calls \in Seq(OwnerCalls)
  BY DEF ClientInv, ClientType
<1>4. CASE C!Disconnect
  <2>1. PICK connection : connection = IF client.connection = "open" THEN "lost" ELSE client.connection
    OBVIOUS
  <2>2. /\ client' = [client EXCEPT !.enabled = FALSE, !.calls = client'.calls, !.connection = connection]
        /\ client'.calls \in Seq(OwnerCalls) /\ client'.calls # <<>>
        /\ UNCHANGED <<clientLoop, connector, broken>>
    <3>1. PICK more : more = Append(client.calls, "disconnect")
      OBVIOUS
    <3>2. more \in Seq(OwnerCalls) /\ more # <<>>
      BY <1>2, <3>1, AppendProperties DEF OwnerCalls
    <3>3. client' = [client EXCEPT !.enabled = FALSE, !.calls = more, !.connection = connection]
      BY <1>4, <2>1, <3>1 DEF C!Disconnect
    <3>4. client'.calls = more
      BY <1>2, <3>3 DEF ClientType
    <3> QED BY <1>4, <3>2, <3>3, <3>4 DEF C!Disconnect
  <2>3. /\ client' \in ClientType /\ client'.enabled = FALSE /\ client'.connection = connection
        /\ connection # "none" <=> client.connection # "none"
        /\ client.connection = "lost" => connection = "lost"
    BY <1>2, <2>1, <2>2 DEF ClientType
  <2>4. WayOk(connector, client') /\ ReadyOk(clientLoop, connector, client')
    BY <2>3 DEF ClientInv, WayOk, ReadyOk
  <2>5. ResetOk(clientLoop, connector, client')
    BY <2>3 DEF ClientInv, ResetOk, Stopped
  <2> QED BY <2>2, <2>3, <2>4, <2>5 DEF ClientInv, IdleOk
<1>5. CASE C!Stop
  <2>1. /\ client' = [client EXCEPT !.enabled = FALSE, !.calls = client'.calls]
        /\ client'.calls \in Seq(OwnerCalls) /\ client'.calls # <<>>
    <3>1. PICK more : more = Append(client.calls, "stop")
      OBVIOUS
    <3>2. more \in Seq(OwnerCalls) /\ more # <<>>
      BY <1>2, <3>1, AppendProperties DEF OwnerCalls
    <3>3. client' = [client EXCEPT !.enabled = FALSE, !.calls = more]
      BY <1>5, <3>1 DEF C!Stop
    <3>4. client'.calls = more
      BY <1>2, <3>3 DEF ClientType
    <3> QED BY <3>2, <3>3, <3>4
  <2>2. client' \in ClientType /\ client'.enabled = FALSE /\ client'.connection = client.connection
    BY <1>2, <2>1 DEF ClientType
  <2>3. /\ connector' \in ConnectorType /\ connector'.enabled = FALSE
        /\ connector'.state = connector.state /\ connector'.channel = connector.channel
        /\ connector'.timers = connector.timers /\ connector'.attempt = connector.attempt
    BY <1>5 DEF C!Stop, ClientInv, ConnectorType
  <2>4. PICK functors : functors = Append(clientLoop.functors, "stopInLoop")
    OBVIOUS
  <2>5. /\ functors \in Seq(Functors)
        /\ \A g : In(g, functors) <=> In(g, clientLoop.functors) \/ g = "stopInLoop"
    BY <2>4, InAppend DEF ClientInv, LoopType, Functors
  <2>6. clientLoop' = [clientLoop EXCEPT !.functors = functors]
    BY <1>5, <2>4 DEF C!Stop, C!Queue
  <2>7. /\ clientLoop' \in LoopType /\ clientLoop'.functors = functors
        /\ clientLoop'.turn = clientLoop.turn /\ clientLoop'.ready = clientLoop.ready
        /\ clientLoop'.running = clientLoop.running
    BY <2>5, <2>6 DEF ClientInv, LoopType
  <2>8. WayOk(connector', client') /\ ReadyOk(clientLoop', connector', client')
    BY <2>2, <2>3, <2>7 DEF ClientInv, WayOk, ReadyOk
  <2>9. ResetOk(clientLoop', connector', client')
    BY <2>2, <2>3, <2>5, <2>7 DEF ClientInv, ResetOk, Stopped
  <2>10. UNCHANGED broken
    BY <1>5 DEF C!Stop
  <2> QED BY <2>1, <2>2, <2>3, <2>7, <2>8, <2>9, <2>10 DEF ClientInv, IdleOk
<1> QED BY <1>4, <1>5

\* Nothing that is freed is still called, or the behaviour ends.
LEMMA DestroyStep ==
  ASSUME ClientInv, C!Destroy
  PROVE  ClientInv'
<1>1. PICK kept \in BOOLEAN :
         /\ client' = [client EXCEPT !.gone = TRUE, !.calls = Append(client.calls, "destroy"),
                                     !.dangling = C!Uses(kept),
                                     !.connection = IF kept \/ C!Uses(kept) # {} THEN client.connection ELSE "none"]
         /\ connector' = IF connector.timers > 0 \/ C!Uses(kept) # {} THEN connector ELSE C!Freed(connector)
  BY DEF C!Destroy
<1>2. /\ UNCHANGED <<clientLoop, broken>> /\ client.calls # <<>>
      /\ client \in ClientType /\ connector \in ConnectorType
  BY DEF C!Destroy, ClientInv
<1>3. PICK uses, calls, connection :
         /\ uses = C!Uses(kept) /\ calls = Append(client.calls, "destroy")
         /\ connection = IF kept \/ uses # {} THEN client.connection ELSE "none"
  OBVIOUS
<1>4. calls \in Seq(OwnerCalls) /\ calls # <<>>
  <2>1. client.calls \in Seq(OwnerCalls) /\ "destroy" \in OwnerCalls
    BY <1>2 DEF ClientType, OwnerCalls
  <2>2. calls \in Seq(OwnerCalls) /\ Len(calls) = Len(client.calls) + 1 /\ Len(client.calls) \in Nat
    BY <1>3, <2>1, AppendProperties
  <2> QED BY <2>2
<1>5. uses \in SUBSET Objects
  BY <1>3 DEF C!Uses, Objects
<1>6. client' = [client EXCEPT !.gone = TRUE, !.calls = calls, !.dangling = uses, !.connection = connection]
  BY <1>1, <1>3
<1>7. /\ client' \in ClientType /\ client'.calls # <<>> /\ client'.enabled = client.enabled
      /\ client'.connection = connection /\ connection \in {client.connection, "none"}
  BY <1>2, <1>3, <1>4, <1>5, <1>6 DEF ClientType
<1>8. CASE uses # {}
  <2>1. connector' = connector /\ client'.connection = client.connection
    BY <1>1, <1>3, <1>7, <1>8
  <2> QED BY <1>2, <1>7, <2>1 DEF ClientInv, WayOk, ReadyOk, ResetOk, IdleOk, Stopped
<1>9. CASE uses = {} /\ connector.timers > 0
  <2>1. connector' = connector
    BY <1>1, <1>9
  <2>2. client.connection = "none"
    BY <1>2, <1>9 DEF ClientInv, WayOk, ConnectorType
  <2>3. client'.connection = client.connection
    BY <1>7, <2>2
  <2> QED BY <1>2, <1>7, <2>1, <2>3 DEF ClientInv, WayOk, ReadyOk, ResetOk, IdleOk, Stopped
<1>10. CASE uses = {} /\ ~ connector.timers > 0
  <2>1. connector' = C!Freed(connector) /\ connector.timers = 0
    BY <1>1, <1>2, <1>3, <1>10 DEF ConnectorType
  <2>2. ~ C!CallsConnector /\ (kept \/ "connection" \notin clientLoop.ready)
    BY <1>3, <1>10, <2>1 DEF C!Uses
  <2>3. "channel" \notin clientLoop.ready /\ clientLoop.running = <<>> /\ clientLoop.functors = <<>>
    BY <2>2 DEF C!CallsConnector
  <2>4. WayOk(connector, client')
    BY <1>7 DEF ClientInv, WayOk
  <2>5. /\ connector' \in ConnectorType /\ WayOk(connector', client') /\ connector'.channel = "none"
        /\ connector'.timers = connector.timers
    BY <1>2, <2>1, <2>4, FreedFits
  <2>6. ReadyOk(clientLoop', connector', client')
    BY <1>2, <1>3, <1>7, <2>2, <2>3, <2>5 DEF ClientInv, ReadyOk
  <2>7. ResetOk(clientLoop', connector', client')
    BY <1>2, <2>3, <2>5, InEmpty DEF ResetOk
  <2> QED BY <1>2, <1>7, <2>5, <2>6, <2>7 DEF ClientInv, IdleOk
<1> QED BY <1>8, <1>9, <1>10

LEMMA LoopTurns ==
  ASSUME ClientInv, C!Poll \/ C!EndEvents \/ C!EndFunctors
  PROVE  ClientInv'
<1>1. UNCHANGED <<connector, client, broken>>
  BY DEF C!Poll, C!EndEvents, C!EndFunctors
<1>2. clientLoop \in LoopType
  BY DEF ClientInv
<1>3. CASE C!Poll
  <2>1. PICK ready : ready = C!Possible
    OBVIOUS
  <2>2. /\ ready \in SUBSET Events
        /\ "channel" \in ready => connector.channel = "watched"
        /\ "timer" \in ready => connector.timers > 0
        /\ "connection" \in ready => client.connection = "lost"
    BY <2>1 DEF C!Possible, Events
  <2>3. "timer" \in ready => connector.timers = 1
    <3>1. connector.timers \in Nat /\ (connector.timers # 0 => connector.timers = 1)
      BY DEF ClientInv, ConnectorType, WayOk
    <3> QED BY <2>2, <3>1
  <2>4. /\ clientLoop' = [clientLoop EXCEPT !.turn = "events", !.ready = ready]
        /\ clientLoop.turn = "poll" /\ (ready # {} \/ clientLoop.functors # <<>>)
    BY <1>3, <2>1 DEF C!Poll
  <2>5. /\ clientLoop' \in LoopType /\ clientLoop'.turn = "events" /\ clientLoop'.ready = ready
        /\ clientLoop'.running = clientLoop.running /\ clientLoop'.functors = clientLoop.functors
    BY <1>2, <2>2, <2>4 DEF LoopType, Turns
  <2>6. ReadyOk(clientLoop', connector, client)
    BY <2>2, <2>3, <2>5 DEF ClientInv, ReadyOk, WayOk
  <2>7. ResetOk(clientLoop', connector, client)
    BY <2>4, <2>5 DEF ClientInv, ResetOk
  <2>8. IdleOk(clientLoop', connector, client)
    BY <2>2, <2>3, <2>4, <2>5 DEF ClientInv, IdleOk, Events
  <2> QED BY <1>1, <2>5, <2>6, <2>7, <2>8 DEF ClientInv
<1>4. CASE C!EndEvents
  <2>1. /\ clientLoop' = [clientLoop EXCEPT !.turn = "functors", !.running = clientLoop.functors, !.functors = <<>>]
        /\ clientLoop.turn = "events" /\ clientLoop.ready = {}
    BY <1>4 DEF C!EndEvents
  <2>1a. PICK none : none = <<>>
    OBVIOUS
  <2>1b. none \in Seq(Functors) /\ clientLoop.functors \in Seq(Functors)
    BY <1>2, <2>1a DEF LoopType
  <2>1c. clientLoop' = [clientLoop EXCEPT !.turn = "functors", !.running = clientLoop.functors, !.functors = none]
    BY <2>1, <2>1a
  <2>2. /\ clientLoop' \in LoopType /\ clientLoop'.turn = "functors" /\ clientLoop'.ready = {}
        /\ clientLoop'.running = clientLoop.functors /\ clientLoop'.functors = none
    BY <1>2, <2>1, <2>1b, <2>1c DEF LoopType, Turns
  <2>3. ReadyOk(clientLoop', connector, client)
    BY <2>2 DEF ReadyOk
  <2>4. ResetOk(clientLoop', connector, client)
    BY <2>1, <2>1a, <2>2, InEmpty DEF ClientInv, ResetOk
  <2>5. IdleOk(clientLoop', connector, client)
    BY <2>1, <2>1a, <2>2 DEF ClientInv, IdleOk
  <2> QED BY <1>1, <2>2, <2>3, <2>4, <2>5 DEF ClientInv
<1>5. CASE C!EndFunctors
  <2>1. /\ clientLoop' = [clientLoop EXCEPT !.turn = "poll"]
        /\ clientLoop.turn = "functors" /\ clientLoop.running = <<>>
    BY <1>5 DEF C!EndFunctors
  <2>2. /\ clientLoop' \in LoopType /\ clientLoop'.turn = "poll" /\ clientLoop'.ready = clientLoop.ready
        /\ clientLoop'.running = <<>> /\ clientLoop'.functors = clientLoop.functors
    BY <1>2, <2>1 DEF LoopType, Turns
  <2>3. ReadyOk(clientLoop', connector, client)
    BY <2>1, <2>2 DEF ClientInv, ReadyOk
  <2>4. ResetOk(clientLoop', connector, client)
    BY <2>1, <2>2, InEmpty DEF ClientInv, ResetOk
  <2>5. IdleOk(clientLoop', connector, client)
    BY <2>1, <2>2 DEF ClientInv, IdleOk
  <2> QED BY <1>1, <2>2, <2>3, <2>4, <2>5 DEF ClientInv
<1> QED BY <1>3, <1>4, <1>5

\* The channel leaves, and its reset waits for the functors of this round.
LEMMA HandleChannelStep ==
  ASSUME ClientInv, C!HandleChannel
  PROVE  ClientInv'
<1>1. PICK gone : gone = C!Removed(connector)
  OBVIOUS
<1>2. /\ gone \in ConnectorType /\ gone.channel = "removed" /\ gone.enabled = connector.enabled
      /\ gone.timers = connector.timers
  BY <1>1 DEF C!Removed, ClientInv, ConnectorType
<1>3. /\ connector.state = "Connecting" /\ "channel" \in clientLoop.ready
      /\ clientLoop.turn = "events" /\ clientLoop.ready = {"channel"}
      /\ connector.timers = 0 /\ client.connection = "none" /\ client.calls # <<>>
  <2>1. connector.state = "Connecting" /\ "channel" \in clientLoop.ready
    BY DEF C!HandleChannel
  <2>2. clientLoop.ready \subseteq Events /\ connector.timers \in Nat
    BY DEF ClientInv, LoopType, ConnectorType
  <2>3. connector.timers = 0 /\ client.connection = "none"
    BY <2>1, <2>2 DEF ClientInv, WayOk
  <2>4. "timer" \notin clientLoop.ready /\ "connection" \notin clientLoop.ready /\ clientLoop.turn = "events"
    BY <2>1, <2>3 DEF ClientInv, ReadyOk
  <2>5. clientLoop.ready = {"channel"}
    BY <2>1, <2>2, <2>4 DEF Events
  <2>6. client.calls # <<>>
    BY <2>1 DEF ClientInv, IdleOk
  <2> QED BY <2>1, <2>3, <2>4, <2>5, <2>6
<1>4. PICK functors : functors = Append(clientLoop.functors, "resetChannel")
  OBVIOUS
<1>5. /\ functors \in Seq(Functors)
      /\ \A g : In(g, functors) <=> In(g, clientLoop.functors) \/ g = "resetChannel"
  BY <1>4, InAppend DEF ClientInv, LoopType, Functors
<1>6. clientLoop' = [clientLoop EXCEPT !.functors = functors, !.ready = {}]
  <2>1. clientLoop' = [clientLoop EXCEPT !.functors = functors, !.ready = clientLoop.ready \ {"channel"}]
    BY <1>4 DEF C!HandleChannel, C!TakeAndQueue, C!Queue, ClientInv, LoopType
  <2> QED BY <1>3, <2>1
<1>7. /\ clientLoop' \in LoopType /\ clientLoop'.functors = functors
      /\ clientLoop'.turn = "events" /\ clientLoop'.ready = {} /\ clientLoop'.running = clientLoop.running
  BY <1>3, <1>5, <1>6 DEF ClientInv, LoopType
<1>8. UNCHANGED broken
  BY DEF C!HandleChannel
<1>9. /\ connector' \in ConnectorType /\ client' \in ClientType
      /\ connector'.channel = "removed" /\ connector'.enabled = connector.enabled
      /\ client'.enabled = client.enabled /\ client'.calls = client.calls
      /\ WayOk(connector', client')
  <2>1. CASE C!Accepted
    <3>1. /\ connector' = [gone EXCEPT !.state = "Connected", !.attempt = "none"]
          /\ client' = IF connector.enabled
                       THEN [client EXCEPT !.connection = IF peer.up THEN "open" ELSE "lost"]
                       ELSE client
      BY <1>1, <2>1 DEF C!Accepted
    <3>2. /\ connector' \in ConnectorType /\ connector'.channel = "removed"
          /\ connector'.enabled = connector.enabled /\ connector'.timers = 0
          /\ connector'.state = "Connected" /\ connector'.attempt = "none"
      BY <1>2, <1>3, <3>1 DEF ConnectorType
    <3>3. client' \in ClientType /\ client'.enabled = client.enabled /\ client'.calls = client.calls
      BY <3>1 DEF ClientInv, ClientType
    <3> QED BY <3>2, <3>3 DEF WayOk
  <2>2. CASE C!Refused
    <3>1. connector' = C!Retry(gone) /\ client' = client
      BY <1>1, <2>2 DEF C!Refused
    <3>2. /\ connector' \in ConnectorType
          /\ connector'.state = "Disconnected" /\ connector'.attempt = "none"
          /\ connector'.channel = "removed" /\ connector'.enabled = connector.enabled
          /\ connector'.timers = IF gone.enabled THEN gone.timers + 1 ELSE gone.timers
      BY <1>2, <3>1, RetryFits
    <3>3. connector'.timers \in {0, 1}
      BY <1>2, <1>3, <3>2
    <3> QED BY <1>3, <3>1, <3>2, <3>3 DEF ClientInv, WayOk
  <2> QED BY <2>1, <2>2 DEF C!HandleChannel
<1>10. ReadyOk(clientLoop', connector', client')
  BY <1>7 DEF ReadyOk
<1>11. ResetOk(clientLoop', connector', client')
  BY <1>3, <1>5, <1>7, <1>9 DEF ClientInv, ResetOk, Stopped
<1> QED BY <1>3, <1>7, <1>8, <1>9, <1>10, <1>11 DEF ClientInv, IdleOk

\* What a start in the middle of a batch leaves.
LEMMA StartInBatch ==
  ASSUME ClientInv, NEW c \in ConnectorType, NEW t \in ClientType, WayOk(c, t), t.connection = "none",
         c.state = "Disconnected", c.timers = 0, c.channel = connector.channel,
         clientLoop.ready # {}, NEW event, clientLoop' = [clientLoop EXCEPT !.ready = @ \ {event}],
         clientLoop'.ready = {},
         c.enabled => ~ Stopped(connector, client), Stopped(connector, client) => Stopped(c, t),
         C!Start(c), client' = t, t.calls # <<>>
  PROVE  ClientInv'
<1>1. PICK c2 \in C!StartOf(c) : connector' = c2 /\ broken' = (broken \/ C!StartBreaks(c, c2))
  BY DEF C!Start
<1>2. clientLoop.turn = "events" /\ clientLoop.running = <<>>
  BY DEF ClientInv, ReadyOk, ResetOk
<1>3. /\ clientLoop' \in LoopType /\ clientLoop'.turn = "events"
      /\ clientLoop'.running = <<>> /\ clientLoop'.functors = clientLoop.functors
  BY <1>2 DEF ClientInv, LoopType
<1>4. ~ Stopped(connector, client) => connector.channel # "removed" /\ ~ In("resetChannel", clientLoop.functors)
  BY <1>2, InEmpty DEF ClientInv, ResetOk
<1>5. c.enabled => c.channel = "none"
  BY <1>4 DEF WayOk, ConnectorType
<1>6. /\ c2 \in ConnectorType /\ WayOk(c2, t) /\ c2.enabled = c.enabled
      /\ c2.channel = "watched" => c.enabled
      /\ c2.channel # "watched" => c2.channel = c.channel
      /\ ~ C!StartBreaks(c, c2)
  BY <1>5, StartFits
<1>7. In("stopInLoop", clientLoop.functors) => Stopped(c2, t)
  BY <1>6 DEF ClientInv, ResetOk, Stopped
<1>8. In("resetChannel", clientLoop.functors) => Stopped(c2, t) /\ c2.channel # "watched"
  BY <1>4, <1>6 DEF Stopped
<1>9. c2.channel = "removed" => Stopped(c2, t)
  BY <1>4, <1>6 DEF Stopped
<1>10. ResetOk(clientLoop', c2, t)
  BY <1>3, <1>7, <1>8, <1>9, InEmpty DEF ResetOk
<1>11. ReadyOk(clientLoop', c2, t)
  BY <1>3 DEF ReadyOk
<1>12. broken' = FALSE
  BY <1>1, <1>6 DEF ClientInv
<1> QED BY <1>1, <1>3, <1>6, <1>10, <1>11, <1>12 DEF ClientInv, IdleOk

LEMMA HandleTimerStep ==
  ASSUME ClientInv, C!HandleTimer
  PROVE  ClientInv'
<1>1. PICK c : c = [connector EXCEPT !.timers = connector.timers - 1]
  OBVIOUS
<1>2. /\ "timer" \in clientLoop.ready /\ C!Start(c) /\ client' = client
      /\ clientLoop' = [clientLoop EXCEPT !.ready = @ \ {"timer"}]
  BY <1>1 DEF C!HandleTimer, C!Take
<1>3. /\ connector.timers = 1 /\ connector.state = "Disconnected" /\ client.connection = "none"
      /\ client.calls # <<>>
  BY <1>2 DEF ClientInv, ReadyOk, WayOk, IdleOk
<1>4. c = [connector EXCEPT !.timers = 0]
  BY <1>1, <1>3
<1>5. /\ c \in ConnectorType /\ c.timers = 0 /\ c.state = "Disconnected"
      /\ c.channel = connector.channel /\ c.enabled = connector.enabled /\ c.attempt = connector.attempt
  BY <1>3, <1>4 DEF ClientInv, ConnectorType
<1>6. WayOk(c, client)
  BY <1>3, <1>5 DEF ClientInv, WayOk
<1>7. clientLoop.ready = {"timer"}
  BY <1>2, <1>3 DEF ClientInv, ReadyOk, LoopType, Events
<1>8. clientLoop'.ready = {}
  BY <1>2, <1>7 DEF ClientInv, LoopType
<1>9. client \in ClientType /\ (Stopped(connector, client) <=> Stopped(c, client))
      /\ (c.enabled => ~ Stopped(connector, client))
  BY <1>5 DEF ClientInv, Stopped
<1> QED BY <1>2, <1>3, <1>5, <1>6, <1>7, <1>8, <1>9, StartInBatch

\* The timer of a client that is gone: nothing is left but another timer.
LEMMA OrphanTimerStep ==
  ASSUME ClientInv, C!OrphanTimer
  PROVE  ClientInv'
<1>1. PICK c : c = [connector EXCEPT !.timers = connector.timers - 1]
  OBVIOUS
<1>2. PICK c2 \in C!StartOf(c) :
         /\ broken' = (broken \/ C!StartBreaks(c, c2))
         /\ IF c2.timers > 0
            THEN connector' = c2 /\ client' = client
            ELSE /\ connector' = C!Freed(c2)
                 /\ client' = [client EXCEPT !.dangling = client'.dangling]
                 /\ client'.dangling \in SUBSET Objects
  <2>1. PICK c2 \in C!StartOf(c) :
           /\ broken' = (broken \/ C!StartBreaks(c, c2))
           /\ IF c2.timers > 0
              THEN connector' = c2 /\ client' = client
              ELSE /\ connector' = C!Freed(c2)
                   /\ client' = [client EXCEPT !.dangling = IF clientLoop.functors = <<>> THEN {} ELSE {"connector"}]
    BY <1>1 DEF C!OrphanTimer
  <2>2. PICK dangling : dangling = IF clientLoop.functors = <<>> THEN {} ELSE {"connector"}
    OBVIOUS
  <2>3. dangling \in SUBSET Objects
    BY <2>2 DEF Objects
  <2>4. client \in ClientType
    BY DEF ClientInv
  <2>5. client' = [client EXCEPT !.dangling = dangling] => client'.dangling = dangling
    BY <2>4 DEF ClientType
  <2> QED BY <2>1, <2>2, <2>3, <2>5
<1>3. /\ "timer" \in clientLoop.ready
      /\ clientLoop' = [clientLoop EXCEPT !.ready = @ \ {"timer"}]
  BY DEF C!OrphanTimer, C!Take
<1>4. /\ connector.timers = 1 /\ connector.state = "Disconnected" /\ client.connection = "none"
      /\ client.calls # <<>> /\ client \in ClientType
  BY <1>3 DEF ClientInv, ReadyOk, WayOk, IdleOk
<1>5. c = [connector EXCEPT !.timers = 0]
  BY <1>1, <1>4
<1>6. /\ c \in ConnectorType /\ c.timers = 0 /\ c.state = "Disconnected"
      /\ c.channel = connector.channel /\ c.enabled = connector.enabled /\ c.attempt = connector.attempt
  BY <1>4, <1>5 DEF ClientInv, ConnectorType
<1>7. WayOk(c, client)
  BY <1>4, <1>6 DEF ClientInv, WayOk
<1>8. clientLoop.ready = {"timer"} /\ clientLoop'.ready = {}
  BY <1>3, <1>4 DEF ClientInv, ReadyOk, LoopType, Events
<1>9. (Stopped(connector, client) <=> Stopped(c, client)) /\ (c.enabled => ~ Stopped(connector, client))
  BY <1>6 DEF Stopped
<1>10. CASE c2.timers > 0
  <2>1. C!Start(c) /\ client' = client
    BY <1>2, <1>10 DEF C!Start
  <2> QED BY <1>3, <1>4, <1>6, <1>7, <1>8, <1>9, <2>1, StartInBatch
<1>11. CASE ~ c2.timers > 0
  <2>1. /\ client' \in ClientType /\ client'.connection = "none" /\ client'.calls # <<>>
        /\ client'.enabled = client.enabled
    BY <1>2, <1>4, <1>11 DEF ClientType
  <2>2. clientLoop.turn = "events" /\ clientLoop.running = <<>>
    BY <1>8 DEF ClientInv, ReadyOk, ResetOk
  <2>3. /\ clientLoop' \in LoopType /\ clientLoop'.turn = "events"
        /\ clientLoop'.running = <<>> /\ clientLoop'.functors = clientLoop.functors
    BY <1>3, <2>2 DEF ClientInv, LoopType
  <2>4. c.enabled => c.channel = "none"
    <3>1. c.enabled => connector.channel # "removed"
      BY <1>8, <1>9, <2>2, InEmpty DEF ClientInv, ResetOk
    <3> QED BY <1>6, <1>7, <3>1 DEF WayOk, ConnectorType
  <2>5. /\ c2 \in ConnectorType /\ WayOk(c2, client) /\ c2.enabled = c.enabled
        /\ ~ C!StartBreaks(c, c2)
    BY <1>4, <1>6, <1>7, <2>4, StartFits
  <2>6. WayOk(c2, client')
    BY <1>4, <2>1, <2>5 DEF WayOk
  <2>7. /\ connector' \in ConnectorType /\ WayOk(connector', client')
        /\ connector'.channel = "none" /\ connector'.enabled = connector.enabled
    BY <1>2, <1>6, <1>11, <2>5, <2>6, FreedFits
  <2>8. ReadyOk(clientLoop', connector', client')
    BY <1>8, <2>3 DEF ReadyOk
  <2>9. Stopped(connector', client') <=> Stopped(connector, client)
    BY <2>1, <2>7 DEF Stopped
  <2>10. In("resetChannel", clientLoop.functors) => Stopped(connector, client)
    BY <1>8 DEF ClientInv, ResetOk
  <2>11. ResetOk(clientLoop', connector', client')
    BY <2>3, <2>7, <2>9, <2>10, InEmpty DEF ClientInv, ResetOk
  <2>12. broken' = FALSE
    BY <1>2, <2>5 DEF ClientInv
  <2> QED BY <2>1, <2>3, <2>7, <2>8, <2>11, <2>12 DEF ClientInv, IdleOk
<1> QED BY <1>10, <1>11

LEMMA RemoveConnectionStep ==
  ASSUME ClientInv, C!RemoveConnection
  PROVE  ClientInv'
<1>1. PICK t : t = [client EXCEPT !.connection = "none"]
  OBVIOUS
<1>2. /\ "connection" \in clientLoop.ready /\ client' = t
      /\ clientLoop' = [clientLoop EXCEPT !.ready = @ \ {"connection"}]
  BY <1>1 DEF C!RemoveConnection, C!Take
<1>3. /\ client.connection = "lost" /\ connector.state = "Connected" /\ client.calls # <<>>
      /\ connector.timers = 0 /\ connector.channel # "watched" /\ connector.attempt = "none"
  <2>1. client.connection = "lost"
    BY <1>2 DEF ClientInv, ReadyOk
  <2> QED BY <2>1 DEF ClientInv, WayOk, IdleOk
<1>4. clientLoop.ready = {"connection"}
  BY <1>2, <1>3 DEF ClientInv, ReadyOk, LoopType, Events
<1>5. clientLoop'.ready = {}
  BY <1>2, <1>4 DEF ClientInv, LoopType
<1>6. /\ t \in ClientType /\ t.connection = "none" /\ t.enabled = client.enabled
      /\ t.calls = client.calls
  BY <1>1 DEF ClientInv, ClientType
<1>7. CASE C!MayRestart
  <2>1. PICK c : c = C!RestartFrom(connector)
    OBVIOUS
  <2>2. C!Start(c) /\ client.enabled
    BY <1>7, <2>1 DEF C!RemoveConnection, C!MayRestart
  <2>3. /\ c \in ConnectorType /\ c.state = "Disconnected" /\ c.timers = 0
        /\ c.channel = connector.channel /\ c.attempt = "none"
    BY <1>3, <2>1, ServicesAssumption DEF C!RestartFrom, ClientInv, ConnectorType
  <2>4. WayOk(c, t)
    BY <1>3, <1>6, <2>3 DEF WayOk
  <2>5. ~ Stopped(connector, client)
    BY <2>2 DEF Stopped
  <2> QED BY <1>2, <1>3, <1>4, <1>5, <1>6, <2>2, <2>3, <2>4, <2>5, StartInBatch
<1>8. CASE ~ C!MayRestart
  <2>1. UNCHANGED <<connector, broken>>
    BY <1>8 DEF C!RemoveConnection
  <2>2. clientLoop.turn = "events"
    BY <1>4 DEF ClientInv, ReadyOk
  <2>3. /\ clientLoop' \in LoopType /\ clientLoop'.turn = "events"
        /\ clientLoop'.running = clientLoop.running /\ clientLoop'.functors = clientLoop.functors
    BY <1>2, <2>2 DEF ClientInv, LoopType
  <2>4. WayOk(connector, t)
    BY <1>3, <1>6 DEF ClientInv, WayOk
  <2>5. ReadyOk(clientLoop', connector, t)
    BY <1>5, <2>3 DEF ReadyOk
  <2>6. Stopped(connector, t) <=> Stopped(connector, client)
    BY <1>6 DEF Stopped
  <2>7. ResetOk(clientLoop', connector, t)
    BY <1>4, <1>5, <2>2, <2>3, <2>6 DEF ClientInv, ResetOk
  <2> QED BY <1>2, <1>3, <1>6, <2>1, <2>3, <2>4, <2>5, <2>7 DEF ClientInv, IdleOk
<1> QED BY <1>7, <1>8

LEMMA ResetChannelStep ==
  ASSUME ClientInv, C!ResetChannel
  PROVE  ClientInv'
<1>1. PICK running2 : running2 = Tail(clientLoop.running)
  OBVIOUS
<1>2. /\ clientLoop.running # <<>> /\ Head(clientLoop.running) = "resetChannel"
      /\ clientLoop' = [clientLoop EXCEPT !.running = running2]
      /\ connector' = [connector EXCEPT !.channel = "none"]
      /\ UNCHANGED <<client, broken>>
  BY <1>1 DEF C!ResetChannel
<1>3. clientLoop.running \in Seq(Functors)
  BY DEF ClientInv, LoopType
<1>4. /\ running2 \in Seq(Functors) /\ In("resetChannel", clientLoop.running)
      /\ \A g : In(g, running2) => In(g, clientLoop.running)
  BY <1>1, <1>2, <1>3, InTail
<1>5. /\ clientLoop' \in LoopType /\ clientLoop'.turn = clientLoop.turn /\ clientLoop'.ready = clientLoop.ready
      /\ clientLoop'.running = running2 /\ clientLoop'.functors = clientLoop.functors
  BY <1>2, <1>4 DEF ClientInv, LoopType
<1>6. /\ connector' \in ConnectorType /\ connector'.channel = "none"
      /\ connector'.enabled = connector.enabled /\ connector'.state = connector.state
      /\ connector'.timers = connector.timers /\ connector'.attempt = connector.attempt
  BY <1>2 DEF ClientInv, ConnectorType
<1>7. connector.channel # "watched" /\ clientLoop.turn = "functors" /\ client.calls # <<>>
  BY <1>2, <1>4 DEF ClientInv, ResetOk, IdleOk
<1>8. WayOk(connector', client)
  BY <1>6, <1>7 DEF ClientInv, WayOk
<1>9. ReadyOk(clientLoop', connector', client)
  BY <1>5, <1>6, <1>7 DEF ClientInv, ReadyOk
<1>10. ResetOk(clientLoop', connector', client)
  BY <1>4, <1>5, <1>6, <1>7 DEF ClientInv, ResetOk, Stopped
<1> QED BY <1>2, <1>5, <1>6, <1>7, <1>8, <1>9, <1>10 DEF ClientInv, IdleOk

\* A stopped client sets no timer, so that the late reset meets no attempt.
LEMMA StopInLoopStep ==
  ASSUME ClientInv, C!StopInLoop
  PROVE  ClientInv'
<1>1. PICK running2 : running2 = Tail(clientLoop.running)
  OBVIOUS
<1>2. /\ clientLoop.running # <<>> /\ Head(clientLoop.running) = "stopInLoop"
      /\ UNCHANGED <<client, broken>>
  BY DEF C!StopInLoop
<1>3. clientLoop.running \in Seq(Functors) /\ clientLoop.functors \in Seq(Functors)
  BY DEF ClientInv, LoopType
<1>4. /\ running2 \in Seq(Functors) /\ In("stopInLoop", clientLoop.running)
      /\ \A g : In(g, running2) => In(g, clientLoop.running)
      /\ In("resetChannel", clientLoop.running) => In("resetChannel", running2)
  BY <1>1, <1>2, <1>3, InTail
<1>5. Stopped(connector, client) /\ clientLoop.turn = "functors" /\ client.calls # <<>>
  BY <1>2, <1>4 DEF ClientInv, ResetOk, IdleOk
<1>6. clientLoop.ready = {}
  BY <1>5 DEF ClientInv, ReadyOk
<1>7. CASE connector.state = "Connecting"
  <2>1. PICK gone : gone = C!Removed(connector)
    OBVIOUS
  <2>2. /\ gone \in ConnectorType /\ gone.channel = "removed" /\ gone.enabled = FALSE
        /\ gone.timers = connector.timers
    BY <1>5, <2>1 DEF C!Removed, ClientInv, ConnectorType, Stopped
  <2>3. connector' = C!Retry(gone)
    BY <1>7, <2>1 DEF C!StopInLoop
  <2>4. /\ connector' \in ConnectorType /\ connector'.state = "Disconnected"
        /\ connector'.attempt = "none" /\ connector'.channel = "removed"
        /\ connector'.enabled = FALSE /\ connector'.timers = connector.timers
    BY <2>2, <2>3, RetryFits
  <2>5. PICK functors : functors = Append(clientLoop.functors, "resetChannel")
    OBVIOUS
  <2>6. /\ functors \in Seq(Functors)
        /\ \A g : In(g, functors) <=> In(g, clientLoop.functors) \/ g = "resetChannel"
    BY <1>3, <2>5, InAppend DEF Functors
  <2>7. clientLoop' = [clientLoop EXCEPT !.functors = functors, !.running = running2]
    BY <1>1, <1>7, <2>5 DEF C!StopInLoop, C!Queue, ClientInv, LoopType
  <2>8. /\ clientLoop' \in LoopType /\ clientLoop'.turn = clientLoop.turn /\ clientLoop'.ready = {}
        /\ clientLoop'.running = running2 /\ clientLoop'.functors = functors
    BY <1>4, <1>6, <2>6, <2>7 DEF ClientInv, LoopType
  <2>9. Stopped(connector', client)
    BY <1>5, <2>4 DEF Stopped
  <2>10. WayOk(connector', client)
    BY <1>7, <2>4 DEF ClientInv, WayOk
  <2>11. ReadyOk(clientLoop', connector', client)
    BY <2>8 DEF ReadyOk
  <2>12. ResetOk(clientLoop', connector', client)
    BY <1>5, <2>4, <2>8, <2>9 DEF ResetOk
  <2> QED BY <1>2, <1>5, <2>4, <2>8, <2>10, <2>11, <2>12 DEF ClientInv, IdleOk
<1>8. CASE connector.state # "Connecting"
  <2>1. clientLoop' = [clientLoop EXCEPT !.running = running2] /\ UNCHANGED connector
    BY <1>1, <1>8 DEF C!StopInLoop
  <2>2. /\ clientLoop' \in LoopType /\ clientLoop'.turn = clientLoop.turn /\ clientLoop'.ready = {}
        /\ clientLoop'.running = running2 /\ clientLoop'.functors = clientLoop.functors
    BY <1>4, <1>6, <2>1 DEF ClientInv, LoopType
  <2>3. ReadyOk(clientLoop', connector, client)
    BY <2>2 DEF ReadyOk
  <2>4. ResetOk(clientLoop', connector, client)
    BY <1>4, <1>5, <2>2 DEF ClientInv, ResetOk
  <2> QED BY <1>2, <1>5, <2>1, <2>2, <2>3, <2>4 DEF ClientInv, IdleOk
<1> QED BY <1>7, <1>8

LEMMA ClientStep ==
  ASSUME ClientInv, C!NextClient \/ UNCHANGED clientVars
  PROVE  ClientInv'
<1>1. CASE C!Connect
  BY <1>1, ConnectStep
<1>2. CASE C!Disconnect \/ C!Stop
  BY <1>2, OwnerStops
<1>3. CASE C!Poll \/ C!EndEvents \/ C!EndFunctors
  BY <1>3, LoopTurns
<1>4. CASE C!HandleChannel \/ C!HandleTimer \/ C!OrphanTimer \/ C!RemoveConnection
  BY <1>4, HandleChannelStep, HandleTimerStep, OrphanTimerStep, RemoveConnectionStep
<1>5. CASE C!ResetChannel \/ C!StopInLoop
  BY <1>5, ResetChannelStep, StopInLoopStep
<1>6. CASE C!Answer
  <2>1. /\ connector.attempt = "pending" /\ UNCHANGED <<clientLoop, client, broken>>
        /\ connector' = [connector EXCEPT !.attempt = IF peer.up THEN "accepted" ELSE "refused"]
    BY <1>6 DEF C!Answer
  <2>2. /\ connector' \in ConnectorType /\ connector'.attempt # "none"
        /\ connector'.channel = connector.channel /\ connector'.enabled = connector.enabled
        /\ connector'.state = connector.state /\ connector'.timers = connector.timers
    BY <2>1 DEF ClientInv, ConnectorType
  <2> QED BY <2>1, <2>2 DEF ClientInv, WayOk, ReadyOk, ResetOk, IdleOk, Stopped
<1>7. CASE C!GoDown
  <2>1. PICK connection : connection = IF client.connection = "open" THEN "lost" ELSE client.connection
    OBVIOUS
  <2>2. UNCHANGED <<clientLoop, connector, broken>> /\ client' = [client EXCEPT !.connection = connection]
    BY <1>7, <2>1 DEF C!GoDown
  <2>3. /\ client' \in ClientType /\ client'.enabled = client.enabled /\ client'.calls = client.calls
        /\ client'.connection # "none" <=> client.connection # "none"
        /\ client.connection = "lost" => client'.connection = "lost"
    BY <2>1, <2>2 DEF ClientInv, ClientType
  <2> QED BY <2>2, <2>3 DEF ClientInv, WayOk, ReadyOk, ResetOk, IdleOk, Stopped
<1>8. CASE C!ComeUp \/ UNCHANGED clientVars
  <2>1. UNCHANGED <<clientLoop, connector, client, broken>>
    BY <1>8 DEF C!ComeUp, clientVars
  <2> QED BY <2>1 DEF ClientInv
<1>9. CASE C!Destroy
  BY <1>9, DestroyStep
<1>10. CASE C!CloseAfterDestroy
  <2>1. PICK dangling : dangling = {"client"}
    OBVIOUS
  <2>2. client' = [client EXCEPT !.dangling = dangling] /\ UNCHANGED <<clientLoop, connector, broken>>
    BY <1>10, <2>1 DEF C!CloseAfterDestroy
  <2>3. /\ client' \in ClientType /\ client'.enabled = client.enabled /\ client'.calls = client.calls
        /\ client'.connection = client.connection
    BY <2>1, <2>2 DEF ClientInv, ClientType, Objects
  <2> QED BY <2>2, <2>3 DEF ClientInv, WayOk, ReadyOk, ResetOk, IdleOk, Stopped
<1> QED
  BY <1>1, <1>2, <1>3, <1>4, <1>5, <1>6, <1>7, <1>8, <1>9, <1>10 DEF C!NextClient, C!LoopStep, C!Owner

LEMMA ClientHolds == ClientInv => C!ClientAssertions /\ C!OneWayAtATime
<1> SUFFICES ASSUME ClientInv PROVE C!ClientAssertions /\ C!OneWayAtATime
  OBVIOUS
<1>1. connector.timers \in Nat
  BY DEF ClientInv, ConnectorType
<1>2. CASE connector.timers = 0 /\ connector.state # "Connecting"
  BY <1>2 DEF ClientInv, C!ClientAssertions, C!OneWayAtATime
<1>3. CASE connector.timers # 0
  <2>1. connector.timers = 1 /\ connector.state # "Connecting" /\ client.connection = "none"
    BY <1>3 DEF ClientInv, WayOk
  <2> QED BY <2>1 DEF ClientInv, C!ClientAssertions, C!OneWayAtATime
<1>4. CASE connector.timers = 0 /\ connector.state = "Connecting"
  BY <1>4 DEF ClientInv, WayOk, C!ClientAssertions, C!OneWayAtATime
<1> QED BY <1>2, <1>3, <1>4

(***************************************************************************)
(* A connection.  What its functions keep of the record, whatever part of  *)
(* the output the kernel takes.                                            *)
(***************************************************************************)

Open(r) == "read" \in r.events
ChannelIs(r) ==
    /\ r.events # {} <=> r.index = "add"
    /\ r.events # {} => Open(r)
    /\ r.state = "connected" => Open(r)
    /\ Open(r) => r.state \in {"connected", "disconnecting"}

Stream(r) == r.wire \o r.out
Numbers(s) == \A k \in 1..Len(s) : s[k] = k

\* Output that the kernel refused is dropped for good, so no later one follows.
Dropped(r) == r.gone /\ r.out = <<>> /\ "write" \notin r.events
OutputIs(r) ==
    /\ Numbers(Stream(r))
    /\ r.state = "connected" => Len(Stream(r)) = r.sent \/ Dropped(r)
    /\ Open(r) => (r.out # <<>> <=> "write" \in r.events)
    /\ r.fin => r.state \notin {"none", "connecting", "connected"}
    /\ Open(r) /\ r.fin => r.out = <<>>

\* Before it is established, nothing has happened to it.
FreshIs(r) ==
    r.state \in {"none", "connecting"} =>
        r.events = {} /\ r.index = "new" /\ r.wire = <<>> /\ r.out = <<>> /\ r.sent = 0

RecordOk(r) == r \in S!Connection /\ ChannelIs(r) /\ OutputIs(r) /\ FreshIs(r)

\* What a call of the user, of the peer or of shutdown may change of it.
MildTo(r, t) ==
    /\ t.events # {} <=> r.events # {}
    /\ t.index = r.index
    /\ \/ t.state = r.state
       \/ r.state \notin {"none", "connecting"} /\ t.state = "disconnecting"

LEMMA ConnectionFields ==
  ASSUME NEW r \in S!Connection
  PROVE  /\ r.state \in {"none", "connecting", "connected", "disconnecting", "disconnected"}
         /\ r.events \in SUBSET {"read", "write"} /\ r.index \in {"new", "add", "del"}
         /\ r.out \in Seq(Nat) /\ r.wire \in Seq(Nat)
         /\ r.fin \in BOOLEAN /\ r.gone \in BOOLEAN /\ r.sent \in Nat
  BY DEF S!Connection, S!States

LEMMA NewIsOk == RecordOk(S!New) /\ S!New.state = "none"
<1>1. PICK none : none = <<>>
  OBVIOUS
<1>2. none \in Seq(Nat) /\ Len(none) = 0 /\ none \o none = none
  BY <1>1
<1>3. PICK r : r = [state |-> "none", events |-> {}, index |-> "new", out |-> none, wire |-> none,
                    fin |-> FALSE, gone |-> FALSE, sent |-> 0]
  OBVIOUS
<1>4. r = S!New
  BY <1>1, <1>3 DEF S!New
<1>5. r \in S!Connection
  BY <1>2, <1>3 DEF S!Connection, S!States
<1>6. /\ r.state = "none" /\ r.events = {} /\ r.index = "new" /\ r.out = none /\ r.wire = none
      /\ r.fin = FALSE /\ r.sent = 0
  BY <1>3
<1>7. Numbers(Stream(r))
  BY <1>2, <1>6 DEF Numbers, Stream
<1> QED BY <1>1, <1>4, <1>5, <1>6, <1>7 DEF RecordOk, ChannelIs, OutputIs, FreshIs, Open

LEMMA CreateOk ==
  ASSUME NEW r, RecordOk(r), r.state = "none"
  PROVE  RecordOk(S!Create(r)) /\ S!Create(r).state = "connecting"
<1>1. PICK t : t = S!Create(r)
  OBVIOUS
<1>2. /\ t \in S!Connection /\ t.state = "connecting" /\ t.events = r.events /\ t.index = r.index
      /\ t.wire = r.wire /\ t.out = r.out /\ t.sent = r.sent /\ t.fin = r.fin
  BY <1>1 DEF RecordOk, S!Create, S!Connection, S!States
<1> QED BY <1>1, <1>2 DEF RecordOk, ChannelIs, OutputIs, FreshIs, Open, Stream

LEMMA EstablishedOk ==
  ASSUME NEW r, RecordOk(r), r.state = "connecting"
  PROVE  RecordOk(S!Established(r)) /\ S!Established(r).state = "connected"
<1>1. PICK t : t = S!Established(r)
  OBVIOUS
<1>2. /\ t \in S!Connection /\ t.state = "connected" /\ t.events = {"read"} /\ t.index = "add"
      /\ t.wire = r.wire /\ t.out = r.out /\ t.sent = r.sent /\ t.fin = r.fin
  BY <1>1 DEF RecordOk, S!Established, S!Watch, S!Connection, S!States
<1>3. r.wire = <<>> /\ r.out = <<>> /\ r.sent = 0 /\ ~ r.fin
  BY DEF RecordOk, FreshIs, OutputIs, S!Connection
<1>4. Len(Stream(t)) = 0
  BY <1>2, <1>3 DEF Stream
<1>5. Numbers(Stream(t))
  BY <1>4 DEF Numbers
<1> QED BY <1>1, <1>2, <1>3, <1>4, <1>5 DEF RecordOk, ChannelIs, OutputIs, FreshIs, Open

LEMMA ClosedOk ==
  ASSUME NEW r, RecordOk(r), Open(r)
  PROVE  /\ RecordOk(S!Closed(r)) /\ S!Closed(r).state = "disconnected"
         /\ S!Closed(r).events = {} /\ S!Closed(r).index = "del"
<1>1. PICK t : t = S!Closed(r)
  OBVIOUS
<1>2. /\ t \in S!Connection /\ t.state = "disconnected" /\ t.events = {} /\ t.index = "del"
      /\ t.wire = r.wire /\ t.out = r.out
  BY <1>1 DEF RecordOk, S!Closed, S!Watch, S!Connection, S!States
<1> QED BY <1>1, <1>2 DEF RecordOk, ChannelIs, OutputIs, FreshIs, Open, Stream

LEMMA DestroyedOk ==
  ASSUME NEW r, RecordOk(r), r.events = {}, r.index = "del"
  PROVE  /\ RecordOk(S!Destroyed(r)) /\ S!Destroyed(r).state = r.state
         /\ S!Destroyed(r).events = {} /\ S!Quiet(r) = r
         /\ r.state \in {"disconnecting", "disconnected"}
<1>1. PICK t : t = [r EXCEPT !.index = "new"]
  OBVIOUS
<1>2. r.state \in {"disconnecting", "disconnected"}
  BY ConnectionFields DEF RecordOk, ChannelIs, FreshIs, Open
<1>3. S!Quiet(r) = r /\ t = S!Destroyed(r)
  BY <1>1, <1>2 DEF S!Quiet, S!Destroyed, S!Remove
<1>4. /\ t \in S!Connection /\ t.state = r.state /\ t.events = {} /\ t.index = "new"
      /\ t.wire = r.wire /\ t.out = r.out /\ t.sent = r.sent /\ t.fin = r.fin
  BY <1>1 DEF RecordOk, S!Connection, S!States
<1> QED BY <1>2, <1>3, <1>4 DEF RecordOk, ChannelIs, OutputIs, FreshIs, Open, Stream

LEMMA ResetOfPeer ==
  ASSUME NEW r, RecordOk(r), NEW t, t = [r EXCEPT !.gone = TRUE]
  PROVE  RecordOk(t) /\ MildTo(r, t)
<1>1. /\ t \in S!Connection /\ t.state = r.state /\ t.events = r.events /\ t.index = r.index
      /\ t.wire = r.wire /\ t.out = r.out /\ t.sent = r.sent /\ t.fin = r.fin /\ t.gone = TRUE
  BY DEF RecordOk, S!Connection
<1>2. Stream(t) = Stream(r) /\ (Open(t) <=> Open(r)) /\ (Dropped(r) => Dropped(t))
  BY <1>1 DEF Stream, Open, Dropped
<1>3. ChannelIs(t) /\ FreshIs(t)
  BY <1>1, <1>2 DEF RecordOk, ChannelIs, FreshIs
<1>4. OutputIs(t)
  BY <1>1, <1>2 DEF RecordOk, OutputIs
<1> QED BY <1>1, <1>3, <1>4 DEF RecordOk, MildTo

LEMMA StateIsSet ==
  ASSUME NEW r, RecordOk(r), r.state \notin {"none", "connecting"},
         NEW t, t = [r EXCEPT !.state = "disconnecting"]
  PROVE  RecordOk(t) /\ MildTo(r, t) /\ t.state = "disconnecting" /\ t.events = r.events
<1>1. /\ t \in S!Connection /\ t.state = "disconnecting" /\ t.events = r.events /\ t.index = r.index
      /\ t.wire = r.wire /\ t.out = r.out /\ t.sent = r.sent /\ t.fin = r.fin
  BY DEF RecordOk, S!Connection, S!States
<1> QED BY <1>1 DEF RecordOk, ChannelIs, OutputIs, FreshIs, Open, Stream, MildTo

LEMMA ShutdownInLoopOk ==
  ASSUME NEW r, RecordOk(r), r.state \in {"disconnecting", "disconnected"}
  PROVE  RecordOk(S!ShutdownInLoop(r)) /\ MildTo(r, S!ShutdownInLoop(r))
<1>1. CASE "write" \in r.events
  <2>1. S!ShutdownInLoop(r) = r
    BY <1>1 DEF S!ShutdownInLoop
  <2> QED BY <2>1 DEF MildTo
<1>2. CASE "write" \notin r.events
  <2>1. PICK t : t = S!ShutdownInLoop(r)
    OBVIOUS
  <2>2. /\ t \in S!Connection /\ t.state = r.state /\ t.events = r.events /\ t.index = r.index
        /\ t.wire = r.wire /\ t.out = r.out /\ t.sent = r.sent
    BY <1>2, <2>1 DEF S!ShutdownInLoop, RecordOk, S!Connection
  <2>3. Stream(t) = Stream(r) /\ (Open(t) <=> Open(r)) /\ t.state \notin {"none", "connecting", "connected"}
    BY <2>2 DEF Stream, Open
  <2>4. ChannelIs(t) /\ FreshIs(t)
    BY <2>2, <2>3 DEF RecordOk, ChannelIs, FreshIs
  <2>5. OutputIs(t)
    BY <1>2, <2>2, <2>3 DEF RecordOk, OutputIs
  <2> QED BY <2>1, <2>2, <2>4, <2>5 DEF RecordOk, MildTo
<1> QED BY <1>1, <1>2

LEMMA ShutdownOk ==
  ASSUME NEW r, RecordOk(r)
  PROVE  RecordOk(S!Shutdown(r)) /\ MildTo(r, S!Shutdown(r))
<1>1. CASE r.state # "connected"
  <2>1. S!Shutdown(r) = r
    BY <1>1 DEF S!Shutdown
  <2> QED BY <2>1 DEF MildTo
<1>2. CASE r.state = "connected"
  <2>1. PICK t : t = [r EXCEPT !.state = "disconnecting"]
    OBVIOUS
  <2>2. RecordOk(t) /\ MildTo(r, t) /\ t.state = "disconnecting"
    BY <1>2, <2>1, StateIsSet
  <2>3. S!Shutdown(r) = S!ShutdownInLoop(t)
    BY <1>2, <2>1 DEF S!Shutdown
  <2>4. RecordOk(S!ShutdownInLoop(t)) /\ MildTo(t, S!ShutdownInLoop(t))
    BY <2>2, ShutdownInLoopOk
  <2> QED BY <1>2, <2>2, <2>3, <2>4 DEF MildTo
<1> QED BY <1>1, <1>2

\* The stream goes on with the next numbers.
LEMMA NumbersGoOn ==
  ASSUME NEW s \in Seq(Nat), Numbers(s), NEW n \in Nat, NEW data \in Seq(Nat), Len(data) = n,
         \A k \in 1..n : data[k] = Len(s) + k
  PROVE  Numbers(s \o data) /\ Len(s \o data) = Len(s) + n
<1>1. /\ Len(s \o data) = Len(s) + n /\ Len(s) \in Nat
      /\ \A i \in 1..Len(s) + n : (s \o data)[i] = IF i <= Len(s) THEN s[i] ELSE data[i - Len(s)]
  OBVIOUS
<1>2. ASSUME NEW k \in 1..Len(s) + n PROVE (s \o data)[k] = k
  <2>1. CASE k <= Len(s)
    BY <1>1, <2>1 DEF Numbers
  <2>2. CASE ~ (k <= Len(s))
    <3>1. k - Len(s) \in 1..n /\ Len(s) + (k - Len(s)) = k
      BY <1>1, <2>2
    <3> QED BY <1>1, <2>2, <3>1
  <2> QED BY <2>1, <2>2
<1> QED BY <1>1, <1>2 DEF Numbers

LEMMA SplitIn ==
  ASSUME NEW s \in Seq(Nat), NEW n \in 0..Len(s)
  PROVE  /\ SubSeq(s, 1, n) \in Seq(Nat) /\ SubSeq(s, n + 1, Len(s)) \in Seq(Nat)
         /\ SubSeq(s, 1, n) \o SubSeq(s, n + 1, Len(s)) = s
<1>1. Len(s) \in Nat /\ n \in Nat
  OBVIOUS
<1>2. \A i \in 1..Len(s) : s[i] \in Nat
  OBVIOUS
<1>3. SubSeq(s, 1, n) \in Seq(Nat)
  BY <1>1, <1>2, SubSeqProperties
<1>4. SubSeq(s, n + 1, Len(s)) \in Seq(Nat)
  BY <1>1, <1>2, SubSeqProperties
<1>5. 1 \in 1..Len(s) + 1 /\ n \in (1 - 1)..Len(s) /\ Len(s) \in n..Len(s)
  BY <1>1
<1>6. SubSeq(s, 1, n) \o SubSeq(s, n + 1, Len(s)) = SubSeq(s, 1, Len(s))
  BY <1>5, ConcatAdjacentSubSeq
<1>7. SubSeq(s, 1, Len(s)) = s
  BY SubSeqFull
<1> QED BY <1>3, <1>4, <1>6, <1>7

\* r is t behind s.
Joins(r, s, t) == r = s \o t

LEMMA JoinIs ==
  ASSUME NEW Elems, NEW s \in Seq(Elems), NEW t \in Seq(Elems), NEW r, Joins(r, s, t)
  PROVE  /\ r \in Seq(Elems) /\ Len(r) = Len(s) + Len(t) /\ Len(s) \in Nat /\ Len(t) \in Nat
         /\ \A i \in 1..Len(s) + Len(t) : r[i] = IF i <= Len(s) THEN s[i] ELSE t[i - Len(s)]
  BY ConcatProperties DEF Joins

LEMMA JoinEmpty ==
  ASSUME NEW Elems, NEW s \in Seq(Elems), NEW r
  PROVE  (Joins(r, s, <<>>) => r = s) /\ (Joins(r, <<>>, s) => r = s)
  BY ConcatEmptySeq DEF Joins

LEMMA Associative ==
  ASSUME NEW Elems, NEW s \in Seq(Elems), NEW t \in Seq(Elems), NEW u \in Seq(Elems),
         NEW st, Joins(st, s, t), NEW tu, Joins(tu, t, u),
         NEW a, Joins(a, st, u), NEW b, Joins(b, s, tu)
  PROVE  a = b
<1>1. PICK k \in Nat, m \in Nat, n \in Nat : k = Len(s) /\ m = Len(t) /\ n = Len(u)
  OBVIOUS
<1>2. /\ st \in Seq(Elems) /\ Len(st) = k + m
      /\ \A i \in 1..k + m : st[i] = IF i <= k THEN s[i] ELSE t[i - k]
  <2>1. /\ st \in Seq(Elems) /\ Len(st) = Len(s) + Len(t)
        /\ \A i \in 1..Len(s) + Len(t) : st[i] = IF i <= Len(s) THEN s[i] ELSE t[i - Len(s)]
    BY JoinIs
  <2> QED BY <1>1, <2>1
<1>3. /\ tu \in Seq(Elems) /\ Len(tu) = m + n
      /\ \A i \in 1..m + n : tu[i] = IF i <= m THEN t[i] ELSE u[i - m]
  <2>1. /\ tu \in Seq(Elems) /\ Len(tu) = Len(t) + Len(u)
        /\ \A i \in 1..Len(t) + Len(u) : tu[i] = IF i <= Len(t) THEN t[i] ELSE u[i - Len(t)]
    BY JoinIs
  <2> QED BY <1>1, <2>1
<1>4. /\ a \in Seq(Elems) /\ Len(a) = k + m + n
      /\ \A i \in 1..k + m + n : a[i] = IF i <= k + m THEN st[i] ELSE u[i - (k + m)]
  <2>1. /\ a \in Seq(Elems) /\ Len(a) = Len(st) + Len(u)
        /\ \A i \in 1..Len(st) + Len(u) : a[i] = IF i <= Len(st) THEN st[i] ELSE u[i - Len(st)]
    <3>1. st \in Seq(Elems)
      BY <1>2
    <3> QED BY <3>1, JoinIs
  <2> QED BY <1>1, <1>2, <2>1
<1>5. /\ b \in Seq(Elems) /\ Len(b) = k + (m + n)
      /\ \A i \in 1..k + (m + n) : b[i] = IF i <= k THEN s[i] ELSE tu[i - k]
  <2>1. /\ b \in Seq(Elems) /\ Len(b) = Len(s) + Len(tu)
        /\ \A i \in 1..Len(s) + Len(tu) : b[i] = IF i <= Len(s) THEN s[i] ELSE tu[i - Len(s)]
    <3>1. tu \in Seq(Elems)
      BY <1>3
    <3> QED BY <3>1, JoinIs
  <2> QED BY <1>1, <1>3, <2>1
<1>6. ASSUME NEW i \in 1..k + m + n PROVE a[i] = b[i]
  <2>1. CASE i <= k
    BY <1>2, <1>4, <1>5, <2>1
  <2>2. CASE ~ (i <= k) /\ i <= k + m
    <3>1. i \in 1..k + m /\ i - k \in 1..m /\ i - k \in 1..m + n /\ i - k <= m
      BY <2>2
    <3>2. a[i] = t[i - k]
      BY <1>2, <1>4, <2>2, <3>1
    <3>3. b[i] = t[i - k]
      BY <1>3, <1>5, <2>2, <3>1
    <3> QED BY <3>2, <3>3
  <2>3. CASE ~ (i <= k + m)
    <3>1. i - k \in 1..m + n /\ ~ (i - k <= m) /\ ~ (i <= k) /\ (i - k) - m = i - (k + m)
      BY <2>3
    <3>2. a[i] = u[i - (k + m)]
      BY <1>4, <2>3
    <3>3. b[i] = u[(i - k) - m]
      BY <1>3, <1>5, <3>1
    <3> QED BY <3>1, <3>2, <3>3
  <2> QED BY <2>1, <2>2, <2>3
<1>7. Len(a) = Len(b) /\ \A i \in 1..Len(a) : a[i] = b[i]
  BY <1>4, <1>5, <1>6
<1> QED BY <1>4, <1>5, <1>7, SeqEqual

\* What the kernel takes and what is left follow on the stream.
LEMMA StreamGoesOn ==
  ASSUME NEW Elems, NEW wire \in Seq(Elems), NEW out \in Seq(Elems), NEW taken \in Seq(Elems), NEW left \in Seq(Elems),
         taken = <<>> \/ out = <<>>,
         NEW wt, Joins(wt, wire, taken), NEW ol, Joins(ol, out, left),
         NEW wo, Joins(wo, wire, out), NEW tl, Joins(tl, taken, left),
         NEW a, Joins(a, wt, ol), NEW b, Joins(b, wo, tl)
  PROVE  a = b
<1>1. CASE taken = <<>>
  <2>1. wt = wire /\ tl = left
    BY <1>1, JoinEmpty
  <2> QED BY <2>1, Associative
<1>2. CASE out = <<>>
  <2>1. wo = wire /\ ol = left
    BY <1>2, JoinEmpty
  <2> QED BY <2>1, Associative
<1> QED BY <1>1, <1>2

\* A connection that goes on sending, from r to t.
LEMMA SendsOn ==
  ASSUME NEW r, RecordOk(r), r.state = "connected", ~ Dropped(r),
         NEW data \in Seq(Nat), Len(data) = Chunks, \A k \in 1..Chunks : data[k] = r.sent + k,
         NEW t \in S!Connection, t.state = r.state, t.index = r.index, t.fin = r.fin,
         "read" \in t.events, t.out # <<>> <=> "write" \in t.events,
         t.sent = r.sent + Chunks, Stream(t) = Stream(r) \o data
  PROVE  RecordOk(t) /\ MildTo(r, t)
<1>1. r \in S!Connection /\ ChannelIs(r) /\ OutputIs(r)
  BY DEF RecordOk
<1>2. Open(r) /\ r.index = "add" /\ ~ r.fin
  BY <1>1 DEF ChannelIs, OutputIs, Open, S!Connection
<1>3. Numbers(Stream(r)) /\ Len(Stream(r)) = r.sent
  BY <1>1 DEF OutputIs
<1>4. Numbers(Stream(t)) /\ Len(Stream(t)) = t.sent
  <2>1. PICK stream : stream = Stream(r)
    OBVIOUS
  <2>2. stream \in Seq(Nat)
    BY <1>1, <2>1, ConnectionFields DEF Stream
  <2>3. Chunks \in Nat /\ \A k \in 1..Chunks : data[k] = Len(stream) + k
    BY <1>3, <2>1, ServicesAssumption
  <2>4. Numbers(stream \o data) /\ Len(stream \o data) = Len(stream) + Chunks
    BY <1>3, <2>1, <2>2, <2>3, NumbersGoOn
  <2> QED BY <1>3, <2>1, <2>4
<1>5. ChannelIs(t) /\ FreshIs(t) /\ MildTo(r, t)
  BY <1>2 DEF ChannelIs, FreshIs, MildTo, Open
<1>6. OutputIs(t)
  BY <1>2, <1>4 DEF OutputIs, Open
<1> QED BY <1>5, <1>6 DEF RecordOk

LEMMA SendInLoopOk ==
  ASSUME NEW r, RecordOk(r), r.state = "connected", NEW n \in 0..Chunks,
         NEW x, x = [r EXCEPT !.sent = r.sent + Chunks],
         NEW data, data = [k \in 1..Chunks |-> r.sent + k],
         NEW idle \in BOOLEAN, idle <=> S!AsksKernel(x)
  PROVE  RecordOk(S!SendInLoop(x, data, n)) /\ MildTo(r, S!SendInLoop(x, data, n))
<1> DEFINE sent == S!SendInLoop(x, data, n)
<1>1. /\ r \in S!Connection /\ ChannelIs(r) /\ OutputIs(r) /\ Open(r) /\ ~ r.fin
      /\ r.out \in Seq(Nat) /\ r.wire \in Seq(Nat) /\ r.sent \in Nat /\ Chunks \in Nat
      /\ r.out # <<>> <=> "write" \in r.events
  BY ConnectionFields, ServicesAssumption DEF RecordOk, ChannelIs, OutputIs, Open
<1>2. r.sent + Chunks \in Nat
  BY <1>1
<1>3. /\ x \in S!Connection /\ x.state = "connected" /\ x.index = r.index /\ x.fin = r.fin
      /\ x.events = r.events /\ x.out = r.out /\ x.wire = r.wire /\ x.gone = r.gone
      /\ x.sent = r.sent + Chunks
  BY <1>1, <1>2 DEF S!Connection
<1>4. /\ data \in Seq(Nat) /\ Len(data) = Chunks
      /\ \A k \in 1..Chunks : data[k] = r.sent + k
  BY <1>1
<1>5. CASE idle /\ S!Fails(x)
  <2>1. sent = x
    BY <1>5 DEF S!SendInLoop
  <2>2. Stream(x) = Stream(r) /\ Dropped(x)
    BY <1>1, <1>3, <1>5 DEF S!AsksKernel, S!Fails, Stream, Dropped
  <2>3. ChannelIs(x) /\ FreshIs(x) /\ MildTo(r, x)
    BY <1>1, <1>3 DEF ChannelIs, FreshIs, MildTo, Open
  <2>4. OutputIs(x)
    BY <1>1, <1>3, <2>2 DEF OutputIs, Open
  <2> QED BY <1>3, <2>1, <2>3, <2>4 DEF RecordOk
<1>6. CASE ~ (idle /\ S!Fails(x))
  <2>1. PICK m : m = IF idle THEN n ELSE 0
    OBVIOUS
  <2>2. m \in 0..Len(data)
    BY <1>1, <1>4, <2>1
  <2>3. PICK taken : taken = SubSeq(data, 1, m)
    OBVIOUS
  <2>4. PICK left : left = SubSeq(data, m + 1, Len(data))
    OBVIOUS
  <2>5. taken \in Seq(Nat) /\ left \in Seq(Nat) /\ taken \o left = data
    BY <1>4, <2>2, <2>3, <2>4, SplitIn
  <2>6. taken = <<>> \/ r.out = <<>>
    <3>1. CASE idle
      BY <1>3, <3>1 DEF S!AsksKernel
    <3>2. CASE ~ idle
      BY <2>1, <2>3, <3>2, SubSeqEmpty
    <3> QED BY <3>1, <3>2
  <2>7. PICK wire : wire = r.wire \o taken
    OBVIOUS
  <2>8. PICK out : out = r.out \o left
    OBVIOUS
  <2>9. wire \in Seq(Nat) /\ out \in Seq(Nat) /\ wire \o out = Stream(r) \o data
    <3>1. PICK w : w = r.wire
      OBVIOUS
    <3>2. PICK o : o = r.out
      OBVIOUS
    <3>3. /\ w \in Seq(Nat) /\ o \in Seq(Nat) /\ (taken = <<>> \/ o = <<>>)
          /\ taken \in Seq(Nat) /\ left \in Seq(Nat)
      BY <1>1, <2>5, <2>6, <3>1, <3>2
    <3>4. wire = w \o taken /\ out = o \o left /\ data = taken \o left /\ Stream(r) = w \o o
      BY <2>5, <2>7, <2>8, <3>1, <3>2 DEF Stream
    <3>5. wire \in Seq(Nat) /\ out \in Seq(Nat)
      BY <3>3, <3>4, ConcatProperties
    <3>6. PICK stream, a, b : stream = Stream(r) /\ a = wire \o out /\ b = stream \o data
      OBVIOUS
    <3>7. /\ Joins(wire, w, taken) /\ Joins(out, o, left) /\ Joins(stream, w, o)
          /\ Joins(data, taken, left) /\ Joins(a, wire, out) /\ Joins(b, stream, data)
      BY <3>4, <3>6 DEF Joins
    <3>8. a = b
      BY <3>3, <3>7, StreamGoesOn
    <3> QED BY <3>5, <3>6, <3>8
  <2>10. ~ Dropped(r)
    BY <1>3, <1>6 DEF Dropped, S!AsksKernel, S!Fails
  <2>11. PICK s : s = [x EXCEPT !.wire = wire]
    OBVIOUS
  <2>12. s = S!Taken(x, data, m) /\ left = S!Left(data, m)
    BY <1>3, <2>3, <2>4, <2>7, <2>11 DEF S!Taken, S!Left
  <2>13. sent = IF left = <<>> THEN s
                ELSE S!Watch([s EXCEPT !.out = @ \o left], s.events \cup {"write"})
    BY <1>3, <1>6, <2>1, <2>12 DEF S!SendInLoop
  <2>14. /\ s \in S!Connection /\ s.state = "connected" /\ s.index = r.index /\ s.fin = r.fin
         /\ s.events = r.events /\ s.out = r.out /\ s.wire = wire /\ s.sent = r.sent + Chunks
    BY <1>3, <2>9, <2>11 DEF S!Connection
  <2>15. CASE left = <<>>
    <3>1. sent = s
      BY <2>13, <2>15
    <3>2. out = r.out
      BY <1>1, <2>8, <2>15, ConcatEmptySeq
    <3>3. Stream(s) = Stream(r) \o data
      BY <2>9, <2>14, <3>2 DEF Stream
    <3>4. "read" \in s.events /\ (s.out # <<>> <=> "write" \in s.events)
      BY <1>1, <2>14 DEF Open
    <3>5. RecordOk(s) /\ MildTo(r, s)
      BY <1>4, <2>10, <2>14, <3>3, <3>4, SendsOn
    <3> QED BY <3>1, <3>5
  <2>16. CASE left # <<>>
    <3>1. PICK e : e = s.events \cup {"write"}
      OBVIOUS
    <3>2. PICK t : t = [s EXCEPT !.out = out, !.events = e, !.index = "add"]
      OBVIOUS
    <3>3. e \in SUBSET {"read", "write"} /\ "read" \in e /\ "write" \in e
      BY <1>1, <2>14, <3>1 DEF Open, S!Connection
    <3>4. sent = t
      BY <2>8, <2>13, <2>14, <2>16, <3>1, <3>2, <3>3 DEF S!Watch, S!Connection
    <3>5. /\ t \in S!Connection /\ t.state = "connected" /\ t.index = "add" /\ t.fin = r.fin
          /\ t.events = e /\ t.out = out /\ t.wire = wire /\ t.sent = r.sent + Chunks
      BY <2>9, <2>14, <3>2, <3>3 DEF S!Connection
    <3>6. Stream(t) = Stream(r) \o data
      BY <2>9, <3>5 DEF Stream
    <3>7. out # <<>> /\ r.index = "add"
      <4>1. out # <<>>
        BY <1>1, <2>5, <2>8, <2>16, ConcatEqualIffEmpty
      <4>2. r.index = "add"
        BY <1>1 DEF ChannelIs, Open
      <4> QED BY <4>1, <4>2
    <3>8. RecordOk(t) /\ MildTo(r, t)
      BY <1>4, <2>10, <3>3, <3>5, <3>6, <3>7, SendsOn
    <3> QED BY <3>4, <3>8
  <2> QED BY <2>15, <2>16
<1> QED BY <1>5, <1>6

LEMMA SendOk ==
  ASSUME NEW r, RecordOk(r), NEW n \in 0..Chunks
  PROVE  RecordOk(S!Send(r, n)) /\ MildTo(r, S!Send(r, n))
<1>1. CASE r.state # "connected"
  <2>1. S!Send(r, n) = r
    BY <1>1 DEF S!Send
  <2> QED BY <2>1 DEF MildTo
<1>2. CASE r.state = "connected"
  <2>1. PICK x : x = [r EXCEPT !.sent = r.sent + Chunks]
    OBVIOUS
  <2>2. PICK data : data = [k \in 1..Chunks |-> r.sent + k]
    OBVIOUS
  <2>3. PICK idle \in BOOLEAN : idle <=> S!AsksKernel(x)
    OBVIOUS
  <2>4. S!Send(r, n) = S!SendInLoop(x, data, n)
    BY <1>2, <2>1, <2>2 DEF S!Send
  <2>5. RecordOk(S!SendInLoop(x, data, n)) /\ MildTo(r, S!SendInLoop(x, data, n))
    BY <1>2, <2>1, <2>2, <2>3, SendInLoopOk
  <2> QED BY <2>4, <2>5
<1> QED BY <1>1, <1>2

LEMMA MildTransitive ==
  ASSUME NEW r, NEW s, NEW t, MildTo(r, s), MildTo(s, t) PROVE MildTo(r, t)
  BY DEF MildTo

LEMMA CallsOk ==
  ASSUME NEW r, RecordOk(r), NEW n \in 0..Chunks, NEW t \in S!Calls(r, n)
  PROVE  RecordOk(t) /\ MildTo(r, t)
<1>1. \E s \in {r, S!Send(r, n)} : t = s \/ t = S!Shutdown(s)
  BY DEF S!Calls
<1>2. PICK s : s \in {r, S!Send(r, n)} /\ (t = s \/ t = S!Shutdown(s))
  BY <1>1
<1>3. RecordOk(s) /\ MildTo(r, s)
  BY <1>2, SendOk DEF MildTo
<1>4. RecordOk(S!Shutdown(s)) /\ MildTo(s, S!Shutdown(s))
  BY <1>3, ShutdownOk
<1> QED BY <1>2, <1>3, <1>4, MildTransitive

\* The kernel takes more of the output of an open connection, from r to s.
LEMMA WrittenOk ==
  ASSUME NEW r, RecordOk(r), "write" \in r.events, NEW n \in 0..Len(r.out)
  PROVE  RecordOk(S!Written(r, n)) /\ MildTo(r, S!Written(r, n))
<1>1. CASE n = 0 \/ S!Fails(r)
  <2>1. S!Written(r, n) = r
    BY <1>1 DEF S!Written
  <2> QED BY <2>1 DEF MildTo
<1>2. CASE ~ (n = 0 \/ S!Fails(r))
  <2>1. /\ r \in S!Connection /\ ChannelIs(r) /\ OutputIs(r) /\ Open(r) /\ ~ r.fin
        /\ r.out \in Seq(Nat) /\ r.wire \in Seq(Nat) /\ r.index = "add" /\ ~ Dropped(r)
        /\ r.state \in {"connected", "disconnecting"}
    BY <1>2, ConnectionFields DEF RecordOk, ChannelIs, OutputIs, Open, Dropped, S!Fails
  <2>2. PICK o : o = r.out
    OBVIOUS
  <2>3. PICK w : w = r.wire
    OBVIOUS
  <2>4. PICK taken : taken = SubSeq(o, 1, n)
    OBVIOUS
  <2>5. PICK left : left = SubSeq(o, n + 1, Len(o))
    OBVIOUS
  <2>6. /\ o \in Seq(Nat) /\ w \in Seq(Nat) /\ n \in 0..Len(o)
        /\ taken \in Seq(Nat) /\ left \in Seq(Nat) /\ taken \o left = o
    BY <2>1, <2>2, <2>3, <2>4, <2>5, SplitIn
  <2>7. PICK wire : wire = w \o taken
    OBVIOUS
  <2>8. wire \in Seq(Nat)
    BY <2>6, <2>7, ConcatProperties
  <2>9. wire \o left = Stream(r)
    <3>1. PICK a, b : a = wire \o left /\ b = w \o o
      OBVIOUS
    <3>2. Joins(wire, w, taken) /\ Joins(o, taken, left) /\ Joins(a, wire, left) /\ Joins(b, w, o)
      BY <2>6, <2>7, <3>1 DEF Joins
    <3>3. w \in Seq(Nat) /\ taken \in Seq(Nat) /\ left \in Seq(Nat)
      BY <2>6
    <3>4. a = b
      BY <3>2, <3>3, Associative
    <3> QED BY <2>2, <2>3, <3>1, <3>4 DEF Stream
  <2>10. PICK s : s = [r EXCEPT !.wire = wire, !.out = left]
    OBVIOUS
  <2>11. /\ s \in S!Connection /\ s.state = r.state /\ s.events = r.events /\ s.index = r.index
         /\ s.out = left /\ s.wire = wire /\ s.fin = r.fin /\ s.sent = r.sent
    BY <2>1, <2>6, <2>8, <2>10 DEF S!Connection
  <2>12. s = [S!Taken(r, r.out, n) EXCEPT !.out = S!Left(r.out, n)]
    BY <2>1, <2>2, <2>3, <2>4, <2>5, <2>7, <2>10 DEF S!Taken, S!Left
  <2>13. PICK e : e = s.events \ {"write"}
    OBVIOUS
  <2>14. PICK t : t = [s EXCEPT !.events = e, !.index = "add"]
    OBVIOUS
  <2>15. e = {"read"}
    BY <2>1, <2>11, <2>13 DEF Open, S!Connection
  <2>16. t = S!Watch(s, s.events \ {"write"})
    BY <2>13, <2>14, <2>15 DEF S!Watch
  <2>17. /\ t \in S!Connection /\ t.state = r.state /\ t.events = {"read"} /\ t.index = "add"
         /\ t.out = left /\ t.wire = wire /\ t.fin = r.fin /\ t.sent = r.sent
    BY <2>11, <2>14, <2>15 DEF S!Connection
  <2>18. S!Written(r, n) = IF s.out # <<>> THEN s
                           ELSE IF s.state = "disconnecting" THEN S!ShutdownInLoop(t) ELSE t
    BY <1>2, <2>12, <2>16 DEF S!Written
  <2>19. CASE left # <<>>
    <3>1. S!Written(r, n) = s
      BY <2>11, <2>18, <2>19
    <3>2. Stream(s) = Stream(r) /\ "read" \in s.events /\ "write" \in s.events
      BY <2>1, <2>9, <2>11 DEF Stream, Open
    <3>3. ChannelIs(s) /\ FreshIs(s) /\ MildTo(r, s)
      BY <2>1, <2>11, <3>2 DEF ChannelIs, FreshIs, MildTo, Open
    <3>4. OutputIs(s)
      BY <2>1, <2>11, <2>19, <3>2 DEF OutputIs, Open
    <3> QED BY <2>11, <3>1, <3>3, <3>4 DEF RecordOk
  <2>20. CASE left = <<>>
    <3>1. S!Written(r, n) = IF t.state = "disconnecting" THEN S!ShutdownInLoop(t) ELSE t
      BY <2>11, <2>17, <2>18, <2>20
    <3>2. Stream(t) = Stream(r) /\ "read" \in t.events /\ "write" \notin t.events
      BY <2>9, <2>17 DEF Stream
    <3>3. ChannelIs(t) /\ FreshIs(t) /\ MildTo(r, t)
      BY <2>1, <2>17, <3>2 DEF ChannelIs, FreshIs, MildTo, Open
    <3>4. OutputIs(t)
      BY <2>1, <2>17, <2>20, <3>2 DEF OutputIs, Open
    <3>5. RecordOk(t)
      BY <2>17, <3>3, <3>4 DEF RecordOk
    <3>6. CASE t.state = "disconnecting"
      <4>1. RecordOk(S!ShutdownInLoop(t)) /\ MildTo(t, S!ShutdownInLoop(t))
        BY <3>5, <3>6, ShutdownInLoopOk
      <4>2. S!Written(r, n) = S!ShutdownInLoop(t)
        BY <3>1, <3>6
      <4> QED BY <3>3, <4>1, <4>2, MildTransitive
    <3>7. CASE t.state # "disconnecting"
      <4>1. S!Written(r, n) = t
        BY <3>1, <3>7
      <4> QED BY <3>3, <3>5, <4>1
    <3> QED BY <3>6, <3>7
  <2> QED BY <2>19, <2>20
<1> QED BY <1>1, <1>2

(***************************************************************************)
(* The server.  A connection that is open or on its way is in the table,   *)
(* each functor that waits meets the connection in the state it is made    *)
(* for, in the loop it belongs to, and before the one that destroys it.    *)
(***************************************************************************)

Over(r) == r.events = {} /\ r.index = "del"

PlaceOk(c, r, l, t) ==
    /\ r.state = "none" => c \notin t
    /\ r.state = "connecting" => c \in t /\ l # Base
    /\ Open(r) => c \in t

ObjectsOk(cs, ls, t) ==
    /\ cs = [c \in Conn |-> cs[c]] /\ ls \in [Conn -> S!Loop] /\ t \subseteq Conn
    /\ \A c \in Conn : RecordOk(cs[c]) /\ PlaceOk(c, cs[c], ls[c], t)

\* The timer of the accepting loop is in the middle of a shutdown.
ClosingOk(cl, cs, ls, t) == cl # NULL =>
    /\ cl \in [conn : Conn, at : {"checked", "set"}]
    /\ cl.conn \in t /\ ls[cl.conn] # Base
    /\ cs[cl.conn].state \in {"connected", "disconnecting", "disconnected"}
    /\ cl.at = "set" => cs[cl.conn].state # "connected"

FunctorOk(f, l, cs, ls, t) ==
    /\ f.do = "establish" => cs[f.conn].state = "connecting" /\ l = ls[f.conn]
    /\ f.do = "remove" => l = Base /\ f.conn \in t /\ ls[f.conn] # Base /\ Over(cs[f.conn])
    /\ f.do = "destroy" => l = ls[f.conn] /\ f.conn \notin t /\ Over(cs[f.conn])
    /\ f.do = "shutdown" =>
          l = ls[f.conn] /\ l # Base /\ cs[f.conn].state \in {"disconnecting", "disconnected"}

\* What is not a shutdown is queued once, and a shutdown ahead of the end.
OnceOk(s) == \A j, k \in 1..Len(s) : s[j] = s[k] /\ s[j].do # "shutdown" => j = k
LiveOk(s, t) == \A k \in 1..Len(s) : s[k].do = "shutdown" =>
    \/ s[k].conn \in t
    \/ \E j \in 1..Len(s) : k < j /\ s[j] = S!Do("destroy", s[k].conn)

QueueOk(l, s, cs, ls, t) ==
    /\ s \in Seq(S!Functor) /\ OnceOk(s) /\ LiveOk(s, t)
    /\ \A k \in 1..Len(s) : FunctorOk(s[k], l, cs, ls, t)

QueuesOk(q, cs, ls, t) ==
    q = [l \in S!Loop |-> q[l]] /\ \A l \in S!Loop : QueueOk(l, q[l], cs, ls, t)

ServerInv ==
    /\ pool \in {{}, Io} /\ timers \subseteq Conn
    /\ ObjectsOk(conn, loop, table) /\ ClosingOk(closing, conn, loop, table)
    /\ QueuesOk(queue, conn, loop, table)

\* Functor f is in one of the queues.
Waits(f, q) == \E l \in S!Loop : \E k \in 1..Len(q[l]) : q[l][k] = f

LEMMA ServerInit == S!Init => ServerInv
<1> SUFFICES ASSUME S!Init PROVE ServerInv
  OBVIOUS
<1>1. PICK none : none = <<>>
  OBVIOUS
<1>2. none \in Seq(S!Functor) /\ Len(none) = 0
  BY <1>1
<1>3. queue = [l \in S!Loop |-> none]
  BY <1>1 DEF S!Init
<1>4. \A k : k \notin 1..Len(none)
  BY <1>2
<1>5. ASSUME NEW l \in S!Loop PROVE QueueOk(l, none, conn, loop, table)
  BY <1>2, <1>4 DEF QueueOk, OnceOk, LiveOk
<1>6. QueuesOk(queue, conn, loop, table)
  BY <1>3, <1>5 DEF QueuesOk
<1>7. ASSUME NEW c \in Conn PROVE RecordOk(conn[c]) /\ PlaceOk(c, conn[c], loop[c], table)
  <2>1. PICK r : r = conn[c]
    OBVIOUS
  <2>2. r = S!New /\ table = {}
    BY <2>1 DEF S!Init
  <2>3. RecordOk(r) /\ r.state = "none"
    BY <2>2, NewIsOk
  <2>4. ~ Open(r)
    BY <2>3 DEF RecordOk, ChannelIs
  <2> QED BY <2>1, <2>2, <2>3, <2>4 DEF PlaceOk
<1>8. ObjectsOk(conn, loop, table)
  BY <1>7 DEF ObjectsOk, S!Init, S!Loop
<1>9. ClosingOk(closing, conn, loop, table) /\ pool \in {{}, Io} /\ timers \subseteq Conn
  BY DEF ClosingOk, S!Init
<1> QED BY <1>6, <1>8, <1>9 DEF ServerInv

\* When objects change, what is queued stays right if each functor does.
LEMMA QueuesFollow ==
  ASSUME NEW q, NEW cs, NEW ls, NEW t, QueuesOk(q, cs, ls, t), NEW ds, NEW ms, NEW u,
         \A l \in S!Loop : \A k \in 1..Len(q[l]) :
             /\ FunctorOk(q[l][k], l, ds, ms, u)
             /\ q[l][k].do = "shutdown" /\ q[l][k].conn \in t => q[l][k].conn \in u
  PROVE  QueuesOk(q, ds, ms, u)
<1>1. ASSUME NEW l \in S!Loop PROVE QueueOk(l, q[l], ds, ms, u)
  <2>1. QueueOk(l, q[l], cs, ls, t)
    BY DEF QueuesOk
  <2>2. LiveOk(q[l], u)
    BY <2>1 DEF QueueOk, LiveOk
  <2> QED BY <2>1, <2>2 DEF QueueOk
<1> QED BY <1>1 DEF QueuesOk

LEMMA QueueAppend ==
  ASSUME NEW l, NEW s, NEW cs, NEW ls, NEW t, QueueOk(l, s, cs, ls, t),
         NEW f \in S!Functor, FunctorOk(f, l, cs, ls, t),
         f.do = "shutdown" => f.conn \in t,
         f.do # "shutdown" => \A k \in 1..Len(s) : s[k] # f
  PROVE  QueueOk(l, Append(s, f), cs, ls, t)
<1>1. PICK a : a = Append(s, f)
  OBVIOUS
<1>2. /\ a \in Seq(S!Functor) /\ Len(a) = Len(s) + 1 /\ a[Len(s) + 1] = f /\ Len(s) \in Nat
      /\ \A k \in 1..Len(s) : a[k] = s[k]
  BY <1>1 DEF QueueOk
<1>3. \A k \in 1..Len(a) : k \in 1..Len(s) \/ k = Len(s) + 1
  BY <1>2
<1>4. \A k \in 1..Len(a) : FunctorOk(a[k], l, cs, ls, t)
  BY <1>2, <1>3 DEF QueueOk
<1>5. OnceOk(a)
  BY <1>2, <1>3 DEF QueueOk, OnceOk
<1>6. LiveOk(a, t)
  <2>1. \A k \in 1..Len(s) : k \in 1..Len(a)
    BY <1>2
  <2> QED BY <1>2, <1>3, <2>1 DEF QueueOk, LiveOk
<1> QED BY <1>1, <1>2, <1>4, <1>5, <1>6 DEF QueueOk

LEMMA QueueTail ==
  ASSUME NEW l, NEW s, NEW cs, NEW ls, NEW t, QueueOk(l, s, cs, ls, t), s # <<>>
  PROVE  /\ QueueOk(l, Tail(s), cs, ls, t)
         /\ Head(s) \in S!Functor /\ FunctorOk(Head(s), l, cs, ls, t)
         /\ Head(s).do # "shutdown" => \A k \in 1..Len(Tail(s)) : Tail(s)[k] # Head(s)
<1>1. PICK b : b = Tail(s)
  OBVIOUS
<1>2. /\ b \in Seq(S!Functor) /\ Len(s) = Len(b) + 1 /\ Head(s) = s[1] /\ Len(b) \in Nat
      /\ \A k \in 1..Len(b) : b[k] = s[k + 1]
      /\ s[1] \in S!Functor
  BY <1>1, HeadTailProperties DEF QueueOk
<1>3. /\ 1 \in 1..Len(s)
      /\ \A k \in 1..Len(b) : k + 1 \in 1..Len(s) /\ k + 1 # 1
      /\ \A j \in 1..Len(s) : j = 1 \/ j - 1 \in 1..Len(b)
      /\ \A j, k \in 1..Len(b) : j + 1 = k + 1 => j = k
  BY <1>2
<1>4. \A k \in 1..Len(b) : FunctorOk(b[k], l, cs, ls, t)
  BY <1>2, <1>3 DEF QueueOk
<1>5. OnceOk(b)
  BY <1>2, <1>3 DEF QueueOk, OnceOk
<1>6. LiveOk(b, t)
  <2> SUFFICES ASSUME NEW k \in 1..Len(b), b[k].do = "shutdown", b[k].conn \notin t
               PROVE  \E j \in 1..Len(b) : k < j /\ b[j] = S!Do("destroy", b[k].conn)
    BY DEF LiveOk
  <2>1. PICK i \in 1..Len(s) : k + 1 < i /\ s[i] = S!Do("destroy", b[k].conn)
    BY <1>2, <1>3 DEF QueueOk, LiveOk
  <2>2. PICK j : j = i - 1
    OBVIOUS
  <2>3. j \in 1..Len(b) /\ k < j /\ j + 1 = i
    BY <1>2, <2>1, <2>2
  <2>4. b[j] = s[i]
    BY <1>2, <2>3
  <2> QED BY <2>1, <2>3, <2>4
<1>7. s[1].do # "shutdown" => \A k \in 1..Len(b) : b[k] # s[1]
  BY <1>2, <1>3 DEF QueueOk, OnceOk
<1> QED BY <1>1, <1>2, <1>3, <1>4, <1>5, <1>6, <1>7 DEF QueueOk

(***************************************************************************)
(* What one change of a connection keeps of the rest.                      *)
(***************************************************************************)

\* Nothing of a connection that is not established waits anywhere, and an
\* open one is neither removed nor destroyed.
LEMMA OldHasNoFunctor ==
  ASSUME NEW f, NEW l, NEW cs, NEW ls, NEW t, FunctorOk(f, l, cs, ls, t),
         f.do \in {"establish", "remove", "destroy", "shutdown"}, RecordOk(cs[f.conn])
  PROVE  /\ cs[f.conn].state # "none"
         /\ cs[f.conn].state = "connecting" => f.do = "establish"
         /\ Open(cs[f.conn]) => f.do = "shutdown"
<1>1. cs[f.conn].state \in {"none", "connecting"} => cs[f.conn].index = "new" /\ ~ Open(cs[f.conn])
  BY DEF RecordOk, FreshIs, Open
<1>2. Open(cs[f.conn]) => cs[f.conn].events # {} /\ cs[f.conn].state # "connecting"
  BY DEF RecordOk, ChannelIs, Open
<1> QED BY <1>1, <1>2 DEF FunctorOk, Over

\* A call of the user or the peer changes nothing that the others rely on.
LEMMA MildOk ==
  ASSUME NEW cs, NEW ls, NEW t, ObjectsOk(cs, ls, t), NEW c \in Conn, NEW r, RecordOk(r),
         MildTo(cs[c], r), NEW ds, ds = [cs EXCEPT ![c] = r]
  PROVE  /\ ObjectsOk(ds, ls, t)
         /\ \A q : QueuesOk(q, cs, ls, t) => QueuesOk(q, ds, ls, t)
         /\ \A cl : ClosingOk(cl, cs, ls, t) => ClosingOk(cl, ds, ls, t)
<1>1. /\ \A d \in Conn \ {c} : ds[d] = cs[d]
      /\ ds[c] = r /\ ds = [d \in Conn |-> ds[d]]
  BY DEF ObjectsOk
<1>2. Open(r) <=> Open(cs[c])
  BY DEF ObjectsOk, RecordOk, ChannelIs, MildTo, Open
<1>3. PlaceOk(c, r, ls[c], t)
  BY <1>2 DEF ObjectsOk, PlaceOk, MildTo
<1>4. ObjectsOk(ds, ls, t)
  BY <1>1, <1>3 DEF ObjectsOk
<1>5. ASSUME NEW q, QueuesOk(q, cs, ls, t) PROVE QueuesOk(q, ds, ls, t)
  <2> SUFFICES ASSUME NEW l \in S!Loop, NEW k \in 1..Len(q[l]) PROVE FunctorOk(q[l][k], l, ds, ls, t)
    BY <1>5, QueuesFollow
  <2>1. PICK f : f = q[l][k]
    OBVIOUS
  <2>2. f \in S!Functor /\ FunctorOk(f, l, cs, ls, t)
    BY <1>5, <2>1 DEF QueuesOk, QueueOk
  <2>3. f.conn \in Conn
    BY <2>2 DEF S!Functor
  <2>4. CASE f.conn # c
    BY <1>1, <2>1, <2>2, <2>3, <2>4 DEF FunctorOk
  <2>5. CASE f.conn = c
    BY <1>1, <2>1, <2>2, <2>5 DEF FunctorOk, MildTo, Over
  <2> QED BY <2>4, <2>5
<1>6. ASSUME NEW cl, ClosingOk(cl, cs, ls, t) PROVE ClosingOk(cl, ds, ls, t)
  <2>1. CASE cl = NULL
    BY <2>1 DEF ClosingOk
  <2>2. CASE cl # NULL /\ cl.conn # c
    BY <1>1, <1>6, <2>2 DEF ClosingOk
  <2>3. CASE cl # NULL /\ cl.conn = c
    BY <1>1, <1>6, <2>3 DEF ClosingOk, MildTo
  <2> QED BY <2>1, <2>2, <2>3
<1> QED BY <1>4, <1>5, <1>6

\* A connection is created for loop m, to be established there.
LEMMA CreatesOk ==
  ASSUME NEW cs, NEW ls, NEW t, ObjectsOk(cs, ls, t), NEW c \in Conn, cs[c].state = "none",
         NEW m \in S!Loop, m # Base,
         NEW ds, ds = [cs EXCEPT ![c] = S!Create(cs[c])],
         NEW ms, ms = [ls EXCEPT ![c] = m],
         NEW q, QueuesOk(q, cs, ls, t),
         NEW p, p = [q EXCEPT ![m] = Append(q[m], S!Do("establish", c))]
  PROVE  ObjectsOk(ds, ms, t \cup {c}) /\ QueuesOk(p, ds, ms, t \cup {c})
<1>1. PICK r : r = S!Create(cs[c])
  OBVIOUS
<1>2. RecordOk(r) /\ r.state = "connecting" /\ ~ Open(r)
  <2>1. RecordOk(r) /\ r.state = "connecting"
    BY <1>1, CreateOk DEF ObjectsOk
  <2> QED BY <2>1 DEF RecordOk, FreshIs, Open
<1>3. /\ \A d \in Conn \ {c} : ds[d] = cs[d] /\ ms[d] = ls[d]
      /\ ds[c] = r /\ ms[c] = m /\ ds = [d \in Conn |-> ds[d]] /\ ms \in [Conn -> S!Loop]
  BY <1>1 DEF ObjectsOk
<1>4. ObjectsOk(ds, ms, t \cup {c})
  <2>1. ASSUME NEW d \in Conn PROVE RecordOk(ds[d]) /\ PlaceOk(d, ds[d], ms[d], t \cup {c})
    <3>1. CASE d = c
      BY <1>2, <1>3, <3>1 DEF PlaceOk
    <3>2. CASE d # c
      BY <1>3, <3>2 DEF ObjectsOk, PlaceOk
    <3> QED BY <3>1, <3>2
  <2> QED BY <1>3, <2>1 DEF ObjectsOk
<1>5. ASSUME NEW l \in S!Loop, NEW k \in 1..Len(q[l])
      PROVE  q[l][k].conn # c /\ FunctorOk(q[l][k], l, ds, ms, t \cup {c})
  <2>1. PICK f : f = q[l][k]
    OBVIOUS
  <2>2. f \in S!Functor /\ FunctorOk(f, l, cs, ls, t)
    BY <2>1 DEF QueuesOk, QueueOk
  <2>3. f.conn \in Conn /\ f.do \in {"establish", "remove", "destroy", "shutdown"}
    BY <2>2 DEF S!Functor
  <2>4. f.conn # c
    BY <2>2, <2>3, OldHasNoFunctor DEF ObjectsOk
  <2>5. FunctorOk(f, l, ds, ms, t \cup {c})
    BY <1>3, <2>2, <2>3, <2>4 DEF FunctorOk
  <2> QED BY <2>1, <2>4, <2>5
<1>6. QueuesOk(q, ds, ms, t \cup {c})
  BY <1>5, QueuesFollow
<1>7. PICK f : f = S!Do("establish", c)
  OBVIOUS
<1>8. f \in S!Functor /\ f.do = "establish" /\ f.conn = c
  BY <1>7 DEF S!Do, S!Functor
<1>9. FunctorOk(f, m, ds, ms, t \cup {c})
  BY <1>2, <1>3, <1>8 DEF FunctorOk
<1>10. QueueOk(m, Append(q[m], f), ds, ms, t \cup {c})
  <2>1. QueueOk(m, q[m], ds, ms, t \cup {c})
    BY <1>6 DEF QueuesOk
  <2>2. \A k \in 1..Len(q[m]) : q[m][k] # f
    BY <1>5, <1>8
  <2> QED BY <1>8, <1>9, <2>1, <2>2, QueueAppend
<1>11. QueuesOk(p, ds, ms, t \cup {c})
  BY <1>6, <1>7, <1>10 DEF QueuesOk
<1> QED BY <1>4, <1>11

\* A connection is established, that was created just now or is in the table.
LEMMA OpensOk ==
  ASSUME NEW cs, NEW ls, NEW t, ObjectsOk(cs, ls, t), NEW c \in Conn,
         NEW q, QueuesOk(q, cs, ls, t), ~ Waits(S!Do("establish", c), q),
         NEW cl, ClosingOk(cl, cs, ls, t), cs[c].state \in {"none", "connecting"},
         NEW r, RecordOk(r), r.state = "connected",
         NEW ds, ds = [cs EXCEPT ![c] = r]
  PROVE  /\ ObjectsOk(ds, ls, t \cup {c}) /\ QueuesOk(q, ds, ls, t \cup {c})
         /\ ClosingOk(cl, ds, ls, t \cup {c})
<1>1. /\ \A d \in Conn \ {c} : ds[d] = cs[d]
      /\ ds[c] = r /\ ds = [d \in Conn |-> ds[d]]
  BY DEF ObjectsOk
<1>2. ObjectsOk(ds, ls, t \cup {c})
  <2>1. ASSUME NEW d \in Conn PROVE RecordOk(ds[d]) /\ PlaceOk(d, ds[d], ls[d], t \cup {c})
    <3>1. CASE d = c
      BY <1>1, <3>1 DEF PlaceOk
    <3>2. CASE d # c
      BY <1>1, <3>2 DEF ObjectsOk, PlaceOk
    <3> QED BY <3>1, <3>2
  <2> QED BY <1>1, <2>1 DEF ObjectsOk
<1>3. ASSUME NEW l \in S!Loop, NEW k \in 1..Len(q[l])
      PROVE  FunctorOk(q[l][k], l, ds, ls, t \cup {c})
  <2>1. PICK f : f = q[l][k]
    OBVIOUS
  <2>2. f \in S!Functor /\ FunctorOk(f, l, cs, ls, t)
    BY <2>1 DEF QueuesOk, QueueOk
  <2>3. /\ f.conn \in Conn /\ f.do \in {"establish", "remove", "destroy", "shutdown"}
        /\ f = S!Do(f.do, f.conn)
    BY <2>2 DEF S!Functor, S!Do
  <2>4. f.conn # c
    <3>1. f.conn = c => f.do = "establish"
      BY <2>2, <2>3, OldHasNoFunctor DEF ObjectsOk
    <3>2. f # S!Do("establish", c)
      BY <2>1 DEF Waits
    <3> QED BY <2>3, <3>1, <3>2
  <2>5. FunctorOk(f, l, ds, ls, t \cup {c})
    BY <1>1, <2>2, <2>3, <2>4 DEF FunctorOk
  <2> QED BY <2>1, <2>5
<1>4. QueuesOk(q, ds, ls, t \cup {c})
  BY <1>3, QueuesFollow
<1>5. ClosingOk(cl, ds, ls, t \cup {c})
  <2>1. CASE cl = NULL
    BY <2>1 DEF ClosingOk
  <2>2. CASE cl # NULL
    <3>1. cl.conn \in Conn /\ cl.conn # c
      BY <2>2 DEF ClosingOk, ObjectsOk
    <3> QED BY <1>1, <2>2, <3>1 DEF ClosingOk
  <2> QED BY <2>1, <2>2
<1> QED BY <1>2, <1>4, <1>5

\* ds is cs with c closed.
Closes(ds, cs, c) == ds = [cs EXCEPT ![c] = S!Closed(cs[c])]

\* An open connection is closed: nothing removes or destroys it yet.
LEMMA ClosesOk ==
  ASSUME NEW cs, NEW ls, NEW t, ObjectsOk(cs, ls, t), NEW c \in Conn, Open(cs[c]),
         NEW q, QueuesOk(q, cs, ls, t), NEW cl, ClosingOk(cl, cs, ls, t),
         NEW ds, Closes(ds, cs, c)
  PROVE  /\ ObjectsOk(ds, ls, t) /\ QueuesOk(q, ds, ls, t) /\ ClosingOk(cl, ds, ls, t)
         /\ ~ Waits(S!Do("remove", c), q) /\ ~ Waits(S!Do("destroy", c), q)
         /\ Over(ds[c]) /\ c \in t
<1>1. PICK r : r = S!Closed(cs[c])
  OBVIOUS
<1>2. RecordOk(r) /\ r.state = "disconnected" /\ Over(r) /\ ~ Open(r)
  BY <1>1, ClosedOk DEF ObjectsOk, Over, Open
<1>3. /\ \A d \in Conn \ {c} : ds[d] = cs[d]
      /\ ds[c] = r /\ ds = [d \in Conn |-> ds[d]]
  BY <1>1 DEF ObjectsOk, Closes
<1>4. c \in t
  BY DEF ObjectsOk, PlaceOk
<1>5. ObjectsOk(ds, ls, t)
  <2>1. PlaceOk(c, r, ls[c], t)
    BY <1>2 DEF PlaceOk
  <2> QED BY <1>2, <1>3, <2>1 DEF ObjectsOk
<1>6. ASSUME NEW l \in S!Loop, NEW k \in 1..Len(q[l])
      PROVE  /\ FunctorOk(q[l][k], l, ds, ls, t)
             /\ q[l][k].conn = c => q[l][k].do = "shutdown"
  <2>1. PICK f : f = q[l][k]
    OBVIOUS
  <2>2. f \in S!Functor /\ FunctorOk(f, l, cs, ls, t)
    BY <2>1 DEF QueuesOk, QueueOk
  <2>3. f.conn \in Conn /\ f.do \in {"establish", "remove", "destroy", "shutdown"}
    BY <2>2 DEF S!Functor
  <2>4. f.conn = c => f.do = "shutdown"
    BY <2>2, <2>3, OldHasNoFunctor DEF ObjectsOk
  <2>5. FunctorOk(f, l, ds, ls, t)
    BY <1>2, <1>3, <2>2, <2>3, <2>4 DEF FunctorOk
  <2> QED BY <2>1, <2>4, <2>5
<1>7. QueuesOk(q, ds, ls, t)
  BY <1>6, QueuesFollow
<1>8. ~ Waits(S!Do("remove", c), q) /\ ~ Waits(S!Do("destroy", c), q)
  BY <1>6 DEF Waits, S!Do
<1>9. ClosingOk(cl, ds, ls, t)
  <2>1. CASE cl = NULL
    BY <2>1 DEF ClosingOk
  <2>2. CASE cl # NULL /\ cl.conn = c
    BY <1>2, <1>3, <2>2 DEF ClosingOk
  <2>3. CASE cl # NULL /\ cl.conn # c
    BY <1>3, <2>3 DEF ClosingOk
  <2> QED BY <2>1, <2>2, <2>3
<1> QED BY <1>2, <1>3, <1>4, <1>5, <1>7, <1>8, <1>9

\* It is taken out of the table, and its end is queued in its own loop.
LEMMA RemovesOk ==
  ASSUME NEW cs, NEW ls, NEW t, ObjectsOk(cs, ls, t), NEW c \in Conn, Over(cs[c]), c \in t,
         NEW q, QueuesOk(q, cs, ls, t), ~ Waits(S!Do("remove", c), q),
         NEW cl, ClosingOk(cl, cs, ls, t), cl = NULL \/ ls[c] = Base,
         NEW p, p = [q EXCEPT ![ls[c]] = Append(q[ls[c]], S!Do("destroy", c))]
  PROVE  /\ ObjectsOk(cs, ls, t \ {c}) /\ QueuesOk(p, cs, ls, t \ {c})
         /\ ClosingOk(cl, cs, ls, t \ {c})
<1>1. PICK u : u = t \ {c}
  OBVIOUS
<1>2. PICK m : m = ls[c]
  OBVIOUS
<1>3. m \in S!Loop /\ cs[c].state \notin {"none", "connecting"} /\ ~ Open(cs[c])
  BY <1>2 DEF ObjectsOk, RecordOk, FreshIs, Over, Open
<1>4. ObjectsOk(cs, ls, u)
  <2>1. ASSUME NEW d \in Conn PROVE PlaceOk(d, cs[d], ls[d], u)
    BY <1>1, <1>3 DEF ObjectsOk, PlaceOk
  <2> QED BY <1>1, <2>1 DEF ObjectsOk
<1>5. ClosingOk(cl, cs, ls, u)
  BY <1>1 DEF ClosingOk
<1>6. PICK f : f = S!Do("destroy", c)
  OBVIOUS
<1>7. f \in S!Functor /\ f.do = "destroy" /\ f.conn = c
  BY <1>6 DEF S!Do, S!Functor
<1>8. ASSUME NEW l \in S!Loop, NEW k \in 1..Len(q[l])
      PROVE  /\ FunctorOk(q[l][k], l, cs, ls, u) /\ q[l][k] # f
             /\ q[l][k].do = "shutdown" /\ q[l][k].conn = c => l = m
  <2>1. PICK g : g = q[l][k]
    OBVIOUS
  <2>2. g \in S!Functor /\ FunctorOk(g, l, cs, ls, t)
    BY <2>1 DEF QueuesOk, QueueOk
  <2>3. g.conn \in Conn /\ g = S!Do(g.do, g.conn)
    BY <2>2 DEF S!Functor, S!Do
  <2>4. g # S!Do("remove", c)
    BY <2>1 DEF Waits
  <2>5. g # f
    BY <1>7, <2>2 DEF FunctorOk
  <2>6. FunctorOk(g, l, cs, ls, u)
    BY <1>1, <2>2, <2>3, <2>4 DEF FunctorOk
  <2>7. g.do = "shutdown" /\ g.conn = c => l = m
    BY <1>2, <2>2 DEF FunctorOk
  <2> QED BY <2>1, <2>5, <2>6, <2>7
<1>9. ASSUME NEW l \in S!Loop, l # m PROVE QueueOk(l, q[l], cs, ls, u)
  <2>1. QueueOk(l, q[l], cs, ls, t)
    BY DEF QueuesOk
  <2>2. LiveOk(q[l], u)
    BY <1>1, <1>8, <1>9, <2>1 DEF QueueOk, LiveOk
  <2> QED BY <1>8, <2>1, <2>2 DEF QueueOk
<1>10. QueueOk(m, Append(q[m], f), cs, ls, u)
  <2>1. PICK s : s = q[m]
    OBVIOUS
  <2>2. QueueOk(m, s, cs, ls, t)
    BY <1>3, <2>1 DEF QueuesOk
  <2>3. PICK a : a = Append(s, f)
    OBVIOUS
  <2>4. /\ a \in Seq(S!Functor) /\ Len(a) = Len(s) + 1 /\ a[Len(s) + 1] = f /\ Len(s) \in Nat
        /\ \A k \in 1..Len(s) : a[k] = s[k]
    BY <1>7, <2>2, <2>3 DEF QueueOk
  <2>5. \A k \in 1..Len(a) : k \in 1..Len(s) \/ k = Len(s) + 1
    BY <2>4
  <2>6. \A k \in 1..Len(s) : s[k] # f /\ FunctorOk(s[k], m, cs, ls, u)
    BY <1>3, <1>8, <2>1
  <2>7. FunctorOk(f, m, cs, ls, u)
    BY <1>1, <1>2, <1>7 DEF FunctorOk
  <2>8. \A k \in 1..Len(a) : FunctorOk(a[k], m, cs, ls, u)
    BY <2>4, <2>5, <2>6, <2>7
  <2>9. OnceOk(a)
    BY <2>2, <2>4, <2>5, <2>6 DEF QueueOk, OnceOk
  <2>10. LiveOk(a, u)
    <3> SUFFICES ASSUME NEW k \in 1..Len(a), a[k].do = "shutdown", a[k].conn \notin u
                 PROVE  \E j \in 1..Len(a) : k < j /\ a[j] = S!Do("destroy", a[k].conn)
      BY DEF LiveOk
    <3>1. k \in 1..Len(s) /\ a[k] = s[k] /\ k < Len(s) + 1 /\ Len(s) + 1 \in 1..Len(a)
      BY <1>7, <2>4, <2>5
    <3>2. CASE s[k].conn = c
      BY <1>6, <2>4, <3>1, <3>2
    <3>3. CASE s[k].conn # c
      <4>1. s[k].conn \notin t
        BY <1>1, <3>1, <3>3
      <4>2. PICK j \in 1..Len(s) : k < j /\ s[j] = S!Do("destroy", s[k].conn)
        BY <2>2, <3>1, <4>1 DEF QueueOk, LiveOk
      <4>3. j \in 1..Len(a) /\ a[j] = s[j]
        BY <2>4
      <4> QED BY <3>1, <4>2, <4>3
    <3> QED BY <3>2, <3>3
  <2> QED BY <2>1, <2>3, <2>4, <2>8, <2>9, <2>10 DEF QueueOk
<1>11. QueuesOk(p, cs, ls, u)
  BY <1>2, <1>3, <1>6, <1>9, <1>10 DEF QueuesOk
<1> QED BY <1>1, <1>4, <1>5, <1>11

\* It is destroyed.
LEMMA DestroysOk ==
  ASSUME NEW cs, NEW ls, NEW t, ObjectsOk(cs, ls, t), NEW c \in Conn, Over(cs[c]), c \notin t,
         NEW q, QueuesOk(q, cs, ls, t), ~ Waits(S!Do("destroy", c), q),
         NEW cl, ClosingOk(cl, cs, ls, t),
         NEW ds, ds = [cs EXCEPT ![c] = S!Destroyed(cs[c])]
  PROVE  ObjectsOk(ds, ls, t) /\ QueuesOk(q, ds, ls, t) /\ ClosingOk(cl, ds, ls, t)
<1>1. PICK r : r = S!Destroyed(cs[c])
  OBVIOUS
<1>2. /\ RecordOk(r) /\ r.state = cs[c].state /\ ~ Open(r)
      /\ r.state \in {"disconnecting", "disconnected"}
  BY <1>1, DestroyedOk DEF ObjectsOk, Over, Open
<1>3. /\ \A d \in Conn \ {c} : ds[d] = cs[d]
      /\ ds[c] = r /\ ds = [d \in Conn |-> ds[d]]
  BY <1>1 DEF ObjectsOk
<1>4. ObjectsOk(ds, ls, t)
  <2>1. PlaceOk(c, r, ls[c], t)
    BY <1>2 DEF PlaceOk
  <2> QED BY <1>2, <1>3, <2>1 DEF ObjectsOk
<1>5. ASSUME NEW l \in S!Loop, NEW k \in 1..Len(q[l]) PROVE FunctorOk(q[l][k], l, ds, ls, t)
  <2>1. PICK f : f = q[l][k]
    OBVIOUS
  <2>2. f \in S!Functor /\ FunctorOk(f, l, cs, ls, t)
    BY <2>1 DEF QueuesOk, QueueOk
  <2>3. f.conn \in Conn /\ f = S!Do(f.do, f.conn)
    BY <2>2 DEF S!Functor, S!Do
  <2>4. f # S!Do("destroy", c)
    BY <2>1 DEF Waits
  <2>5. CASE f.conn # c
    BY <1>3, <2>1, <2>2, <2>3, <2>5 DEF FunctorOk
  <2>6. CASE f.conn = c
    <3>1. f.do \notin {"establish", "remove", "destroy"}
      BY <1>2, <2>2, <2>3, <2>4, <2>6 DEF FunctorOk
    <3> QED BY <1>2, <1>3, <2>1, <2>2, <2>6, <3>1 DEF FunctorOk
  <2> QED BY <2>5, <2>6
<1>6. QueuesOk(q, ds, ls, t)
  BY <1>5, QueuesFollow
<1>7. ClosingOk(cl, ds, ls, t)
  <2>1. CASE cl = NULL
    BY <2>1 DEF ClosingOk
  <2>2. CASE cl # NULL
    <3>1. cl.conn \in Conn /\ cl.conn # c
      BY <2>2 DEF ClosingOk, ObjectsOk
    <3> QED BY <1>3, <2>2, <3>1 DEF ClosingOk
  <2> QED BY <2>1, <2>2
<1> QED BY <1>4, <1>6, <1>7

(***************************************************************************)
(* The steps of the server.                                                *)
(***************************************************************************)

\* The first functor of a queue is taken out: it waits nowhere else.
LEMMA HeadOk ==
  ASSUME NEW q, NEW cs, NEW ls, NEW t, QueuesOk(q, cs, ls, t), NEW l \in S!Loop, q[l] # <<>>,
         NEW p, p = [q EXCEPT ![l] = Tail(q[l])], NEW f, f = Head(q[l])
  PROVE  /\ QueuesOk(p, cs, ls, t) /\ f \in S!Functor /\ FunctorOk(f, l, cs, ls, t)
         /\ f.do # "shutdown" => ~ Waits(f, p)
<1>1. PICK s : s = q[l]
  OBVIOUS
<1>2. QueueOk(l, s, cs, ls, t) /\ s # <<>>
  BY <1>1 DEF QueuesOk
<1>3. PICK b : b = Tail(s)
  OBVIOUS
<1>4. /\ QueueOk(l, b, cs, ls, t) /\ f \in S!Functor /\ FunctorOk(f, l, cs, ls, t)
      /\ f.do # "shutdown" => \A k \in 1..Len(b) : b[k] # f
  BY <1>1, <1>2, <1>3, QueueTail
<1>5. /\ p = [m \in S!Loop |-> p[m]] /\ p[l] = b
      /\ \A m \in S!Loop \ {l} : p[m] = q[m]
  BY <1>1, <1>3 DEF QueuesOk
<1>6. QueuesOk(p, cs, ls, t)
  BY <1>4, <1>5 DEF QueuesOk
<1>7. ASSUME f.do # "shutdown", NEW m \in S!Loop, NEW k \in 1..Len(p[m]), p[m][k] = f
      PROVE  FALSE
  <2>1. FunctorOk(f, m, cs, ls, t)
    BY <1>6, <1>7 DEF QueuesOk, QueueOk
  <2>2. f.do \in {"establish", "remove", "destroy"}
    BY <1>4, <1>7 DEF S!Functor
  <2>3. m = l
    BY <1>4, <2>1, <2>2 DEF FunctorOk
  <2> QED BY <1>4, <1>5, <1>7, <2>3
<1> QED BY <1>4, <1>6, <1>7 DEF Waits

LEMMA UserCallOk ==
  ASSUME NEW c \in Conn, NEW r, RecordOk(r), S!UserCall(c, r), timers \subseteq Conn,
         conn = [d \in Conn |-> conn[d]], NEW cs, cs = [conn EXCEPT ![c] = r],
         NEW ls, NEW t, NEW q, NEW cl, ObjectsOk(cs, ls, t), QueuesOk(q, cs, ls, t),
         ClosingOk(cl, cs, ls, t)
  PROVE  /\ ObjectsOk(conn', ls, t) /\ QueuesOk(q, conn', ls, t) /\ ClosingOk(cl, conn', ls, t)
         /\ timers' \subseteq Conn
<1>1. PICK n \in 0..Chunks : \E s \in S!Calls(r, n) : conn' = [conn EXCEPT ![c] = s]
  BY DEF S!UserCall
<1>2. PICK s \in S!Calls(r, n) : conn' = [conn EXCEPT ![c] = s]
  BY <1>1
<1>3. RecordOk(s) /\ MildTo(r, s)
  BY CallsOk
<1>4. conn' = [cs EXCEPT ![c] = s] /\ cs[c] = r
  BY <1>2
<1>5. ObjectsOk(conn', ls, t) /\ QueuesOk(q, conn', ls, t) /\ ClosingOk(cl, conn', ls, t)
  BY <1>3, <1>4, MildOk
<1>6. timers' \subseteq Conn
  BY DEF S!UserCall
<1> QED BY <1>5, <1>6

LEMMA NewConnectionStep ==
  ASSUME ServerInv, NEW c \in Conn, S!NewConnection(c) PROVE ServerInv'
<1>1. /\ conn[c].state = "none" /\ closing = NULL /\ closing' = closing /\ pool' = pool
      /\ table' = table \cup {c} /\ timers \subseteq Conn /\ pool \in {{}, Io}
      /\ ObjectsOk(conn, loop, table) /\ QueuesOk(queue, conn, loop, table)
      /\ ClosingOk(closing, conn, loop, table)
  BY DEF ServerInv, S!NewConnection, S!Free
<1>2. conn = [d \in Conn |-> conn[d]] /\ RecordOk(conn[c])
  BY <1>1 DEF ObjectsOk
<1>3. CASE S!UserCall(c, S!Established(S!Create(conn[c]))) /\ UNCHANGED <<loop, queue>>
  <2>1. PICK r : r = S!Established(S!Create(conn[c]))
    OBVIOUS
  <2>2. RecordOk(r) /\ r.state = "connected"
    <3>1. PICK m : m = S!Create(conn[c])
      OBVIOUS
    <3>2. RecordOk(m) /\ m.state = "connecting"
      BY <1>1, <1>2, <3>1, CreateOk
    <3> QED BY <2>1, <3>1, <3>2, EstablishedOk
  <2>3. PICK cs : cs = [conn EXCEPT ![c] = r]
    OBVIOUS
  <2>4. ~ Waits(S!Do("establish", c), queue)
    <3> SUFFICES ASSUME NEW l \in S!Loop, NEW k \in 1..Len(queue[l]),
                        queue[l][k] = S!Do("establish", c)
                 PROVE  FALSE
      BY DEF Waits
    <3>1. FunctorOk(S!Do("establish", c), l, conn, loop, table)
      BY <1>1 DEF QueuesOk, QueueOk
    <3> QED BY <1>1, <3>1 DEF FunctorOk, S!Do
  <2>5. /\ ObjectsOk(cs, loop, table \cup {c}) /\ QueuesOk(queue, cs, loop, table \cup {c})
        /\ ClosingOk(closing, cs, loop, table \cup {c})
    BY <1>1, <2>2, <2>3, <2>4, OpensOk
  <2>6. S!UserCall(c, r)
    BY <1>3, <2>1
  <2>7. /\ ObjectsOk(conn', loop, table \cup {c}) /\ QueuesOk(queue, conn', loop, table \cup {c})
        /\ ClosingOk(closing, conn', loop, table \cup {c}) /\ timers' \subseteq Conn
    BY <1>1, <1>2, <2>2, <2>3, <2>5, <2>6, UserCallOk
  <2> QED BY <1>1, <1>3, <2>7 DEF ServerInv
<1>4. ASSUME NEW m \in pool, loop' = [loop EXCEPT ![c] = m],
             conn' = [conn EXCEPT ![c] = S!Create(conn[c])],
             queue' = [queue EXCEPT ![m] = Append(queue[m], S!Do("establish", c))],
             timers' = timers
      PROVE  ServerInv'
  <2>1. m \in S!Loop /\ m # Base
    <3>1. m \in Io
      BY <1>1, <1>4
    <3>2. Base \notin Io
      BY ServicesAssumption
    <3> QED BY <3>1, <3>2 DEF S!Loop
  <2>2. ObjectsOk(conn', loop', table \cup {c}) /\ QueuesOk(queue', conn', loop', table \cup {c})
    BY <1>1, <1>4, <2>1, CreatesOk
  <2>3. ClosingOk(closing', conn', loop', table')
    BY <1>1 DEF ClosingOk
  <2> QED BY <1>1, <1>4, <2>2, <2>3 DEF ServerInv
<1>5. \/ S!UserCall(c, S!Established(S!Create(conn[c]))) /\ UNCHANGED <<loop, queue>>
      \/ \E m \in pool :
            /\ loop' = [loop EXCEPT ![c] = m]
            /\ conn' = [conn EXCEPT ![c] = S!Create(conn[c])]
            /\ queue' = [queue EXCEPT ![m] = Append(queue[m], S!Do("establish", c))]
            /\ timers' = timers
  BY DEF S!NewConnection
<1> QED BY <1>3, <1>4, <1>5

\* A mild change of one connection, with nothing else but timers and closing.
LEMMA MildStep ==
  ASSUME ServerInv, NEW c \in Conn, NEW r, RecordOk(r), MildTo(conn[c], r),
         conn' = [conn EXCEPT ![c] = r], UNCHANGED <<pool, loop, table, queue>>,
         timers' \subseteq Conn, closing' = closing
  PROVE  ServerInv'
<1>1. /\ ObjectsOk(conn', loop, table) /\ QueuesOk(queue, conn', loop, table)
      /\ ClosingOk(closing, conn', loop, table)
  BY MildOk DEF ServerInv
<1> QED BY <1>1 DEF ServerInv

LEMMA HandleReadStep ==
  ASSUME ServerInv, NEW c \in Conn, S!HandleRead(c) PROVE ServerInv'
<1>1. /\ S!UserCall(c, conn[c]) /\ UNCHANGED <<pool, loop, table, queue, closing>>
      /\ timers \subseteq Conn /\ pool \in {{}, Io}
      /\ ObjectsOk(conn, loop, table) /\ QueuesOk(queue, conn, loop, table)
      /\ ClosingOk(closing, conn, loop, table)
  BY DEF ServerInv, S!HandleRead
<1>2. conn = [d \in Conn |-> conn[d]] /\ RecordOk(conn[c])
  BY <1>1 DEF ObjectsOk
<1>3. PICK cs : cs = [conn EXCEPT ![c] = conn[c]]
  OBVIOUS
<1>4. cs = conn
  BY <1>2, <1>3
<1>5. /\ ObjectsOk(conn', loop, table) /\ QueuesOk(queue, conn', loop, table)
      /\ ClosingOk(closing, conn', loop, table) /\ timers' \subseteq Conn
  BY <1>1, <1>2, <1>3, <1>4, UserCallOk
<1> QED BY <1>1, <1>5 DEF ServerInv

LEMMA HandleWriteStep ==
  ASSUME ServerInv, NEW c \in Conn, NEW n \in 0..Len(conn[c].out), S!HandleWrite(c, n)
  PROVE  ServerInv'
<1>1. PICK r : r = S!Written(conn[c], n)
  OBVIOUS
<1>2. /\ "write" \in conn[c].events /\ conn' = [conn EXCEPT ![c] = r]
      /\ UNCHANGED <<pool, loop, table, queue>> /\ timers' \subseteq Conn /\ closing' = closing
  BY <1>1 DEF S!HandleWrite, ServerInv
<1>3. RecordOk(conn[c])
  BY DEF ServerInv, ObjectsOk
<1>4. RecordOk(r) /\ MildTo(conn[c], r)
  BY <1>1, <1>2, <1>3, WrittenOk
<1> QED BY <1>2, <1>4, MildStep

LEMMA PeerResetsStep ==
  ASSUME ServerInv, NEW c \in Conn, S!PeerResets(c) PROVE ServerInv'
<1>1. PICK r : r = [conn[c] EXCEPT !.gone = TRUE]
  OBVIOUS
<1>2. /\ conn' = [conn EXCEPT ![c] = r]
      /\ UNCHANGED <<pool, loop, table, queue>> /\ timers' \subseteq Conn /\ closing' = closing
  BY <1>1 DEF S!PeerResets, ServerInv
<1>3. RecordOk(conn[c])
  BY DEF ServerInv, ObjectsOk
<1>4. RecordOk(r) /\ MildTo(conn[c], r)
  BY <1>1, <1>3, ResetOfPeer
<1> QED BY <1>2, <1>4, MildStep

LEMMA CloseStep ==
  ASSUME ServerInv, NEW c \in Conn, S!HandleClose(c) PROVE ServerInv'
<1>1. /\ Open(conn[c]) /\ conn' = [conn EXCEPT ![c] = S!Closed(conn[c])]
      /\ UNCHANGED <<pool, loop, timers, closing>> /\ S!RemoveConnection(c)
      /\ timers \subseteq Conn /\ pool \in {{}, Io}
      /\ ObjectsOk(conn, loop, table) /\ QueuesOk(queue, conn, loop, table)
      /\ ClosingOk(closing, conn, loop, table)
  BY DEF ServerInv, S!HandleClose, Open
<1>2. /\ ObjectsOk(conn', loop, table) /\ QueuesOk(queue, conn', loop, table)
      /\ ClosingOk(closing, conn', loop, table)
      /\ ~ Waits(S!Do("remove", c), queue) /\ ~ Waits(S!Do("destroy", c), queue)
      /\ Over(conn'[c]) /\ c \in table
  <2>1. PICK cs, ls, t, q, cl, ds :
           cs = conn /\ ls = loop /\ t = table /\ q = queue /\ cl = closing /\ ds = conn'
    OBVIOUS
  <2>2. /\ ObjectsOk(cs, ls, t) /\ Open(cs[c]) /\ QueuesOk(q, cs, ls, t) /\ ClosingOk(cl, cs, ls, t)
        /\ Closes(ds, cs, c)
    BY <1>1, <2>1 DEF Closes
  <2>3. /\ ObjectsOk(ds, ls, t) /\ QueuesOk(q, ds, ls, t) /\ ClosingOk(cl, ds, ls, t)
        /\ ~ Waits(S!Do("remove", c), q) /\ ~ Waits(S!Do("destroy", c), q)
        /\ Over(ds[c]) /\ c \in t
    BY <2>2, ClosesOk
  <2> QED BY <2>1, <2>3
<1>3. CASE loop[c] = Base
  <2>1. /\ table' = table \ {c}
        /\ queue' = [queue EXCEPT ![loop[c]] = Append(queue[loop[c]], S!Do("destroy", c))]
    BY <1>1, <1>3 DEF S!RemoveConnection, S!RemoveInLoop
  <2>2. /\ ObjectsOk(conn', loop, table \ {c}) /\ QueuesOk(queue', conn', loop, table \ {c})
        /\ ClosingOk(closing, conn', loop, table \ {c})
    BY <1>2, <1>3, <2>1, RemovesOk
  <2> QED BY <1>1, <2>1, <2>2 DEF ServerInv
<1>4. CASE loop[c] # Base
  <2>1. PICK f : f = S!Do("remove", c)
    OBVIOUS
  <2>2. table' = table /\ queue' = [queue EXCEPT ![Base] = Append(queue[Base], f)]
    BY <1>1, <1>4, <2>1 DEF S!RemoveConnection
  <2>3. f \in S!Functor /\ f.do = "remove" /\ f.conn = c
    BY <2>1 DEF S!Do, S!Functor
  <2>4. FunctorOk(f, Base, conn', loop, table)
    BY <1>2, <1>4, <2>3 DEF FunctorOk
  <2>5. Base \in S!Loop /\ QueueOk(Base, queue[Base], conn', loop, table)
    BY <1>2 DEF QueuesOk, S!Loop
  <2>6. \A k \in 1..Len(queue[Base]) : queue[Base][k] # f
    BY <1>2, <2>1, <2>5 DEF Waits
  <2>7. QueueOk(Base, Append(queue[Base], f), conn', loop, table)
    BY <2>3, <2>4, <2>5, <2>6, QueueAppend
  <2>8. QueuesOk(queue', conn', loop, table)
    BY <1>2, <2>2, <2>5, <2>7 DEF QueuesOk
  <2> QED BY <1>1, <1>2, <2>2, <2>8 DEF ServerInv
<1> QED BY <1>3, <1>4

LEMMA RunFunctorStep ==
  ASSUME ServerInv, NEW l \in S!Loop, S!RunFunctor(l) PROVE ServerInv'
<1>1. PICK f : f = Head(queue[l])
  OBVIOUS
<1>2. PICK c : c = f.conn
  OBVIOUS
<1>3. PICK left : left = [queue EXCEPT ![l] = Tail(queue[l])]
  OBVIOUS
<1>4. /\ UNCHANGED <<pool, loop, closing>> /\ queue[l] # <<>> /\ S!Free(l)
      /\ timers \subseteq Conn /\ pool \in {{}, Io}
      /\ ObjectsOk(conn, loop, table) /\ QueuesOk(queue, conn, loop, table)
      /\ ClosingOk(closing, conn, loop, table)
  BY DEF ServerInv, S!RunFunctor
<1>5. /\ QueuesOk(left, conn, loop, table) /\ f \in S!Functor /\ FunctorOk(f, l, conn, loop, table)
      /\ f.do # "shutdown" => ~ Waits(f, left)
  BY <1>1, <1>3, <1>4, HeadOk
<1>6. c \in Conn /\ f = S!Do(f.do, c)
  BY <1>2, <1>5 DEF S!Functor, S!Do
<1>7. conn = [d \in Conn |-> conn[d]] /\ RecordOk(conn[c])
  BY <1>4, <1>6 DEF ObjectsOk
<1>8. CASE f.do = "establish" /\ S!UserCall(c, S!Established(conn[c])) /\ queue' = left /\ table' = table
  <2>1. PICK r : r = S!Established(conn[c])
    OBVIOUS
  <2>2. conn[c].state = "connecting" /\ c \in table
    BY <1>2, <1>4, <1>5, <1>6, <1>8 DEF FunctorOk, ObjectsOk, PlaceOk
  <2>3. RecordOk(r) /\ r.state = "connected"
    BY <1>7, <2>1, <2>2, EstablishedOk
  <2>4. PICK cs : cs = [conn EXCEPT ![c] = r]
    OBVIOUS
  <2>5. ~ Waits(S!Do("establish", c), left) /\ table \cup {c} = table
    BY <1>5, <1>6, <1>8, <2>2
  <2>6. ObjectsOk(cs, loop, table) /\ QueuesOk(left, cs, loop, table) /\ ClosingOk(closing, cs, loop, table)
    <3>1. /\ ObjectsOk(cs, loop, table \cup {c}) /\ QueuesOk(left, cs, loop, table \cup {c})
          /\ ClosingOk(closing, cs, loop, table \cup {c})
      BY <1>4, <1>5, <1>6, <2>2, <2>3, <2>4, <2>5, OpensOk
    <3> QED BY <2>5, <3>1
  <2>7. S!UserCall(c, r)
    BY <1>8, <2>1
  <2>8. /\ ObjectsOk(conn', loop, table) /\ QueuesOk(left, conn', loop, table)
        /\ ClosingOk(closing, conn', loop, table) /\ timers' \subseteq Conn
    BY <1>4, <1>6, <1>7, <2>3, <2>4, <2>6, <2>7, UserCallOk
  <2> QED BY <1>4, <1>8, <2>8 DEF ServerInv
<1>9. CASE f.do = "remove" /\ S!RemoveInLoop(c, left) /\ UNCHANGED <<conn, timers>>
  <2>1. l = Base /\ c \in table /\ Over(conn[c]) /\ closing = NULL
    BY <1>2, <1>4, <1>5, <1>9 DEF FunctorOk, S!Free
  <2>2. ~ Waits(S!Do("remove", c), left)
    BY <1>5, <1>6, <1>9
  <2>3. table' = table \ {c} /\ queue' = [left EXCEPT ![loop[c]] = Append(left[loop[c]], S!Do("destroy", c))]
    BY <1>9 DEF S!RemoveInLoop
  <2>4. /\ ObjectsOk(conn, loop, table \ {c}) /\ QueuesOk(queue', conn, loop, table \ {c})
        /\ ClosingOk(closing, conn, loop, table \ {c})
    BY <1>4, <1>5, <1>6, <2>1, <2>2, <2>3, RemovesOk
  <2> QED BY <1>4, <1>9, <2>3, <2>4 DEF ServerInv
<1>10. CASE f.do = "destroy" /\ conn' = [conn EXCEPT ![c] = S!Destroyed(conn[c])] /\ queue' = left
            /\ UNCHANGED <<table, timers>>
  <2>1. c \notin table /\ Over(conn[c])
    BY <1>2, <1>5, <1>10 DEF FunctorOk
  <2>2. ~ Waits(S!Do("destroy", c), left)
    BY <1>5, <1>6, <1>10
  <2>3. /\ ObjectsOk(conn', loop, table) /\ QueuesOk(left, conn', loop, table)
        /\ ClosingOk(closing, conn', loop, table)
    BY <1>4, <1>5, <1>6, <1>10, <2>1, <2>2, DestroysOk
  <2> QED BY <1>4, <1>10, <2>3 DEF ServerInv
<1>11. CASE f.do = "shutdown" /\ conn' = [conn EXCEPT ![c] = S!ShutdownInLoop(conn[c])] /\ queue' = left
            /\ UNCHANGED <<table, timers>>
  <2>1. PICK r : r = S!ShutdownInLoop(conn[c])
    OBVIOUS
  <2>2. RecordOk(r) /\ MildTo(conn[c], r)
    BY <1>2, <1>5, <1>7, <1>11, <2>1, ShutdownInLoopOk DEF FunctorOk
  <2>3. conn' = [conn EXCEPT ![c] = r]
    BY <1>11, <2>1
  <2>4. /\ ObjectsOk(conn', loop, table) /\ QueuesOk(left, conn', loop, table)
        /\ ClosingOk(closing, conn', loop, table)
    BY <1>4, <1>5, <1>6, <2>2, <2>3, MildOk
  <2> QED BY <1>4, <1>11, <2>4 DEF ServerInv
<1> QED BY <1>1, <1>2, <1>3, <1>8, <1>9, <1>10, <1>11 DEF S!RunFunctor

LEMMA CloseTimerStep ==
  ASSUME ServerInv, NEW c \in Conn, S!CloseTimer(c) PROVE ServerInv'
<1>1. /\ UNCHANGED <<pool, loop, table, queue>> /\ timers' \subseteq Conn
  BY DEF ServerInv, S!CloseTimer, S!Free
<1>2. RecordOk(conn[c])
  BY DEF ServerInv, ObjectsOk
<1>3. CASE conn' = [conn EXCEPT ![c] = S!Shutdown(conn[c])] /\ closing' = closing
  <2>1. PICK r : r = S!Shutdown(conn[c])
    OBVIOUS
  <2>2. RecordOk(r) /\ MildTo(conn[c], r)
    BY <1>2, <2>1, ShutdownOk
  <2>3. conn' = [conn EXCEPT ![c] = r]
    BY <1>3, <2>1
  <2> QED BY <1>1, <1>3, <2>2, <2>3, MildStep
<1>4. CASE loop[c] # Base /\ conn' = conn
           /\ closing' = IF conn[c].state = "connected" THEN [conn |-> c, at |-> "checked"] ELSE closing
  <2>1. ClosingOk(closing', conn, loop, table)
    <3>1. CASE conn[c].state = "connected"
      <4>1. c \in table
        BY <1>2, <3>1 DEF ServerInv, ObjectsOk, RecordOk, ChannelIs, PlaceOk
      <4>2. closing' = [conn |-> c, at |-> "checked"]
        BY <1>4, <3>1
      <4>3. closing' \in [conn : Conn, at : {"checked", "set"}] /\ closing'.conn = c /\ closing'.at = "checked"
        BY <4>2
      <4> QED BY <1>4, <3>1, <4>1, <4>3 DEF ClosingOk
    <3>2. CASE conn[c].state # "connected"
      BY <1>4, <3>2 DEF ServerInv
    <3> QED BY <3>1, <3>2
  <2> QED BY <1>1, <1>4, <2>1 DEF ServerInv
<1> QED BY <1>3, <1>4 DEF S!CloseTimer

LEMMA SetStateStep ==
  ASSUME ServerInv, S!SetState PROVE ServerInv'
<1>1. /\ UNCHANGED <<pool, loop, table, queue, timers>> /\ closing # NULL
      /\ timers \subseteq Conn /\ pool \in {{}, Io}
      /\ ObjectsOk(conn, loop, table) /\ QueuesOk(queue, conn, loop, table)
      /\ ClosingOk(closing, conn, loop, table)
  BY DEF ServerInv, S!SetState
<1>2. PICK c : c = closing.conn
  OBVIOUS
<1>3. /\ closing \in [conn : Conn, at : {"checked", "set"}] /\ c \in Conn /\ RecordOk(conn[c])
      /\ conn[c].state \in {"connected", "disconnecting", "disconnected"}
  BY <1>1, <1>2 DEF ClosingOk, ObjectsOk
<1>4. PICK r : r = [conn[c] EXCEPT !.state = "disconnecting"]
  OBVIOUS
<1>5. RecordOk(r) /\ MildTo(conn[c], r) /\ r.state = "disconnecting"
  BY <1>3, <1>4, StateIsSet
<1>6. conn' = [conn EXCEPT ![c] = r] /\ closing' = [closing EXCEPT !.at = "set"]
  BY <1>2, <1>4 DEF S!SetState
<1>7. /\ ObjectsOk(conn', loop, table) /\ QueuesOk(queue, conn', loop, table)
      /\ ClosingOk(closing, conn', loop, table)
  BY <1>1, <1>3, <1>5, <1>6, MildOk
<1>8. /\ closing' \in [conn : Conn, at : {"checked", "set"}] /\ closing'.conn = c
      /\ conn'[c].state = "disconnecting"
  BY <1>1, <1>2, <1>3, <1>5, <1>6 DEF ObjectsOk
<1>9. ClosingOk(closing', conn', loop, table)
  BY <1>1, <1>2, <1>7, <1>8 DEF ClosingOk
<1> QED BY <1>1, <1>7, <1>9 DEF ServerInv

LEMMA QueueShutdownStep ==
  ASSUME ServerInv, S!QueueShutdown PROVE ServerInv'
<1>1. /\ UNCHANGED <<pool, conn, loop, table, timers>> /\ closing # NULL /\ closing.at = "set"
      /\ timers \subseteq Conn /\ pool \in {{}, Io} /\ closing' = NULL
      /\ ObjectsOk(conn, loop, table) /\ QueuesOk(queue, conn, loop, table)
      /\ ClosingOk(closing, conn, loop, table)
  BY DEF ServerInv, S!QueueShutdown
<1>2. PICK c : c = closing.conn
  OBVIOUS
<1>3. PICK m : m = loop[c]
  OBVIOUS
<1>4. /\ c \in Conn /\ c \in table /\ m \in S!Loop /\ m # Base
      /\ conn[c].state \in {"disconnecting", "disconnected"}
  BY <1>1, <1>2, <1>3 DEF ClosingOk, ObjectsOk
<1>5. PICK f : f = S!Do("shutdown", c)
  OBVIOUS
<1>6. f \in S!Functor /\ f.do = "shutdown" /\ f.conn = c
  BY <1>4, <1>5 DEF S!Do, S!Functor
<1>7. FunctorOk(f, m, conn, loop, table)
  BY <1>3, <1>4, <1>6 DEF FunctorOk
<1>8. QueueOk(m, queue[m], conn, loop, table)
  BY <1>1, <1>4 DEF QueuesOk
<1>9. QueueOk(m, Append(queue[m], f), conn, loop, table)
  BY <1>4, <1>6, <1>7, <1>8, QueueAppend
<1>10. queue' = [queue EXCEPT ![m] = Append(queue[m], f)]
  BY <1>2, <1>3, <1>5 DEF S!QueueShutdown
<1>11. QueuesOk(queue', conn, loop, table)
  BY <1>1, <1>4, <1>9, <1>10 DEF QueuesOk
<1>12. ClosingOk(closing', conn, loop, table)
  BY <1>1 DEF ClosingOk
<1> QED BY <1>1, <1>11, <1>12 DEF ServerInv

LEMMA PeerStep ==
  ASSUME ServerInv, NEW c \in Conn, S!PeerSends(c) \/ S!PeerCloses(c) PROVE ServerInv'
  BY DEF ServerInv, S!PeerSends, S!PeerCloses

LEMMA ServesOn == ServerInv /\ (S!Next \/ UNCHANGED serverVars) => ServerInv'
<1> SUFFICES ASSUME ServerInv, S!Next \/ UNCHANGED serverVars PROVE ServerInv'
  OBVIOUS
<1>1. CASE UNCHANGED serverVars
  BY <1>1 DEF ServerInv, serverVars
<1>2. ASSUME NEW c \in Conn, S!NewConnection(c) PROVE ServerInv'
  BY <1>2, NewConnectionStep
<1>3. ASSUME NEW c \in Conn, S!HandleRead(c) PROVE ServerInv'
  BY <1>3, HandleReadStep
<1>4. ASSUME NEW c \in Conn, S!HandleClose(c) PROVE ServerInv'
  BY <1>4, CloseStep
<1>5. ASSUME NEW c \in Conn, S!CloseTimer(c) PROVE ServerInv'
  BY <1>5, CloseTimerStep
<1>6. ASSUME NEW c \in Conn, NEW n \in 0..Len(conn[c].out), S!HandleWrite(c, n) PROVE ServerInv'
  BY <1>6, HandleWriteStep
<1>7. ASSUME NEW c \in Conn, S!PeerSends(c) \/ S!PeerCloses(c) PROVE ServerInv'
  BY <1>7, PeerStep
<1>8. ASSUME NEW c \in Conn, S!PeerResets(c) PROVE ServerInv'
  BY <1>8, PeerResetsStep
<1>9. ASSUME NEW l \in S!Loop, S!RunFunctor(l) PROVE ServerInv'
  BY <1>9, RunFunctorStep
<1>10. CASE S!SetState
  BY <1>10, SetStateStep
<1>11. CASE S!QueueShutdown
  BY <1>11, QueueShutdownStep
<1> QED BY <1>1, <1>2, <1>3, <1>4, <1>5, <1>6, <1>7, <1>8, <1>9, <1>10, <1>11 DEF S!Next

LEMMA ServerTypes == ServerInv => S!TypeOK
<1> SUFFICES ASSUME ServerInv PROVE S!TypeOK
  OBVIOUS
<1>1. ASSUME NEW c \in Conn
      PROVE  /\ conn[c].state \in S!States /\ conn[c].events \subseteq {"read", "write"}
             /\ conn[c].events # {} <=> conn[c].index = "add"
  BY DEF ServerInv, ObjectsOk, RecordOk, ChannelIs, S!Connection
<1>2. ASSUME NEW l \in S!Loop PROVE S!Pending(l) \subseteq S!Functor
  <2>1. queue[l] \in Seq(S!Functor)
    BY DEF ServerInv, QueuesOk, QueueOk
  <2> QED BY <2>1 DEF S!Pending
<1>3. closing \in [conn : Conn, at : {"checked", "set"}] \cup {NULL}
  BY DEF ServerInv, ClosingOk
<1>4. table \subseteq Conn /\ timers \subseteq Conn
  BY DEF ServerInv, ObjectsOk
<1> QED BY <1>1, <1>2, <1>3, <1>4 DEF S!TypeOK

LEMMA ServerAsserts == ServerInv => S!AssertionsHold
<1> SUFFICES ASSUME ServerInv PROVE S!AssertionsHold
  OBVIOUS
<1>1. ASSUME NEW c \in Conn, "read" \in conn[c].events
      PROVE  conn[c].state \in {"connected", "disconnecting"} /\ c \in table
  BY <1>1 DEF ServerInv, ObjectsOk, RecordOk, ChannelIs, PlaceOk, Open
<1>2. ASSUME NEW l \in S!Loop, queue[l] # <<>>, NEW f, f = Head(queue[l])
      PROVE  CASE f.do = "establish" -> conn[f.conn].state = "connecting"
               [] f.do = "remove"    -> f.conn \in table
               [] f.do = "destroy"   -> S!CanRemove(S!Quiet(conn[f.conn])) /\ l = loop[f.conn]
               [] f.do = "shutdown"  -> TRUE
  <2>1. QueueOk(l, queue[l], conn, loop, table)
    BY DEF ServerInv, QueuesOk
  <2>2. f \in S!Functor /\ FunctorOk(f, l, conn, loop, table)
    BY <1>2, <2>1, QueueTail
  <2>3. CASE f.do = "destroy"
    <3>1. PICK r : r = conn[f.conn]
      OBVIOUS
    <3>2. RecordOk(r) /\ r.events = {} /\ r.index = "del" /\ l = loop[f.conn]
      BY <2>2, <2>3, <3>1 DEF FunctorOk, Over, S!Functor, ServerInv, ObjectsOk
    <3>3. S!Quiet(r) = r
      BY <3>2, DestroyedOk
    <3>4. S!CanRemove(S!Quiet(r))
      BY <3>2, <3>3 DEF S!CanRemove
    <3> QED BY <2>3, <3>1, <3>2, <3>4
  <2>4. CASE f.do = "establish"
    BY <2>2, <2>4 DEF FunctorOk
  <2>5. CASE f.do = "remove"
    BY <2>2, <2>5 DEF FunctorOk
  <2>6. CASE f.do = "shutdown"
    BY <2>6
  <2> QED BY <2>2, <2>3, <2>4, <2>5, <2>6 DEF S!Functor
<1> QED BY <1>1, <1>2 DEF S!AssertionsHold

LEMMA ServerPointers == ServerInv => S!PointersAreLive
<1> SUFFICES ASSUME ServerInv, NEW l \in S!Loop, NEW f \in S!Pending(l), f.do = "shutdown"
             PROVE  S!Held(f.conn)
  BY DEF S!PointersAreLive
<1>1. PICK k \in 1..Len(queue[l]) : f = queue[l][k]
  BY DEF S!Pending
<1>2. LiveOk(queue[l], table)
  BY DEF ServerInv, QueuesOk, QueueOk
<1>3. CASE f.conn \in table
  BY <1>3 DEF S!Held
<1>4. CASE f.conn \notin table
  <2>1. PICK j \in 1..Len(queue[l]) : queue[l][j] = S!Do("destroy", f.conn)
    BY <1>1, <1>2, <1>4 DEF LiveOk
  <2>2. PICK g : g = queue[l][j]
    OBVIOUS
  <2>3. g \in S!Pending(l) /\ g.conn = f.conn /\ g.do # "shutdown"
    BY <2>1, <2>2 DEF S!Pending, S!Do
  <2> QED BY <2>3 DEF S!Held
<1> QED BY <1>3, <1>4

LEMMA ServerOutput == ServerInv => S!StreamIntact /\ S!OutputIsWatched /\ S!FinAfterOutput
<1> SUFFICES ASSUME ServerInv PROVE S!StreamIntact /\ S!OutputIsWatched /\ S!FinAfterOutput
  OBVIOUS
<1>1. ASSUME NEW c \in Conn, NEW s, s = conn[c].wire \o conn[c].out
      PROVE  s = [k \in 1..Len(s) |-> k]
  <2>1. conn[c] \in S!Connection /\ Numbers(s)
    BY <1>1 DEF ServerInv, ObjectsOk, RecordOk, OutputIs, Stream
  <2>2. s \in Seq(Nat)
    BY <1>1, <2>1, ConnectionFields
  <2>3. \A k \in 1..Len(s) : s[k] = k
    BY <2>1 DEF Numbers
  <2>4. s = [k \in 1..Len(s) |-> s[k]]
    BY ONLY <2>2, SeqDef
  <2> QED BY ONLY <2>3, <2>4
<1>2. \A c \in Conn : OutputIs(conn[c])
  BY DEF ServerInv, ObjectsOk, RecordOk
<1>3. S!StreamIntact
  BY <1>1 DEF S!StreamIntact
<1>4. S!OutputIsWatched
  BY <1>2 DEF S!OutputIsWatched, OutputIs, Open
<1>5. S!FinAfterOutput
  BY <1>2 DEF S!FinAfterOutput, OutputIs, Open
<1> QED BY <1>3, <1>4, <1>5

-----------------------------------------------------------------------------
(* All the parts.                                                          *)

ServicesInv == ServerInv /\ ClientInv /\ ThreadInv /\ DirInv

LEMMA ServicesInit == Init => ServicesInv
  BY ServerInit, ClientInit, ThreadInit, DirectoryInit DEF Init, ServicesInv

LEMMA ServicesStep == ServicesInv /\ [Next]_vars => ServicesInv'
<1> SUFFICES ASSUME ServicesInv, [Next]_vars PROVE ServicesInv'
  OBVIOUS
<1>1. S!Next \/ UNCHANGED serverVars
  BY DEF Next, vars
<1>2. C!NextClient \/ UNCHANGED clientVars
  BY DEF Next, vars
<1>3. L!NextThread \/ UNCHANGED threadVars
  BY DEF Next, vars
<1>4. D!NextDirectory \/ UNCHANGED dirVars
  BY DEF Next, vars
<1> QED BY <1>1, <1>2, <1>3, <1>4, ServesOn, ClientStep, ThreadStep, DirectoryStep DEF ServicesInv

\* No assertion of a server, a client or the directory fails, whatever the
\* order of the functors, the events and the calls of other threads: what is
\* established is new, what is removed is in the table, what is destroyed is
\* quiet, a client pursues its peer one way at a time, and the tables of the
\* directory agree with its sockets.
THEOREM NoAssertionFails == Spec => []AssertionsHold
<1>1. ServicesInv => AssertionsHold
  BY ServerTypes, ServerAsserts, ClientHolds, TablesAgree DEF ServicesInv, AssertionsHold
<1> QED BY ServicesInit, ServicesStep, <1>1, PTL DEF Spec

\* Nobody works on what is gone: the functor that shuts a connection down, a
\* plain pointer, comes before the end of the connection, which its loop was
\* told of later, and the loop that startLoop returned lives on the stack of its
\* thread until its owner sets the flag of quit.  It says nothing of the wake-up
\* that quit sends after the flag, which may come too late.
THEOREM NothingIsDangling == Spec => []PointersAreLive
<1>1. ServicesInv => PointersAreLive
  BY ServerPointers, LoopIsThere DEF ServicesInv, PointersAreLive
<1> QED BY ServicesInit, ServicesStep, <1>1, PTL DEF Spec

\* However much the kernel takes at a time, the output of a connection is a
\* stream without gap or repetition, is watched for while it waits, and all of
\* it is taken before the writing side of an open connection is shut down.
THEOREM OutputStays == Spec => []OutputIsKept
<1>1. ServicesInv => OutputIsKept
  BY ServerOutput DEF ServicesInv, OutputIsKept
<1> QED BY ServicesInit, ServicesStep, <1>1, PTL DEF Spec
=============================================================================
