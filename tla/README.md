# A TLA+ verification of SkyLu

SkyLu is a C++ reactor network library (`src/skylu`) with programs built on it
(`src/example`): a raft key-value server, a memcached clone, an HTTP server and
a message queue of brokers, directory servers, producers and consumers. This
directory holds TLA+ modules that model its protocols, the TLC configurations
that check them on small instances, and TLAPS proofs of what holds on all
instances. `PROJECT.json` lists, for every definition, the lines it models, for
every property a mutant of the code that breaks it, and the hazards that the
properties are aimed at.

Run a check with `tlc -workers 2 -config RaftLog.cfg MCRaft` (each run of
`PROJECT.json` names its module and configuration), a proof with
`tlapm M.tla` of the module `M` that holds it. Several runs share an MC module:
`EventLoop.cfg` belongs to `MCTimerQueue`, `ThreadConstructor.cfg` to
`MCLoopThread`, the raft configurations to `MCRaftElection` and `MCRaft`.

## The system

| Part | State | Operations | Talks to | Hard behaviour | What makes it correct |
|---|---|---|---|---|---|
| **Raft** (`example/raft_server/raft.cc`) | term, vote, role, votes, believed leader; per peer: packet number, acknowledged entries and bytes; a ring of entries, an entry being received | `tick`, `emit`, `handleUpdate`, `handleDone`, `handleClaim`, `handleVote` | peers by UDP, state machine by callbacks | loss, repetition, reordering; crashes without a disk; compaction during transfer | one leader per term; state machines agree; acknowledged means replicated |
| **RaftServer** (`raftserver.cpp`) | waiting clients with the index they wait for | client read and write, `CheckClientApplied`, close | Raft, TCP clients | leadership lost while clients wait; index taken over by another entry | an OK means the client's own write was applied |
| **Memcached** (`memcachedserver.cpp`, `session.cpp`) | item maps, sessions, append-only buffer and file, rewrite state | commands, `appendAof`, `AofSync`, rewrite child, SIGCHLD | TCP clients, file system, child process | signal against loop; fork; several loops on one map | the file replays to the items |
| **HTTP** | parser per connection | parse, answer, close | TCP clients, thread pool | answers from worker threads | every whole request is answered once |
| **Directory server** | brokers with their last sign of life, topics | register, keep-alive, lookup, eviction | brokers, MqBusd | re-registration against an old close | lookup names live brokers only |
| **MqBroker, Partition, CommitPartition** | topics, partitions in mapped files with an index, committed offsets, message ids | deliver, pull, subscribe, commit | producers, consumers, directory servers, background thread | acknowledgement before storage; resends; crash between write and rename | stored once, in order; an offset persisted is an offset committed |
| **MqBusd, Producer, Consumer** | send queue, resend set, subscriptions, offsets, seen ids | put, send, acknowledge, resend; pull, commit | brokers, directory servers | timeouts against late answers; swap of queues between threads | no message lost; each delivered once |
| **EventLoop, TimerQueue, loop threads** | pending functors, timers, quit flag | run, queue, wake, add and cancel a timer, quit | all of `skylu/net` | other threads against the loop's wait; cancel while firing | every functor runs once, in the loop; every timer runs, none too often |
| **TcpConnection, TcpServer, Connector, TcpClient, UdpConnection** | connection state, buffers, table of connections, retry timer | connect, retry, send, shutdown, close, destroy | EventLoop, user callbacks | close in one loop, table in another; late callbacks | closed once, removed once, output sent before shutdown |
| **ThreadPool, SafeQueue, Thread** | queue, threads, flags | submit, join, stop | users | join against waiting workers | every task runs; join ends |
| **Shared-memory queue, pool, hash** | headers and cells in System V memory | open, push, pop | several processes | two readers; open against initialisation | each element read once |
| **B-tree, B+ tree, Snowflake, consistent hash** | trees, clock and counter, ring | insert, delete, find, next id | users | deletion with merging; clock going back | the tree is the set; ids unique |
| **Log, daemon, wire formats, buffers, sockets** | | | | formatting and system calls | not modelled |

Raft calls its state machine through `Config::applier` and `snapshooter`
(`main.cc:24-76`); `RaftServer::run` (`raftserver.cpp:32-44`) drives it from one
event loop, by a periodic timer and the read callback of a UDP socket, so a
handler or a tick runs to its end before the next begins: each is one action.

## What is modelled

`TermLeadership` is what an election promises to its user: each node has a term
that never goes back, some nodes lead theirs, and none starts to lead a term
that another one leads.

`RaftNode` holds the members of a node that elections are about and what each
handler does to them, without the datagrams. `RaftElection` and `Raft` extend
it and add datagrams, one that carries elections only and one that carries the
log as well.

| `RaftNode` | `raft.cc` | `RaftNode` | `raft.cc` |
|---|---|---|---|
| `StartElection` | `claim` after `m_term++` (320-366) | `TakeUpdate` | `handleUpdate` (636-762) |
| `StayLeader` | `checkIsLeaderWithMs` (438-449) | `TakeDone` | `handleDone` (763-811) |
| `AdoptTerm`, `TermAt`, `RoleAt`, `VoteAt` | head of `handleMessage` (904-910), `setTerm` | `TakeClaim`, `Grants` | `handleClaim` (821-865) |
| `Restart` | the constructor (44-61) | `TakeVote` | `handleVote` (867-901) |

**`RaftElection`** leaves the log open: whether an update fits, whether a
candidate's log passes, whether a peer misses entries are free choices of the
actions, so what holds here holds whatever the log does. Its actions are
`TickFollower`, `TickCandidate`, `TickLeader`, `Emit`, the four handlers and
`Restart`.

**`Raft`** has the log: the ring with `first`, `size`, `acked`, `applied` and
the entry being received, `acked[i][j]` (what i believes of j), and the state
machine. `TickExpired`, `TickWaiting` and `TickLeader` contain the whole of
`tick`, that is also `refreshAcked` and `apply`; `Emit` contains `compact` and
the beat; `HandleUpdate` is the disjunction of the ways through that function:
refused, heartbeat, chunk out of place, chunk, last chunk of a snapshot
(`restore`), last chunk of an entry (`append`, which may compact). Every assert
about the log is a state `broken` that stops the node; no datagram is
acted on after it.

`MCRaftElection` and `MCRaft` instantiate the two for TLC. In the former some
nodes may be silent in a behaviour, so that the others get through two terms.

### The event loop

`FunctorQueue` is what a loop promises of functors: each runs once, in the
order they were queued. `EventLoop` is the thread of `EventLoop::loop` with the
queue `pending`, the functors `taken` from it, the eventfd and `isQuit`; a call
from another thread is two steps, `Push` or `QuitFrom` under the lock or on the
flag, and then `Wakeup`, between which the loop may run. `TimerQueue` extends
it with the timers.

| Module | Code | Module | Code |
|---|---|---|---|
| `Poll`, `Handle` | `Epoller::poll`, `Channel::handleEvent` | `ReadTimers` | `TimerQueue::handleRead` up to `getExpired` |
| `TakeFunctors` | the swap in `doPendingFunctors` | `RunTimer` | a callback of an expired timer |
| `RunFunctor` | one functor of `doPendingFunctors` | `ResetTimers` | `reset`, with `Timer::restart` |
| `QueueHere`, `Push` | `queueInLoop` in the loop's thread, in another | `Insert`, `Cancel` | `addTimerInLoop`, `cancelTimerInLoop` |
| `EndRound` | the test of `isQuit` | `AddFrom`, `CancelFrom` | `addTimer`, `cancelTimer` of another thread |

The loop's steps are split where other threads can come between: the clock,
the eventfd, the queue and `isQuit` may change between any two callbacks. A
callback makes one call of the loop's interface, or none. The eventfd is the
Boolean whether its counter is above 0, since a read takes the whole counter.
The loop always polls with a timeout (`loop(5)` by default), so `Poll` may
return with nothing; that no wake-up is lost is checked all the same, as the
`WakeupNotLost` of a loop that waits. Times are the numbers up to `MaxTime`, at any of which the clock may begin;
a timer may be set for a moment that has passed when the loop inserts it.

`Timerid(t)` follows the constructor (`timerid.h:15`): it drops the pointer.
Cancelling therefore never finds a timer; the model shows it as the code
has it.

### Connections

`TcpConnection` is a connection as a record, and a function of the record for
each function of `tcpconnection.cc` that runs in the connection's loop:
`Established`, `Closed`, `Destroyed`, `Send` and `SendInLoop`, `Written`
(`handleWrite`), `Shutdown`. It includes what `Channel` and `Epoller` keep of it.

`TcpServer` composes it with the accepting loop and the loops of the pool. A
loop is the queue of its functors, which is what `FunctorQueue` promises, and
the events of its connections. `NewConnection`, `HandleRead`, `HandleClose`
and `HandleWrite` are the callbacks of channels, `RunFunctor` the four
functors; where `runInLoop` finds itself in the right thread, the call is part
of the same step. The user is one like `HttpServer`: callbacks reply, shut down,
or set a timer in the accepting loop that does (`httpserver.cpp:32-78`). That
`shutdown` comes from another thread than the connection's, so it is three
steps, `CloseTimer` (the state is read), `SetState` and `QueueShutdown`, between
which the connection's loop goes on: it may close the connection, and the state
goes from disconnected back to disconnecting. `AssertionsHold` and
`PointersAreLive` show that nothing breaks by it, for the accepting loop, which
is the one that removes the connection, is busy meanwhile.

`TcpClient` is a client with its `Connector` in the thread of their loop: the
attempt that the kernel answers, the retry timer with its growing delay, the
connection, and the owner's `connect`, `disconnect` and `stop`. The loop is taken
apart into the batch of events it polled and the functors it swapped out, since
a channel that is removed in a batch is destroyed by a functor, and a restart
between the two must not meet it. `Destroy` is the destructor, which `MqBusd`
runs in a callback of the loop when a broker is no longer listed
(`mqbusd.cc:77,86`). It may leave a retry timer that holds the connector
(`OrphanTimer`), a connection that the user has kept (`CloseAfterDestroy`), and
events or functors that name what is freed. A behaviour ends where something
freed would be called (`client.dangling`): what comes then is not defined.

### Threads

`LoopThread` is `EventLoopThread` over `Thread`: the owner (`Create`,
`Constructed`, `SetStart`, `PostStart`, `WaitLoop`, `Destroy`, `Quit`, `Join`) and
the thread (`Begin`, `Await`, `AwaitPost`, `MakeLoop`, `Publish`, `LeaveLoop`,
`Unpublish`, `EndThread`), each a step of the code between two operations on the
semaphore, the mutex or a shared member. `Quit` sets the flag of the loop, and
`Wakeup` writes to its eventfd; the loop may leave and end with its thread in
between. The pool starts such threads one after the other, so one is enough.

`ThreadPool` is the pool over `SafeQueue`. A step is what a thread does while it
holds the mutex, which `pthread_cond_wait` gives up, so that `PopWait` ends in
"waiting" and a woken worker starts over with its check (`safequeue.h:48`). A
wake-up for nothing is a step (`SpuriousWakeup`).

### Data structures

`Tree` has the node of `tree.h`, whose arrays keep what lies behind `num`, and
the caller: he fills the tree, empties it, and fills it again, which bounds
the exploration without fixing an order of the keys. `Strangers` are keys that he
may delete without having put them. `BTree` and `BPlusTree` are
the two programs over it, one operator per function (`SplitChild`,
`InsertNonfull`, `MergeChild`, `ShiftToLeftChild`, `ShiftToRightChild`,
`DeleteNonone`, ...), an insertion or deletion being one action.

`SharedHash` is the hash over the pool of blocks in a shared segment, and `Die` may
come between any two of its actions. The fields of the header that `CheckHeader`
reads are written by one action (`WriteHeader`), since a part of them is refused as
none is; the end of the free list, which it does not read, by the next
(`WriteFreeList`); so are the two counts of an allocation, each link of the free list,
a block that is zeroed, a key and a value.
`Attach` reads back what is there. `FollowsLinks` says what the walk along the free
list meets, the header itself if the list begins there. `ShamQueue` is the ring in
shared memory, one action per operation on a semaphore or index, with processes that
open, create, leave and destroy it: one that is attached (`Destroy`) or one that only
has the key (`DestroyKey`), whoever else is in it. `Snowflake` is the generator with a clock that may be set back
at any moment, one millisecond spun away at a time.

### Memcached and the clients of raft

`Memcached` is the key-value server with its append-only file: `Run` with the
replay of `LoadAof`, commands with `AppendAof`, the timer `AofSync`, the signal
handler `SetReWrittened` at any moment, the child (`ChildOpen`, `ChildWrite`,
`ChildExit`), and `Crash`, after which the mapped file stays and children live
on. A race between the handler and the assignment it interrupts is the choice
`MayBeMissed`.

`RaftServer` is the front end of a raft node: the table of waiting clients, the
input buffers that their requests stay in, and the check in `tick`. Of raft there
is what it promises a leader (`Lead`, `Acknowledge`, `Follow`): what a majority
has acknowledged stays, the rest may be replaced.

### The message queue

`Partition` is the log of a topic as operators on a record: log files of a fixed
size, mapped, with their sparse index, of which the lines not synced are lost in
a crash; `PutInFile`, `AddToLog`, `SendToConsumer` with the limit of a pull
(`Limits`), `Recovered`, `RecoveredWithoutLog`. A packet carries where
it ends in its file, so that positions in the file need no sum over what lies before. `MqBroker` is the broker with
that partition and `CommitPartition`, whose thread copies the offsets, writes
a second file and renames it in steps of its own (`CopyInfos`, `RenameFile`).
`DiesInFiles` is a death between the three steps in which `mmapNewLog` makes its files
(`partition.cc:299,306,307`): with the index alone, with a log without length, or with
both. From the first a broker that has a log starts astray (`StartAstray`), with the
packets of the old log counted from the new index, and is followed no further; from
the second, and without any log, it does not come up, at an assertion or a mapping
that faults.
`Mq` adds the producer (`Put`, `SendInLoop` with the resend set, `HandleDelivery`)
and the consumer (subscription, timed pulls, `HandleMessage` with its commits), and TCP
connections that deliver in order until they break. The consumer does not cancel its
subscription and pulls where it is, as `main.cc` does.

`Directory` has brokers that register and keep alive, directory servers with
their tables by host and by descriptor, and a busd that asks each server and
gathers the answers. What a server has not read yet of a connection, a
registration or its end, is in `sockets`, so that the end of an old connection
may be read after the registration on a new one, even of the same descriptor.
The connection of busd's client to a broker may break without a crash
(`BreakClient`). `busd.left` are the hosts that a deleted client has left a
connection to, which `Producer` keeps; when that closes, the callback of the deleted
client runs, and busd may be gone.

### Composition for TLC

`MCServices` and `MCStructures` hold several of these parts, of which the
variable `which` chooses one in each behaviour; the others stay in an initial
state in which nothing goes on by itself, so that their fairness asks nothing. The parts are
alternatives, not concurrent: they are run together because each is small, and
their properties keep the names they have in their modules. `MCServices`
instantiates its four parts; `MCStructures` extends those without recursive operators, so
that `BaseProofs` and `ExampleProofs` prove the very properties it checks, and
instantiates the trees. `MCMq`, `MCTimerQueue`, `MCLoopThread`, `MCRaft` and
`MCRaftElection` instantiate one module each. `MCTimerQueue` has behaviours that
look at functors and others that look at timers (`focus`); each leaves out calls that
nobody has to make, so that no fair step is ever shut out.

### Abstractions

- *Network.* `msgs` holds all datagrams ever sent; a node may receive any of
  them at any time. Loss is a message never received, repetition one received
  again. `Duplicates = FALSE` in `Raft` removes repetition, where the state
  space needs it.
- *Time.* A tick may find its timer expired or not and a leader may have heard
  of any number of peers, so the real timers' behaviours are among these.
- *Bytes.* A client's update is one chunk, a snapshot `SnapLen` chunks; a
  chunk knows which body it is a part of, so that mixed parts are seen. A body
  is the sequence of the updates applied; updates are numbered as accepted.
- *Assertions.* If one fails in the middle of a broadcast, the packets sent
  before it count as lost.
- *Repeated reply fields.* `entryTerm` and `applied` of an answer are not
  modelled: the first is never read, the second only by `Raft::applied`, which
  has no caller.
- *Corrupt datagrams* and those from unknown addresses are dropped by
  `recvMessage` before anything is changed, and do not appear.
- *Membership.* All peers are brought up before the first tick, and
  `peerDown` is not called by the program.

- *Disk and memory.* A mapped file has at once what was written to it, and
  a crash of the process keeps it; a crash of the machine is not modelled.
- *Queues of bytes.* Commands, packets and messages arrive whole; only
  `TcpConnection` deals with parts of output.

Bounds: `MaxTerm`, `MaxElections`, `MaxUpdates`, `MaxRestarts` and `MaxEmits`
are guards of the actions that start an election, send updates, restart a
process and accept a write. The others are named the same way and bound what
comes from outside: `MaxSends`, `MaxPuts`, `MaxWrites`, `MaxCommands`,
`MaxRequests` and `MaxKeys` what users do; `MaxDowns`, `MaxFaults`, `MaxCrashes`,
`MemCrashes`, `MaxForks`, `MaxTerms` and `MaxSegments` crashes, breaks and starts;
`MaxLog`, `MaxFlight`, `MaxClock` and `MaxTime` what a store, a connection or the
clock may hold. Where the code has a size of its own (`Capacity`, `FileMax`,
`AofLength`, `Blocks`, `PerMilli`) it is a parameter, not a bound.

## What the runs show

All states are explored; nodes of raft are interchangeable, so symmetry is used
where no liveness is checked.
Deadlock is not checked: when all bounds are reached, or all nodes are
stopped by assertions, nothing is left to do.

| Run | Instance | Holds |
|---|---|---|
| `RaftElectionVotes` | 3 nodes, 2 terms, 2 elections | `TypeOK`; `OneGrantPerTerm`; `VotesAreGrants` (a vote is counted once and in its own election); `OneLeaderPerTerm`; `TermAndVoteAreStable`; `KeepsPromise` (implements `TermLeadership`) |
| `RaftElectionUpdates` | 3 nodes, 2 elections, 1 restart; all in 1 term with 2 updates, or 2 of them in 2 terms with 4 updates | `UpdatesComeFromWinners`; `KnownLeaderSentUpdate` |
| `RaftLog` | 3 nodes, 1 election, 5 updates, ring of 2, 2 writes, repetition | `StateMachinesAgree`; `AckedIsReplicated` |
| `RaftCatchUp` | 2 nodes, 1 election, 4 updates, 1 restart, ring of 2, snapshot of 2 chunks, 3 writes | `AppliedCountsState`; `LeaderRingIntact`; `IsElection`: every step of `Raft` is a step of `RaftElection` or changes nothing of it |
| `EventLoop` | 2 other threads, 3 functors, 1 timer, 1 instant; or 1 other thread, 2 timers, 3 instants, 1 cancel | `WakeupNotLost`; `KeepsPromise` (implements `FunctorQueue`); `FunctorsRun`; `QuitEnds`; `TimersAreArmed`; `NotTooOften`; `TimersRun` |
| `Services` | `TcpServer`: 1 connection, 1 loop besides the accepting one or none, 3 replies of 3 chunks. `TcpClient`: retry delays 1 to 3, the peer down twice, perhaps destroyed. `LoopThread`: 1 thread. `Directory`: 1 broker, 1 server with 2 descriptors, 3 faults | `AssertionsHold`; `PointersAreLive`; `OutputIsKept`; `ConnectionsEnd`; `Reconnects`; `ThreadsStartAndEnd`; `BusdFollowsBrokers` |
| `Structures` | `BTree`: 8 keys, 2 turns, no strangers. `BPlusTree`: 8 keys filled and emptied, and 6 keys that are filled again. `SharedHash`: 2 keys, 2 values, 2 blocks, 2 crashes. `ShamQueue`: 2 writers, 1 reader, 2 blocks, 3 writes, 2 segments. `Snowflake`: 2 numbers per millisecond, 3 milliseconds. `ThreadPool`: 3 workers, 3 tasks, queue of 2. `Memcached`: file of 6 commands, 4 commands, 2 forks, 1 crash. `RaftServer`: 2 clients, 2 requests, 2 terms | `TreesAreWhole`; `BPlusTreeAdds`; `HashSurvives`; `SharedRingIsQueue`; `IdsIncrease`; `SleepersAreNotNeeded`; `FileFollowsCommands`; `OkIsApplied` |
| `Mq` | log files of 3 units, messages of 1 and 2, index every unit, 2 messages put, 3 packets stored, 2 under way, 1 crash or break, pulls limited to 1 unit or not at all | `NothingForgotten`; `SeesLogInOrder`; `CommitIsCovered`; `IndexLeadsToPacket` |

Why the raft bounds suffice for their questions: with two elections in two terms
there are two candidates of one term, a candidate that claims again, and votes
that arrive an election late; a vote needs a majority of three. The log runs
hold a ring of two entries, which the second write fills and the third must
compact; a restarted node lacks entries that the leader has compacted away, so
a snapshot travels, in two chunks. `RaftLog` and `RaftCatchUp` have one
election each: with a second one the disagreements below arise.

In `RaftElectionUpdates`, two nodes of three are a majority, so that with the third
one silent an election can be overtaken by a second one, and its heartbeat by both.

In `EventLoop`, three functors are enough for one that is queued before, one
queued by it, and one by a thread in between; two timers for one that
expires first and one whose turn depends on the descriptor being armed again;
three instants for a timer that repeats twice.

In `Services`, one connection is enough: connections share only the loops, whose
being busy with another one is a delay, and any delay is allowed. Three replies
of three chunks let output be waiting, partly sent and appended to. The peer that goes
down twice meets an attempt, a connection and a reconnection. Three faults let a broker
crash, come back on a new descriptor, and its server restart.

In `Structures`, eight keys make a B-tree of three levels with M = 2, so that a
deletion merges, borrows from either side, and shrinks the root; a crash in the
recovery of a crash needs two of them in the hash; three processes are the
fewest where a segment is removed while two others differ on which is theirs. A
B+ tree of eight keys has three levels as well but is not filled again, since a
deletion may lose a key (below) and what may follow is too much to explore; with six
keys it is, and an insertion then meets what deletions have left. With a file of six commands
two are written in order before the first fork, and others while the child writes.

In `Mq`, three units per file let two messages cross from one file to the next, or
fill it exactly, and a packet be found over the index or without it; a pull limited to
one unit sends one packet, and meets one that is too long; one fault at any step covers each
place in the exchange where it can end.

### Fairness

- *EventLoop, TimerQueue.* The thread of the loop goes on (`WF_vars(LoopStep)`,
  a thread that is scheduled and callbacks that return), time passes
  (`WF_vars(Tick)`), and a thread that has queued a functor or called quit goes
  on to its `wakeup`. No thread has to call anything. `FunctorsRun` and
  `TimersRun` end with "or the loop was told to quit": after quit, what is still
  queued stays.
- *TcpServer.* Each loop runs its functors, handles the channels that
  stay ready (strong fairness, since the accepting loop is busy now and then) and
  its timers, and `shutdown` goes on between its steps. One part is the peer's:
  that it reads, so that a socket takes waiting output again. Only
  `ShutdownEnds` (in `ConnectionsEnd`) needs it.
- *TcpClient.* The loop goes on, the kernel answers an attempt, and a peer that
  is down comes up. The owner need not call anything, and `Reconnects` asks
  nothing of a client that was stopped or destroyed, or whose kernel refused for good.
- *LoopThread.* A thread that is not blocked is scheduled. That an owner
  destroys the object is not assumed.
- *Directory.* Keep-alives are sent, connections made, what has arrived is read,
  and the timers of server and busd run, unless busd is gone. Crashes and breaks are
  not fair.

No liveness is claimed of raft: the timers are random and the network may lose
everything, so under the fairness that the code justifies (the loop goes on
running its timers) no election has to end. None is claimed of `Mq`, whose
messages may be lost to the user as `failed`, nor of the waiting clients of a
raft node, which may hang (below).

### Violations

Four runs expect a violation. Each checks one statement of the code's own and
finds a behaviour against it:

| Run | Statement | What happens |
|---|---|---|
| `RaftElectionAsserts` | `assert(m_leaderId == NOBODY)` in `claim` (336); also 209, 523 | A candidate that lost the election takes the winner's heartbeat, notes it as leader and stays candidate (668-671). When its timer expires again, `claim` fails. |
| `RaftStaleLength` | `acked`: "confirmed by the other peers" (`proto.h:65`) | A follower answers an empty heartbeat with the length of its log, with an entry of an earlier leader in it; the new leader counts that for the entry that it has written in that place, and applies it, while no other node has it (794, 368-396). |
| `RaftOldSnapshot` | "refuse old messages" (`raft.cc:662`) | Only the term is compared. A snapshot that the network repeats is restored again, and takes a node that has applied a later write back behind it (725, 515). |
| `ThreadConstructor` | "the constructor ends once the preparations of run are done" (`thread.cc:24`) | Constructor and thread wait on one semaphore that starts at 1. A thread that comes first takes that token and its own post, sees that it was not started, and waits; the constructor waits forever. |

The modules define other statements of the code that its own steps violate. TLC
finds each of them within a minute or two, as an `INVARIANT` (or `PROPERTY`, where it is marked *)
added to the configuration named:

| Definition | Statement | What happens | Where TLC finds it |
|---|---|---|---|
| `Raft!SnapshotsAreWhole` | progress is reset to avoid damage (`raft.cc:697`) | A delayed first chunk of an older snapshot of the term replaces that of a newer one, whose second chunk completes a mixture (704-726). | `MCRaft`, `SpecFew`: 3 nodes, 1 term, 1 election, 9 updates, 4 writes, ring and snapshot of 2, `Duplicates` |
| `LoopThread!WakeupMeetsLoop` | quit wakes the eventfd (`eventloop.h:58`) | The owner sets the flag, the loop leaves and ends with its thread, and the owner writes to its eventfd (`eventloop.cc:162-164`). | `MCLoopThread`, no constants |
| `MCServices!ClientGoesWithConnection` | "the connection is deleted with it" (`mqbusd.cc:86`) | `Producer` keeps the connection; its close callback reads the deleted client (`tcpclient.cc:41-43`). | `Services.cfg` |
| `SharedHash!FreeListLeadsToBlocks` | a link names the next free node (`shampool.hpp:38`) | A death before the last write of the header (132) leaves a free list that starts at the header, in a segment that is accepted. | `SharedHash` with the constants of `Structures.cfg` |
| `SharedHash!IndexIsRebuilt` | init rebuilds the index (`shamhash.hpp:222`) | A death between `alloc_size` and `alloc_node` (181-182) has every later init refuse the segment. | the same |
| `Mq!IndexHasItsLog` | index and log go together (`partition.cc:23`) | A broker that dies between making the one (299) and the other (306) reads the old log under the new index: offsets jump (276). | `Mq.cfg` |
| `Mq!PullFindsPacket` | `assert(eofPosition > position)` (`partition.cc:241`) | A packet that ends with its file, or is longer than the limit, is left out of the answer to the pull that asks for it, and the broker ends (232-235). | `Mq.cfg` |
| `BPlusTree!DeletionTakesOne` * | the target is deleted (`tree.h:121`) | A leaf that borrows from its left neighbour has its own first key overwritten (`bplustree.cc:262-277`). | `BPlusTree` with 6 keys, 1 turn |
| `BTree!NotFoundTakesNothing` * | "target not found" (`btree.cc:217`) | A search does not look at `num`, and finds a deleted key behind the last one (208-209); the leaf loses its last key. | `BTree` with 4 keys, 3 turns, all of them strangers |

### What else the code does

Modelled as it is, and met while modelling; no property above holds or fails by
these, or the bounds that keep them out are named:

- With `MaxRestarts = 1`, `RaftElectionVotes` finds a node that votes twice in a
  term: nothing is on disk. With `MaxEmits = 4`, `RaftLog` finds state machines
  that disagree: `append` goes on when `compact` freed no slot (`raft.cc:602`;
  `emit` requires more at 528), the ring overflows and an entry not yet
  applied is overwritten. These are why agreement of the logs is checked, and holds, under one
  leader and up to two writes only, and why the election theorems assume no restart.
- `CheckClientApplied` does not advance its iterator at a client whose write is
  not applied yet (`raftserver.cpp:222-240`), so the node hangs at the first tick before
  the acknowledgement; a write before the last one is answered meets the
  assertion of 181; a client that lost its leader and found it again may be told OK for
  another leader's entry, which is why `OkIsApplied` is about one term of lead; and
  `onCloseConnection` is set nowhere.
- In `Memcached`, a command that comes in the state `Sync` reaches no file,
  the buffer for the rewrite is never filled (175), and flag and time are swapped
  in what the child writes (204). `FileFollowsCommands` is therefore about the order
  and place of what is in the file, before the first rewrite.
- Since a deletion of the B+ tree may lose another key, that its leaves are the set of
  keys is not claimed; that an insertion adds exactly its own is. `TreesAreWhole` is
  about callers that delete what they have put, and of what is lost it tells leaves only:
  an inner node that nothing leads to any more would not be noticed.
- `Timerid` drops its pointer, so that cancelling never finds a timer.
- A busd keeps the client of a broker whose connection broke as long as the broker is
  listed, and that client connects no more (`tcpclient.cc:111`): `BrokersAreFound` takes a
  client that was connected once for found.
- A deleted client's connector is freed while the rest of the batch or a functor may yet
  call it by a plain pointer; or a retry timer holds it, and tries for ever
  (`connector.cc:143,154`).
- The timer of a directory server erases an entry and goes on with a reference to
  it (`dirserver.cc:91-94`). The library that is used leaves the memory as it was until it is
  given to another, and the model goes on with those values.
- The broker does not know the ids it stored: a message sent again is stored again,
  and only the consumer tells the two apart.

## What is proved

All theorems are checked by TLAPS, for every value of the constants that their
assumptions allow: any finite set of peers, any numbers of threads, packets,
crashes, ring slots, and of everything else that a run bounds. The assumptions
on constants are the named `ASSUME`s of the modules, which say that a number is
a number (`BoundsAssumption`, `NodeAssumption`, `RingAssumption`, `FileAssumption`,
`PartitionAssumption`, `PerMilliAssumption`, `ServicesAssumption`), that there
are finitely many peers or workers (`ServerAssumption`, `WorkerAssumption`), and
that an absent host, peer or loop is none of the present ones. Some theorems have a
hypothesis besides: `MaxRestarts = 0` where "without restarts" is said, since a raft
node that restarts forgets its vote; `OneReign` where "under one leader" is said (below);
and `OneReader`, since `ShamQueue::read` takes no lock.

| Module | Theorem | What holds | Property of a run |
|---|---|---|---|
| `RaftElectionProofs` | `TypeCorrect` | types, restarts included | `TypeOK` |
| | `OneLeader` | without restarts, one leader per term | `OneLeaderPerTerm` |
| | `OneGrant` | without restarts, one vote per node and term | `OneGrantPerTerm` |
| | `VotesCountOnce` | without restarts, a vote is counted once and in its own election | `VotesAreGrants` |
| `RaftPromiseProofs` | `TermsAndVotesStay` | terms and votes are stable, restarts of others included | `TermAndVoteAreStable` |
| | `ElectionKeepsPromise` | without restarts, `RaftElection` implements `TermLeadership` | `KeepsPromise` |
| | `LeadersAreHeard` | a node takes another for its leader only by an update of the term that the node is in, restarts included | `KnownLeaderSentUpdate` |
| | `WinnersUpdate` | without restarts, updates come from winners of elections | `UpdatesComeFromWinners` |
| `RaftProofs` | `RaftIsElection` | `Raft` implements `RaftElection` | `IsElection` |
| | `LogHasOneLeader`, `LogKeepsTerms` | what is proved of leaders, terms and votes, for the full node | |
| | `MachinesAgree` | under one leader, state machines agree | `StateMachinesAgree` |
| | `AckedStaysWithMajority` | under one leader, what it takes for acknowledged a majority holds | `AckedIsReplicated` |
| `EventLoopProofs` | `WakeupsAreNotLost` | no wake-up is lost | `WakeupNotLost` |
| | `FunctorsKeepOrder` | the loop implements `FunctorQueue` | `KeepsPromise` |
| | `LoopWaitsArmed` | a loop that waits has its descriptor armed for the first timer | `TimersAreArmed` |
| | `TimersKeepPace` | no timer runs too often | `NotTooOften` |
| `BaseProofs` | `SharedHashSurvives` | the hash in shared memory, over a death between any two of its steps | `HashSurvives` |
| | `RingIsQueue` | with one reader, the ring in shared memory is a queue, whoever destroys it | `SharedRingIsQueue` |
| | `PoolLosesNoTask` | a task is not left to workers that sleep, and begins once | `SleepersAreNotNeeded` |
| | `IdentifiersIncrease` | identifiers of `Snowflake` increase | `IdsIncrease` |
| `ExampleProofs` | `AnsweredIsApplied` | an OK means that the client's write is applied | `OkIsApplied` |
| | `FileKeepsCommands` | the append-only file, before its first rewrite | `FileFollowsCommands` |
| `MqProofs` | `NothingIsForgotten` | a message put is in the log, held by the producer or reported as failed; what was reported as delivered is in the log | `NothingForgotten` |
| | `ConsumerSeesLog` | the consumer sees the log, in order, each message once | `SeesLogInOrder` |
| | `CommitsAreCovered` | an offset committed, copied or on disk covers only what was received | `CommitIsCovered` |
| | `IndexLeads` | the sparse index leads to the packet asked for, until a start that meets an index without its log | `IndexLeadsToPacket` |
| `ServicesProofs` | `NoAssertionFails` | connections, clients and tables are where their assertions want them | `AssertionsHold` |
| | `NothingIsDangling` | connections are there for the functors that name them, and a loop for its owner until he sets the flag of quit | `PointersAreLive` |
| | `OutputStays` | output is a stream, watched while it waits, and ahead of its end | `OutputIsKept` |

### Elections

`OneLeaderPerTerm` is not inductive: it must be known why a
leader has its majority. `ElectionInv` (in `RaftElection`) adds that

- a vote that was given in its giver's present term is on record there, and
  its giver follows (`GrantsAreRecorded`), so a second vote of the term goes to
  the same candidate (`OneGrantPerTerm`) although `tick` raises the term without
  clearing the vote;
- the count of a candidate or leader is one more than the number of distinct
  peers that granted it a vote in this term (`VotesAreGrants`). That
  a vote is not counted twice needs `CountedLinksAreSpent`: once a peer's vote
  was counted, every claim and vote between the two carries a packet number of
  the past, which in turn needs `PacketNumbersBound` and `NoSelfPackets`;
- a leader counted a majority (`LeadersCountedMajority`).

Two leaders of one term then have majorities that share a peer (or one of the
two itself), which granted its vote twice in a term. Each step of the
specification preserves each part; the proof has one lemma per action.
With one restart `OneGrantPerTerm` fails.

The theorems about steps rest on one lemma, `NextIsStepOf`: every step that is no
restart is the `StepOf` one node, which changes only its own term, role and vote,
and keeps the vote unless the term grows. What `TermLeadership` asks of a step that
makes a leader, that nobody else leads its term, is `OneLeaderPerTerm` after the step.

`RaftProofs` takes a message of `Raft` without what it says of logs (`Plain`)
and shows each action of `Raft`, seen through that, to be an action of
`RaftElection` or to change nothing there; a log only makes the choices that
`RaftElection` leaves open. The one invariant it needs is that `msgs` is finite, as
the bounds count the updates in it, once with and once without the log. The
theorems of the election are then carried over by instantiating their module
for the messages of `Raft`.

### The log under one leader

`OneReign` says that one election is held, nobody restarts and the ring is longer
than there are writes. Each part keeps one of the disagreements above out: after a second
election a node may be taken to hold entries of an earlier leader, a node that restarted has
lost its log, and a ring that is compacted may overflow. What is left is any number of
nodes, writes and datagrams: updates and answers that are lost, repeated and
late, claims won or lost, leaders that step down, assertions.

None of the properties is inductive. `LogInv` names the one node `b` that holds
the election (any, before it) and says that

- nobody else is candidate or leader, and the packets are claims and updates from `b`
  and votes and answers to it (`Reign`, `Letter`);
- entry `k` of `b` is write `k`, and every other ring is the front of the ring of `b`, slot by
  slot, with `applied <= acked <= size` (`Rings`);
- an update under way carries an entry of `b` and no more acknowledged than `b` has, and an
  answer under way tells of no more entries than its sender still has (`Letter`);
- what is believed of a peer is true of it, and a majority has what `b` takes
  for acknowledged (`Beliefs`);
- each state machine went through the first `applied` writes (`Counts`).

An old update then replaces an entry by itself, and an old answer or a refusal only lowers
a belief. That rings only grow (`Grows`) keeps the packets under way true, with one lemma
per handler. What a ring is after `Place`, `Longer` or `Apply` is stated once, for one ring.

### The event loop

`WakeupInv` adds to `WakeupNotLost` that while functors run, a queued functor has
its wake-up on the way too: that is what `isCallingPendingFunctors` is for, as
the loop waits next. What is queued while channels are handled needs none,
because `TakeFunctors` comes before the next wait, and a quit at any time is
seen by `EndRound`.

`TimerInv` is about the timers: none that was made is set for time 0, which would
disarm the descriptor (`MadeForLater`), at most one functor is to insert a timer, and
nothing inserted it before (`AddedOnce`), the
descriptor is armed for the first of the set at every place of the loop but between
`ReadTimers` and `ResetTimers` (`Armed`), and a timer that is due again has not run
more often than its intervals will have passed then (`Paced`).

That the loop implements `FunctorQueue` needs the order of user functors among
all functors, the loop's own for timers included. The abstract queue is the
user functors of `taken \o pending`, defined by counting (`UsersTo`) since a filter
would be recursive; an append of a user functor appends to it, an append of another
changes nothing, and the head is the next user functor when it is one. The
invariant is `TakenInv`: nothing is taken unless functors run, so the swap of the
two queues keeps the order.

### What processes and threads share

`HashInv`: the links of the free list stay in a set of blocks that are allocated and
not used, each led to from one place only (`Chained`); a block in the hands of the
process is in none of them (`Held`); the index of keys is that of the used
blocks (`Indexed`); what `insert` returned for is in a used block that nobody writes
(`Kept`). A free list that starts at the header is in no allocated block (`Chained`), and a
pop from it fails. A death loses the block in hand, or the segment: `Single` adds that no
key is in two used blocks, so that what makes an init refuse it is a header that is not
written, a block that is not counted, or two that have no key yet.

`QueueInv`: every process is in a segment that is set up, or sets it up alone; from
`rd` on lie the unread blocks up to `wr` (`Ring`); and each semaphore, with the
processes that have or will take what it counts, adds up to the unread or the free
blocks (`Counts`). The latter is a statement about cardinalities of sets of processes,
of which a step moves one.

`PoolInv` counts workers that are woken beside the length of the queue
(`EnoughAreWoken`). `IdInv`: no identifier is above that of the last time and
sequence or, while the generator waits for the next millisecond, reaches that one's
first, wherever the clock was set.

### Raft's clients and the append-only file

`UserInv`: a client that waits does so for the first request of its buffer, whose
entry is at the index it waits for as long as the node has led since
(`WaitsForFirst`); requests are answered in the order in which they were asked. `MemInv`:
the file begins with commands in the order of their ids and has zeros behind them,
up to `seek`. It says nothing once a child was forked, and neither does
the property: what the child writes does not follow the commands (above).

### The message queue

`MqInv` puts what each side knows in one relation, `Covered(n, p, s)`: all packets of
the partition below offset `n` are among the messages seen. The partition is whole
(`PartOk`: files follow one another, offsets are numbered, the lines of each index,
in memory, in the buffer and on disk, lead to their packets). What is on the way to
the broker asks for or commits an offset that is covered; a packet on the way to
the consumer has all before it received or ahead of it in the same
queue (`NetOk`). Offsets of the consumer (`ConsumerOk`) and those at the broker, its
copy and its file (`BrokerOk`) are covered. Since the partition only grows and so does
what was seen, a crash, a lost connection and a message sent again keep all of it. So does a
death in the making of files, since the packets of the partition are those of its other files
(`DiesInFilesKeeps`); a broker that started astray is outside of what is claimed of the index.

### Connections, clients, threads, tables

`ServicesInv` has a part for each of the four.

- `ServerInv`: each connection's record is consistent (`RecordOk`), and for each queue,
  each functor meets its connection in the right state and in its own loop; all but a
  shutdown are queued once; and a shutdown is ahead of the functor that destroys its
  connection (`QueuesOk`), which is what makes the plain pointer of `shutdown` safe.
  `ClosingOk` says the same of a timer between the steps of `shutdown`: its
  connection has not been removed, since the accepting loop would have to do it.
- `ClientInv`: the connector is on one way at a time, and what the batch of events
  and the functors hold of its channel fits: a channel is reset only when no restart
  can have made a new one, or the client was stopped.
- `ThreadInv` follows owner and thread from the start to the join.
- `DirInv`: a descriptor is one host's from its connection until its end was
  read, so no registration takes the place of another host's in the table.

### What is not proved

- *Liveness*: `FunctorsRun`, `QuitEnds`, `TimersRun`, `ConnectionsEnd`, `Reconnects`,
  `ThreadsStartAndEnd`, `BusdFollowsBrokers`. Fairness and ENABLED are out of the
  prover's reach; TLC checks them.
- *The log of raft beyond one leader and one ring*: `StateMachinesAgree` and
  `AckedIsReplicated` are theorems under `OneReign` only; `AppliedCountsState` and
  `LeaderRingIntact`, which are about compaction, snapshots and restarts, are
  model-checked only. Beyond the bounds of the runs the ring overflows and the first is
  false, and the length that a follower answers with is stale and so is the second, so there is no
  theorem to prove for all bounds.
- *The trees*: `TreesAreWhole` and `BPlusTreeAdds` are about recursive operators, on
  which the prover cannot do induction.

## Not modelled

- *HTTP server*: parsing and formatting. What it does with connections is the
  user of `TcpServer`.
- *UdpConnection*: in raft, the network that loses, repeats and reorders stands
  for it.
- *Buffer, Socket, Address, Timestamp, Log, daemon, files, signals*: wrappers of
  system calls and formatting, without a protocol of their own.
- *The poll(2) poller and the table of channels*: `TcpConnection` includes what the
  epoll poller keeps of a channel.
- *TcpConnection::send from another thread*: the servers modelled send in the
  loop of the connection; *sendFile*, whose only call is commented out
  (`partition.cc:251`).
- *Calls of a TcpClient from another thread than its loop's.*
- *Cancelling a subscription*: `Consumer::cancelSubscribe`, which sends a packet without the topic
  it counts, and the command of the broker that it is for (`mqbroker.cc:243`); and a *pull
  from an offset of the user's choice* (`consumer.cc:286`), which gives up the order on
  purpose. No program calls them.
- *The text protocol of memcached*: commands are whole; `get` changes nothing.
- *Consistent hash*: its placement is that of MD5.
- *Several topics, groups and brokers* in `Mq`: they share nothing but the
  loop of their client.

## Plan

All modules are written, and every invariant that holds for all bounds and
uses no recursive operator is a theorem. What may be added:

1. A node with its log over three elections, for the slots behind the end of a log that was
   shortened (`raft.cc:539`), which no run of `Raft` reaches.
2. The theorems about the log of raft for a ring that is compacted, as far as
   there is always an applied entry to free.
3. The two calls of `HandleDeliver` (`mqbroker.cc:181-182`) as actions of their own, so that an
   acknowledgement before its packet is stored can be told from one after it.
4. The cancelling of subscriptions.
