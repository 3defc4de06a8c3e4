----------------------------- MODULE ShamQueue -----------------------------
(* skylu/base/shamqueue.cc: a ring of blocks in System V shared memory, with *)
(* its indices and three semaphores, opened by several processes.  A segment *)
(* is what shmget makes; a key names at most one, which may be removed while *)
(* processes are still attached to it.                                       *)
EXTENDS Integers, Sequences, FiniteSets

CONSTANTS
    Writer, Reader,   \* processes; they end in write or in read
    Blocks,           \* blocks of the ring
    MaxWrites,        \* bound: writes altogether
    MaxSegments       \* bound: segments made

ASSUME RingAssumption ==
    Blocks \in Nat \ {0} /\ MaxWrites \in Nat /\ IsFiniteSet(Writer \cup Reader)

VARIABLES
    segments,  \* the segments made, each the shmhead_t and the blocks
    key,       \* index of the segment that the key names, 0 for none
    proc,      \* process -> what it does next, and its segment
    written, got   \* per segment: what was written and read, in order

queueVars == <<segments, key, proc, written, got>>

Process == Writer \cup Reader
NoSegment == 0
Raw == [ready |-> FALSE, rd |-> 0, wr |-> 0, mutex |-> 0, full |-> 0, empty |-> 0,
        payload |-> [i \in 0..Blocks - 1 |-> 0]]
OneTooMany == [Raw EXCEPT !.ready = TRUE, !.mutex = 1, !.full = Blocks + 1]   \* mutant
SetUp == [Raw EXCEPT !.ready = TRUE, !.mutex = 1, !.full = Blocks]

InitQueue ==
    /\ segments = <<>> /\ key = NoSegment
    /\ proc = [p \in Process |-> [pc |-> "closed", seg |-> NoSegment, buf |-> 0]]
    /\ written = <<>> /\ got = <<>>

Goes(p, pc) == proc' = [proc EXCEPT ![p].pc = pc]
Seg(p) == segments[proc[p].seg]

\* open: it attaches to what the key names, set up or not, or goes to init.
Open(p) ==
    /\ proc[p].pc = "closed"
    /\ IF key = NoSegment THEN Goes(p, "init")
       ELSE proc' = [proc EXCEPT ![p] = [pc |-> "open", seg |-> key, buf |-> 0]]
    /\ UNCHANGED <<segments, key, written, got>>

\* init removes what the key names by now, makes a segment of its own, and
\* sets it up.  If another process has made one in between, it has none, and
\* ends at the first access.
RemoveOld(p) ==
    /\ proc[p].pc = "init"
    /\ key' = NoSegment
    /\ Goes(p, "create")
    /\ UNCHANGED <<segments, written, got>>
CreateSegment(p) ==
    /\ proc[p].pc = "create"
    /\ IF key # NoSegment
       THEN Goes(p, "dead") /\ UNCHANGED <<segments, key, written, got>>
       ELSE /\ Len(segments) < MaxSegments
            /\ segments' = Append(segments, Raw)
            /\ written' = Append(written, <<>>) /\ got' = Append(got, <<>>)
            /\ key' = Len(segments) + 1
            /\ proc' = [proc EXCEPT ![p] = [@ EXCEPT !.pc = "setup", !.seg = key']]
SetsUp(p) ==
    /\ proc[p].pc = "setup"
    /\ segments' = [segments EXCEPT ![proc[p].seg] = SetUp]
    /\ Goes(p, "open")
    /\ UNCHANGED <<key, written, got>>

\* close, and destroy, which removes the segment whose id is in the header:
\* it loses its key, and is there until the last process has left it.  Those
\* who are attached, or wait at a semaphore, go on: sem_destroy touches nothing.
\* The id is 0 as long as the header is not set up, which may be another's.
Close(p) ==
    /\ proc[p].pc = "open"
    /\ proc' = [proc EXCEPT ![p] = [pc |-> "closed", seg |-> NoSegment, buf |-> 0]]
    /\ UNCHANGED <<segments, key, written, got>>
Destroy(p) ==
    /\ proc[p].pc = "open"
    /\ \/ key' = IF key = proc[p].seg THEN NoSegment ELSE key
       \/ ~Seg(p).ready /\ key' = key
    /\ proc' = [proc EXCEPT ![p] = [pc |-> "closed", seg |-> NoSegment, buf |-> 0]]
    /\ UNCHANGED <<segments, written, got>>
\* The static Destroy removes what the key names, by one who need not be attached.
DestroyKey ==
    /\ key' = NoSegment
    /\ UNCHANGED <<segments, proc, written, got>>

Wait(p, pc, sem, next) ==
    /\ proc[p].pc = pc /\ Seg(p)[sem] > 0
    /\ segments' = [segments EXCEPT ![proc[p].seg][sem] = @ - 1]
    /\ Goes(p, next)
    /\ UNCHANGED <<key, written, got>>
Post(p, pc, sem, next) ==
    /\ proc[p].pc = pc
    /\ segments' = [segments EXCEPT ![proc[p].seg][sem] = @ + 1]
    /\ Goes(p, next)
    /\ UNCHANGED <<key, written, got>>

\* write
Writes == Cardinality({w \in (1..Len(written)) \X (1..MaxWrites) : w[2] <= Len(written[w[1]])})
WaitFull(p)  == p \in Writer /\ Wait(p, "open", "full", "lock")
WaitMutex(p) == Wait(p, "lock", "mutex", "copy")
Write(p) ==
    /\ proc[p].pc = "copy" /\ Writes < MaxWrites
    /\ LET s == proc[p].seg
       IN  /\ segments' = [segments EXCEPT ![s].payload[Seg(p).wr] = Writes + 1,
                                           ![s].wr = (@ + 1) % Blocks]
           /\ written' = [written EXCEPT ![s] = Append(@, Writes + 1)]
    /\ Goes(p, "unlock")
    /\ UNCHANGED <<key, got>>
PostMutex(p) == Post(p, "unlock", "mutex", "posts")
PostEmpty(p) == Post(p, "posts", "empty", "open")

\* read, without the mutex
WaitEmpty(p) == p \in Reader /\ Wait(p, "open", "empty", "read")
Read(p) ==
    /\ proc[p].pc = "read"
    /\ proc' = [proc EXCEPT ![p] = [@ EXCEPT !.pc = "move", !.buf = Seg(p).payload[Seg(p).rd]]]
    /\ UNCHANGED <<segments, key, written, got>>
MoveIndex(p) ==
    /\ proc[p].pc = "move"
    /\ segments' = [segments EXCEPT ![proc[p].seg].rd = (@ + 1) % Blocks]
    /\ got' = [got EXCEPT ![proc[p].seg] = Append(@, proc[p].buf)]
    /\ Goes(p, "post")
    /\ UNCHANGED <<key, written>>
PostFull(p) == Post(p, "post", "full", "open")

NextQueue ==
    \/ DestroyKey
    \/ \E p \in Process :
        \/ Open(p) \/ RemoveOld(p) \/ CreateSegment(p) \/ SetsUp(p) \/ Close(p) \/ Destroy(p)
        \/ WaitFull(p) \/ WaitMutex(p) \/ Write(p) \/ PostMutex(p) \/ PostEmpty(p)
        \/ WaitEmpty(p) \/ Read(p) \/ MoveIndex(p) \/ PostFull(p)

SpecQueue == InitQueue /\ [][NextQueue]_queueVars
-----------------------------------------------------------------------------
\* Every segment is a queue: with one reader, what is read is what was written,
\* each once and in order, and no block is written over before it is read,
\* however processes come, wait and go, and whoever attaches before the
\* segment is set up (open shamqueue.cc:145, write 187, read 202).
SegmentIsQueue ==
    \A s \in DOMAIN segments :
        /\ Len(got[s]) <= Len(written[s])
        /\ got[s] = SubSeq(written[s], 1, Len(got[s]))
        /\ Len(written[s]) - Len(got[s]) <= Blocks

\* The semaphores agree with the ring: nothing is lost or made between them.
SemaphoresCount ==
    \A s \in DOMAIN segments :
        segments[s].ready =>
            LET At(pcs) == Cardinality({p \in Process : proc[p].seg = s /\ proc[p].pc \in pcs})
            IN  segments[s].full + segments[s].empty
                  + At({"lock", "copy", "unlock", "posts", "read", "move", "post"}) = Blocks

\* The ring in shared memory is a queue, and its semaphores count its blocks.
SharedRingIsQueue == SegmentIsQueue /\ SemaphoresCount
=============================================================================
