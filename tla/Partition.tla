----------------------------- MODULE Partition -----------------------------
(* Partition of example/mqbroker/partition.cc: the packets of one topic in   *)
(* log files of a fixed size, and for each a sparse index from an offset in  *)
(* the file to a position.  A partition is a record; the log files are       *)
(* mapped and outlive the process, an index file has what was synced.        *)
EXTENDS Integers, Sequences, SequencesExt, FiniteSetsExt

CONSTANTS
    FileMax,           \* ksingleFileMaxSize
    BlockMax,          \* kMsgblockMaxSize
    IndexMinInterval,  \* kIndexMinInterval
    Limits             \* maxEnableBytes of a pull; FileMax stands for none

\* A packet, which is at most two units long, fits in a file.
ASSUME PartitionAssumption ==
    /\ FileMax \in Nat /\ FileMax >= 2 /\ BlockMax \in Nat /\ IndexMinInterval \in Nat
    /\ Limits \subseteq Nat

NoPartition == [size |-> 0, files |-> <<>>, buffer |-> <<>>, last |-> 0, dirty |-> FALSE]
Exists(p) == p.files # <<>>

\* The position behind the first n packets of a log; a packet knows where it ends.
Position(log, n) == IF n = 0 THEN 0 ELSE log[n].ends
LengthOf(log) == Position(log, Len(log))
Packets(p) == UNION {{p.files[i].log[j] : j \in DOMAIN p.files[i].log} : i \in DOMAIN p.files}

\* The lines of one index over those of another.
Over(f, g) == [k \in DOMAIN f \cup DOMAIN g |-> IF k \in DOMAIN f THEN f[k] ELSE g[k]]

\* syncTodisk appends the buffered index lines to the last index file.
SyncToDisk(p) ==
    IF p.dirty
    THEN [p EXCEPT !.files[Len(p.files)].disk = Over(p.buffer, @), !.buffer = <<>>, !.dirty = FALSE]
    ELSE p

MmapNewLog(p) ==
    LET q == SyncToDisk(p)
    IN  [q EXCEPT !.files = Append(@, [first |-> q.size, log |-> <<>>, index |-> <<>>, disk |-> <<>>]),
                  !.last = 0]

NewPartition == MmapNewLog(NoPartition)

\* The position of an index entry in memory, where the packet begins, and in
\* the file, where it ends; the offset is that of the packet behind it.
Begins(file) == LengthOf(file.log)
EndsTwice(file, m) == LengthOf(file.log) + 2 * m.len   \* mutant
Ends(file, m) == LengthOf(file.log) + m.len

\* A packet of a file that has room for it.
PutInFile(q, m) ==
    LET n    == Len(q.files)
        file == q.files[n]
        packet  == [id |-> m.id, offset |-> q.size, ends |-> Begins(file) + m.len]
        inFile  == q.size + 1 - file.first
        indexed == m.len > BlockMax \/ inFile > q.last + IndexMinInterval
        Put(f, position) == IF indexed THEN Over([k \in {inFile} |-> position], f) ELSE f
        longer  == [file EXCEPT !.log = Append(@, packet), !.index = Put(@, Begins(file))]
    IN  [q EXCEPT !.files[n] = longer,
                  !.buffer = Put(@, Ends(file, m)),
                  !.last = IF indexed THEN inFile ELSE @,
                  !.size = @ + 1,
                  !.dirty = TRUE]

IsFull(p, m) == FileMax - LengthOf(Last(p.files).log) < m.len
AddToLog(p, m) == PutInFile(IF IsFull(p, m) THEN MmapNewLog(p) ELSE p, m)

\* The constructor of a partition that is there: loadIndex reads the index
\* files, findLastSequenceMsg counts the packets of the last log.
Recovered(p) ==
    LET files == [i \in DOMAIN p.files |-> [p.files[i] EXCEPT !.index = p.files[i].disk]]
        end   == Last(files)
    IN  [size |-> end.first + Len(end.log), files |-> files, buffer |-> <<>>, dirty |-> FALSE,
         last |-> IF end.index = <<>> THEN 0 ELSE Max(DOMAIN end.index)]

\* The same when the process died in mmapNewLog, with an index file and no log
\* for it: the last log is then read for the last index.
RecoveredWithoutLog(p) ==
    LET next == [first |-> p.size, log |-> Last(p.files).log, index |-> <<>>, disk |-> <<>>]
    IN  Recovered([p EXCEPT !.files = Append(@, next)])

\* The number of packets before the one sendToConsumer starts with: from the
\* index entry found, or the start, it goes on packet by packet.
IndexLine(index, offset) ==
    LET up == {k \in DOMAIN index : k >= offset}
        down == {k \in DOMAIN index : k <= offset}
    IN  IF up = {} \/ down = {} THEN 0 ELSE Max(down)
PacketAt(log, position) == CHOOSE j \in 0..Len(log) : Position(log, j) = position
StartAt(file, offset) ==
    LET line == IndexLine(file.index, offset)
    IN  IF line = 0 THEN offset
        ELSE PacketAt(file.log, file.index[line]) + offset - line

\* sendToConsumer for an offset below the size.  The packets that end before
\* the end of the file and within the limit are sent; the assertion is that
\* there is one.
FileOf(p, offset) == p.files[Max({i \in DOMAIN p.files : p.files[i].first <= offset})]
SendToConsumer(p, offset, limit) ==
    LET file  == FileOf(p, offset)
        start == StartAt(file, offset - file.first)
        fits  == {i \in start + 1..Len(file.log) :
                    /\ Position(file.log, i) < FileMax
                    /\ Position(file.log, i) - Position(file.log, start) <= limit}
    IN  SubSeq(file.log, start + 1, start + Cardinality(fits))
-----------------------------------------------------------------------------
\* What the index promises: an entry leads to the packet of its offset or to
\* the one before, and the offsets count the packets across all files, so that
\* no pull starts behind what it asked for.
LeadsToPacket(log, index) ==
    \A k \in DOMAIN index : k \in 1..Len(log) /\ \E j \in {k - 1, k} : index[k] = Position(log, j)
OffsetsCount(p) ==
    /\ \A i \in DOMAIN p.files : \A j \in DOMAIN p.files[i].log : p.files[i].log[j].offset = p.files[i].first + j - 1
    /\ \A i \in DOMAIN p.files : p.files[i].first =
            IF i = 1 THEN 0 ELSE p.files[i - 1].first + Len(p.files[i - 1].log)
IndexIsRight(p) ==
    OffsetsCount(p) /\ \A i \in DOMAIN p.files : LeadsToPacket(p.files[i].log, p.files[i].index)
=============================================================================
