----------------------------- MODULE Memcached ------------------------------
(* The key-value server of example/memcached with its append-only file      *)
(* (memcachedserver.cpp, session.cpp, item.cpp): commands change the items  *)
(* and then go to the file, which is mapped into memory, a timer lets the   *)
(* next one go there, a child process rewrites the file when it has grown,  *)
(* and its end is told by a signal, at any moment.  The process may crash;  *)
(* what it wrote to the mapped file stays, and children live on.            *)
EXTENDS Integers, Sequences, FiniteSets

CONSTANTS
    Key, Data, Flag,
    AofLength,       \* aof_file_length, in commands
    MaxCommands, MaxForks, MemCrashes        \* bounds

ASSUME FileAssumption == AofLength \in Nat /\ MaxForks \in Nat

VARIABLES
    up,          \* the process runs
    items,       \* Key -> [value, flag], a function on the keys that are there
    aofState,    \* m_aof_state
    seek,        \* m_aof_seek, in commands
    files,       \* inode -> sequence of cells: a command, Zeros or Junk
    aof,         \* the inode that aof_file_name names
    rewritten,     \* the inode that aof_written_file_name names, or None
    children,    \* the rewriting children: [id, file, pos, rest, orphan]
    forks,       \* how many there have been
    signalled,   \* a SIGCHLD was not handled yet
    commands,    \* how many commands were carried out
    ended        \* how often the process crashed

fileVars == <<files, aof, rewritten>>
memVars == <<up, items, aofState, seek, fileVars, children, forks, signalled, commands, ended>>

None == 0
Zeros == [id |-> -1]
Junk == [id |-> -2]
NoItems == [k \in {} |-> 0]
Inode == 1..(MaxForks + 1)

Filled(s) == s \o [i \in 1..(AofLength - Len(s)) |-> Zeros]

InitMem ==
    /\ up = FALSE /\ items = NoItems /\ aofState = "Init" /\ seek = 0
    /\ files = [i \in Inode |-> <<>>] /\ aof = 1 /\ rewritten = None
    /\ children = {} /\ forks = 0 /\ signalled = FALSE /\ commands = 0 /\ ended = 0
-----------------------------------------------------------------------------
(* Items.                                                                   *)

\* set: an item that is there gets the value and keeps its flag.
SetItem(m, c) ==
    [k \in DOMAIN m \cup {c.key} |->
        IF k /= c.key THEN m[k]
        ELSE [value |-> c.value, flag |-> IF k \in DOMAIN m THEN m[k].flag ELSE c.flag]]

DeleteItem(m, c) == [k \in DOMAIN m \ {c.key} |-> m[k]]
CarriedOut(m, c) == IF c.op = "set" THEN SetItem(m, c) ELSE DeleteItem(m, c)

IsCommand(cell) == cell.id >= 0
\* The cells that LoadAof reads: all before the first that is no command.
Readable(file) ==
    CHOOSE n \in 0..Len(file) :
        /\ \A i \in 1..n : IsCommand(file[i])
        /\ n < Len(file) => ~IsCommand(file[n + 1])

\* The items after the first n commands of the file.
Replay(file, n) ==
    LET after[i \in 0..n] == IF i = 0 THEN NoItems ELSE CarriedOut(after[i - 1], file[i])
    IN after[n]

\* run: init maps the file at its full length, LoadAof replays it through the
\* session, which appends nothing as the state is Init.
Run ==
    /\ ~up
    /\ LET file == Filled(files[aof]) n == Readable(file)
       IN files' = [files EXCEPT ![aof] = file] /\ items' = Replay(file, n) /\ seek' = n
    /\ up' = TRUE /\ aofState' = "Append"
    /\ UNCHANGED <<aof, rewritten, children, forks, signalled, commands, ended>>

\* The process ends, by a crash or a failed assertion; its children live on.
End ==
    /\ up' = FALSE /\ aofState' = "Init" /\ items' = NoItems /\ seek' = 0 /\ signalled' = FALSE
    /\ UNCHANGED fileVars

Orphaned(chs) == {[ch EXCEPT !.orphan = TRUE] : ch \in chs}

Crash ==
    /\ up /\ ended < MemCrashes /\ ended' = ended + 1
    /\ End /\ children' = Orphaned(children)
    /\ UNCHANGED <<forks, commands>>
-----------------------------------------------------------------------------
(* appendAof.  A signal that comes between two instructions of a handler is *)
(* undone by the next assignment to the state.                              *)
MayBeMissed == signalled' = signalled \/ signalled' = FALSE

\* Half of the file is full: a child is forked with the items as they are.
Rewrites == aofState = "Append" /\ 2 * (seek + 2) > AofLength

Forked(m) ==
    children \cup {[id |-> forks + 1, file |-> None, pos |-> 0, rest |-> m, orphan |-> FALSE]}

\* The assertion of line 169.
Room == seek + 1 < AofLength

\* Mutant: the next command overwrites this one.
PutHere(c) ==
    /\ files' = [files EXCEPT ![aof][seek + 1] = c]
    /\ aofState' = "Sync" /\ UNCHANGED <<seek, aof, rewritten>> /\ MayBeMissed

Put(c) ==
    /\ files' = [files EXCEPT ![aof][seek + 1] = c]
    /\ seek' = seek + 1 /\ aofState' = "Sync"
    /\ UNCHANGED <<aof, rewritten>> /\ MayBeMissed

\* The rewritten file takes the place of the old one, if it is there, and is
\* extended to its full length; seek is its length before.  The command of this
\* call is not in it: it found the state changed.
TakeOver ==
    /\ aof' = IF rewritten = None THEN aof ELSE rewritten
    /\ rewritten' = None
    /\ seek' = Len(files[aof']) /\ files' = [files EXCEPT ![aof'] = Filled(@)]
    /\ aofState' = "Sync" /\ MayBeMissed

\* In the state Sync the command goes nowhere.
Takes(c) ==
    \/ /\ aofState = "Append" /\ Room /\ Put(c)
    \/ /\ aofState = "ReWrittened" \/ (Rewrites /\ signalled)
       /\ TakeOver
    \/ /\ aofState = "Sync" /\ UNCHANGED <<fileVars, seek, aofState, signalled>>

AppendAof(c, m) ==
    /\ Rewrites => forks < MaxForks
    /\ forks' = IF Rewrites THEN forks + 1 ELSE forks
    /\ \/ /\ Takes(c)
          /\ items' = m /\ UNCHANGED up
          /\ children' = IF Rewrites THEN Forked(m) ELSE children
       \/ /\ aofState = "Append" /\ (~Room \/ (Rewrites /\ signalled))
          /\ End
          /\ children' = Orphaned(IF Rewrites /\ ~Room THEN Forked(m) ELSE children)

Command(c) ==
    /\ up /\ commands < MaxCommands /\ commands' = commands + 1
    /\ AppendAof(c, CarriedOut(items, c))
    /\ UNCHANGED ended

\* Session: a set is always stored, a delete only answered so if it found its item.
Set(k, v, f) == Command([id |-> commands, op |-> "set", key |-> k, value |-> v, flag |-> f])
Delete(k) ==
    /\ k \in DOMAIN items
    /\ Command([id |-> commands, op |-> "delete", key |-> k, value |-> 0, flag |-> 0])

\* Every second; it does not look whether a child is at work.
AofSync ==
    /\ up /\ aofState \in {"Sync", "Append"}
    /\ aofState' = "Append" /\ MayBeMissed
    /\ UNCHANGED <<up, items, seek, fileVars, children, forks, commands, ended>>

SetReWrittened ==
    /\ up /\ signalled
    /\ aofState' = "ReWrittened" /\ signalled' = FALSE
    /\ UNCHANGED <<up, items, seek, fileVars, children, forks, commands, ended>>
-----------------------------------------------------------------------------
(* A child: it opens and truncates the file of that name, then writes an    *)
(* item at a time.  The flag is written where the parser looks for the time,*)
(* and as neither key nor value ends with a zero, what follows them in      *)
(* memory may be written too, which the parser makes nothing of.            *)
ChildOpen(ch) ==
    /\ ch.file = None
    /\ LET inode == IF rewritten = None THEN aof + 1 ELSE rewritten
       IN /\ files' = [files EXCEPT ![inode] = <<>>] /\ rewritten' = inode
          /\ children' = (children \ {ch}) \cup {[ch EXCEPT !.file = inode]}
    /\ UNCHANGED <<up, items, aofState, seek, aof, forks, signalled, commands, ended>>

Written(file, pos, cell) ==
    [i \in 1..(IF pos > Len(file) THEN pos ELSE Len(file)) |->
        IF i = pos THEN cell ELSE IF i <= Len(file) THEN file[i] ELSE Zeros]

Rewritten(k, item) == [id |-> 0, op |-> "set", key |-> k, value |-> item.value, flag |-> 0]

ChildWrite(ch) ==
    /\ ch.file /= None
    /\ \E k \in DOMAIN ch.rest : \E cell \in {Rewritten(k, ch.rest[k]), Junk} :
          /\ files' = [files EXCEPT ![ch.file] = Written(@, ch.pos + 1, cell)]
          /\ children' = (children \ {ch}) \cup
                 {[ch EXCEPT !.pos = @ + 1, !.rest = [j \in DOMAIN @ \ {k} |-> @[j]]]}
    /\ UNCHANGED <<up, items, aofState, seek, aof, rewritten, forks, signalled, commands, ended>>

ChildExit(ch) ==
    /\ ch.file /= None /\ DOMAIN ch.rest = {}
    /\ children' = children \ {ch}
    /\ signalled' = (signalled \/ (up /\ ~ch.orphan))
    /\ UNCHANGED <<up, items, aofState, seek, fileVars, forks, commands, ended>>

NextMem ==
    \/ Run \/ Crash \/ AofSync \/ SetReWrittened
    \/ \E k \in Key : Delete(k) \/ \E v \in Data, f \in Flag : Set(k, v, f)
    \/ \E ch \in children : ChildOpen(ch) \/ ChildWrite(ch) \/ ChildExit(ch)

SpecMem == InitMem /\ [][NextMem]_memVars
-----------------------------------------------------------------------------
\* Until the first rewrite the file holds commands in the order in which they
\* were carried out, none twice and with no gap, over crashes and restarts, and
\* the next one goes behind them: the replay of LoadAof appends nothing, and
\* leaves m_aof_seek at its end (memcachedserver.cpp:86, :144, :167).
FileFollowsCommands ==
    forks = 0 =>
        LET file == files[aof] n == Readable(file)
        IN /\ \A i \in 1..(n - 1) : file[i].id < file[i + 1].id
           /\ \A i \in (n + 1)..Len(file) : file[i] = Zeros
           /\ up => seek = n
=============================================================================
