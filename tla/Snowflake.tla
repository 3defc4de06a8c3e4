------------------------------ MODULE Snowflake ------------------------------
(* SnowflakeIdWorker of skylu/base/snowflake.h in one process: identifiers   *)
(* from the clock, in milliseconds, and a sequence within one.  The numbers  *)
(* of worker and data center stay the same and are left out.                 *)
EXTENDS Integers

CONSTANTS
    PerMilli,     \* sequence numbers within a millisecond (4096 in the code)
    MaxClock      \* bound: the last millisecond

ASSUME PerMilliAssumption == PerMilli \in Nat \ {0}

VARIABLES
    clock,             \* the system's clock, which may be set back
    lastTimestamp, sequence,
    blocked,           \* nextId waits in tilNextMillis, with the lock held
    issued             \* the identifiers returned: time and sequence

idVars == <<clock, lastTimestamp, sequence, blocked, issued>>

InitIds ==
    /\ clock = 1 /\ lastTimestamp = 0 /\ sequence = 0
    /\ blocked = FALSE /\ issued = {}

ClockMoves ==
    /\ clock' \in 1..MaxClock \ {clock}
    /\ UNCHANGED <<lastTimestamp, sequence, blocked, issued>>

\* The identifier: the time above, the sequence below.
Id(time, seq) == time * PerMilli + seq
Issue(time, seq) ==
    /\ lastTimestamp' = time /\ sequence' = seq
    /\ issued' = issued \cup {Id(time, seq)}

AnyClock == TRUE   \* mutant
ClockIsFine == clock >= lastTimestamp

\* nextId throws when the clock is behind, and waits when the sequence is used
\* up, which leaves it at 0.
NextId ==
    /\ ~blocked /\ ClockIsFine
    /\ LET seq == IF clock = lastTimestamp THEN (sequence + 1) % PerMilli ELSE 0
       IN  IF clock = lastTimestamp /\ seq = 0
           THEN /\ blocked' = TRUE /\ sequence' = 0
                /\ UNCHANGED <<lastTimestamp, issued>>
           ELSE Issue(clock, seq) /\ UNCHANGED blocked
    /\ UNCHANGED clock
TilNextMillis ==
    /\ blocked /\ clock > lastTimestamp
    /\ Issue(clock, sequence)
    /\ blocked' = FALSE
    /\ UNCHANGED clock

NextIds == ClockMoves \/ NextId \/ TilNextMillis

SpecIds == InitIds /\ [][NextIds]_idVars
-----------------------------------------------------------------------------
\* A step that issues an identifier issues one above all before it, though the
\* sequence wraps and the clock is set back and forth (nextId snowflake.h:56).
IdIsNewest ==
    /\ \A i \in issued' \ issued, j \in issued : j < i
    /\ (lastTimestamp' # lastTimestamp \/ (sequence' # sequence /\ ~blocked'))
          => issued' # issued

\* An identifier is above all before it, however the clock is set back.
IdsIncrease == [][IdIsNewest]_idVars
=============================================================================
