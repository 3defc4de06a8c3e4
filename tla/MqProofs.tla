------------------------------ MODULE MqProofs ------------------------------
(***************************************************************************)
(* Proofs about the message queue: no message is forgotten, the consumer   *)
(* sees the log in its order, commits cover only what it has received, and *)
(* the sparse index leads to the right packets, for any number of packets, *)
(* crashes and lost connections.                                           *)
(***************************************************************************)
EXTENDS Mq, FiniteSetTheorems, SequenceTheorems, WellFoundedInduction, TLAPS

\* A sequence of whatever it holds.
IsSeq(s) == s \in Seq(InRange(s))

IsFile(f) == f = [first |-> f.first, log |-> f.log, index |-> f.index, disk |-> f.disk]
\* A log file: its packets lie one behind the other, and its index and its index
\* file lead to them.
FileOk(f) ==
    /\ IsFile(f) /\ f.first \in Nat /\ IsSeq(f.log)
    /\ \A j \in DOMAIN f.log : f.log[j].offset = f.first + j - 1 /\ f.log[j].ends \in Nat \ {0}
    /\ \A i, j \in DOMAIN f.log : i < j => f.log[i].ends < f.log[j].ends
    /\ LeadsToPacket(f.log, f.index) /\ LeadsToPacket(f.log, f.disk)

\* The files follow one another.
EndOf(file) == file.first + Len(file.log)
FilesOk(files) ==
    /\ IsSeq(files) /\ \A i \in DOMAIN files : FileOk(files[i])
    /\ \A i \in DOMAIN files : files[i].first = IF i = 1 THEN 0 ELSE EndOf(files[i - 1])
    /\ \A i, j \in DOMAIN files : i < j => EndOf(files[i]) <= files[j].first

\* A partition: what was not synced belongs to its last file.
PartOk(p) ==
    /\ p = [size |-> p.size, files |-> p.files, buffer |-> p.buffer, last |-> p.last, dirty |-> p.dirty]
    /\ p.size \in Nat /\ p.dirty \in BOOLEAN /\ (p.dirty \/ p.buffer = <<>>)
    /\ FilesOk(p.files)
    /\ IF Exists(p)
       THEN /\ p.size = EndOf(Last(p.files))
            /\ LeadsToPacket(Last(p.files).log, p.buffer)
       ELSE p.size = 0 /\ ~p.dirty

\* For a partition p and what a consumer has seen: it has received all packets
\* below an offset, and they are there.
Covered(n, p, s) == n \in 0..p.size /\ \A m \in Packets(p) : m.offset < n => m.id \in InRange(s)

RequestsOk(queue, p, s) ==
    /\ IsSeq(queue)
    /\ \A k \in DOMAIN queue : queue[k].command \in {"pull", "commit"} => Covered(queue[k].offset, p, s)

\* A packet on its way to the consumer: all before it were received, or are
\* under way before it.
MessageOk(queue, k, p, s) ==
    /\ \E m \in Packets(p) : m.offset = queue[k].offset /\ m.id = queue[k].id
    /\ \A m \in Packets(p) : m.offset < queue[k].offset =>
            \/ m.id \in InRange(s)
            \/ \E l \in 1..k - 1 : queue[l].command = "message" /\ queue[l].id = m.id
RepliesOk(queue, p, s) ==
    /\ IsSeq(queue)
    /\ \A k \in DOMAIN queue : queue[k].command = "too large" => Covered(queue[k].offset, p, s)
    /\ \A k \in DOMAIN queue : queue[k].command = "message" => MessageOk(queue, k, p, s)

\* What SeesLogInOrder says of its n-th message.
SeesNth(n, p, s) ==
    /\ \A k \in 1..n - 1 : s[k] # s[n]
    /\ \E m \in Packets(p) :
          /\ m.id = s[n]
          /\ \A before \in Packets(p) : before.offset < m.offset => \E k \in 1..n - 1 : s[k] = before.id

ReceivedOk(r, p, s) == IsSeq(r) /\ \A k \in DOMAIN r : r[k] \in Nat /\ Covered(r[k] + 1, p, s)

Ids(p) == {m.id : m \in Packets(p)}

ToBrokerOk(queues, p, s) ==
    DOMAIN queues = Client /\ IsSeq(queues["producer"]) /\ RequestsOk(queues["consumer"], p, s)
ToClientOk(queues, p, s) ==
    /\ DOMAIN queues = Client /\ IsSeq(queues["producer"]) /\ RepliesOk(queues["consumer"], p, s)
    /\ InRange(queues["producer"]) \subseteq Ids(p)
NetOk == ToBrokerOk(toBroker, part, seen) /\ ToClientOk(toClient, part, seen)

ConsumerOk ==
    /\ IsSeq(seen) /\ \A n \in DOMAIN seen : SeesNth(n, part, seen)
    /\ Covered(local, part, seen) /\ ReceivedOk(recv, part, seen)

BrokerOk == Covered(group, part, seen) /\ Covered(replicate, part, seen) /\ Covered(commitFile, part, seen)

ProducerOk == puts \in Nat /\ IsSeq(sendQueue) /\ IsFiniteSet(resend) /\ NothingForgotten

MqInv == PartOk(part) /\ NetOk /\ ConsumerOk /\ BrokerOk /\ ProducerOk

(***************************************************************************)
(* Sequences, sets of numbers, the lines of an index.                      *)
(***************************************************************************)
LEMMA SeqIs ==
  ASSUME NEW S, NEW s \in Seq(S)
  PROVE  IsSeq(s)
<1>1. s \in [1..Len(s) -> S] /\ Len(s) \in Nat /\ DOMAIN s = 1..Len(s)
  BY LenProperties
<1>2. s \in [1..Len(s) -> InRange(s)]
  BY <1>1 DEF InRange
<1>3. s \in Seq(InRange(s))
  BY <1>1, <1>2
<1> QED BY <1>3 DEF IsSeq

LEMMA SeqFacts ==
  ASSUME NEW s, IsSeq(s)
  PROVE  /\ Len(s) \in Nat /\ DOMAIN s = 1..Len(s) /\ s = [i \in 1..Len(s) |-> s[i]]
         /\ s # <<>> => 1 \in DOMAIN s /\ Len(s) \in DOMAIN s
<1>1. s \in Seq(InRange(s))
  BY DEF IsSeq
<1> QED BY <1>1, LenProperties, EmptySeq

LEMMA SeqFun ==
  ASSUME NEW n \in Nat, NEW f, DOMAIN f = 1..n, f = [i \in 1..n |-> f[i]]
  PROVE  IsSeq(f) /\ Len(f) = n
<1>1. f \in [1..n -> InRange(f)]
  BY DEF InRange
<1>2. f \in Seq(InRange(f)) /\ Len(f) = n
  BY <1>1
<1> QED BY <1>2 DEF IsSeq

LEMMA SeqEmpty == IsSeq(<<>>) /\ DOMAIN <<>> = {} /\ Len(<<>>) = 0 /\ InRange(<<>>) = {}
<1>1. DOMAIN <<>> = {} /\ <<>> \in Seq({}) /\ Len(<<>>) = 0
  OBVIOUS
<1> QED BY <1>1, SeqIs DEF InRange

LEMMA SeqOne ==
  ASSUME NEW e
  PROVE  IsSeq(<<e>>) /\ Len(<<e>>) = 1 /\ DOMAIN <<e>> = {1} /\ <<e>>[1] = e
<1>1. <<e>> \in Seq({e}) /\ Len(<<e>>) = 1 /\ DOMAIN <<e>> = {1} /\ <<e>>[1] = e
  OBVIOUS
<1> QED BY <1>1, SeqIs

LEMMA SeqConcat ==
  ASSUME NEW s, NEW t, IsSeq(s), IsSeq(t)
  PROVE  /\ IsSeq(s \o t) /\ Len(s \o t) = Len(s) + Len(t) /\ DOMAIN (s \o t) = 1..Len(s) + Len(t)
         /\ \A i \in 1..Len(s) : (s \o t)[i] = s[i]
         /\ \A i \in 1..Len(t) : (s \o t)[Len(s) + i] = t[i]
         /\ InRange(s \o t) = InRange(s) \cup InRange(t)
<1> DEFINE S == InRange(s) \cup InRange(t)
<1>1. s \in Seq(S) /\ t \in Seq(S)
  <2>1. InRange(s) \subseteq S /\ InRange(t) \subseteq S
    OBVIOUS
  <2> HIDE DEF S
  <2> QED BY <2>1, SeqMonotonic DEF IsSeq
<1> HIDE DEF S
<1>2. /\ s \o t \in Seq(S) /\ Len(s \o t) = Len(s) + Len(t)
      /\ \A i \in 1..Len(s) + Len(t) : (s \o t)[i] = IF i <= Len(s) THEN s[i] ELSE t[i - Len(s)]
  BY <1>1, ConcatProperties
<1>3. PICK r : r = s \o t
  OBVIOUS
<1>4. IsSeq(r) /\ Len(r) = Len(s) + Len(t) /\ DOMAIN r = 1..Len(s) + Len(t)
  BY <1>2, <1>3, SeqIs, SeqFacts
<1>5. /\ Len(s) \in Nat /\ Len(t) \in Nat /\ DOMAIN s = 1..Len(s) /\ DOMAIN t = 1..Len(t)
      /\ \A i \in 1..Len(s) + Len(t) : r[i] = IF i <= Len(s) THEN s[i] ELSE t[i - Len(s)]
  BY <1>2, <1>3, SeqFacts
<1>6. /\ \A i \in 1..Len(s) : r[i] = s[i] /\ i \in DOMAIN r
      /\ \A i \in 1..Len(t) : r[Len(s) + i] = t[i] /\ Len(s) + i \in DOMAIN r
  BY <1>4, <1>5
<1>7. ASSUME NEW i \in DOMAIN r PROVE r[i] \in InRange(s) \cup InRange(t)
  <2>1. CASE i <= Len(s)
    BY <1>4, <1>5, <2>1 DEF InRange
  <2>2. CASE ~ i <= Len(s)
    <3>1. i - Len(s) \in 1..Len(t) /\ r[i] = t[i - Len(s)]
      BY <1>4, <1>5, <2>2
    <3> QED BY <1>5, <3>1 DEF InRange
  <2> QED BY <2>1, <2>2
<1>8. InRange(r) = InRange(s) \cup InRange(t)
  BY <1>5, <1>6, <1>7 DEF InRange
<1> QED BY <1>3, <1>4, <1>6, <1>8

LEMMA SeqAppend ==
  ASSUME NEW s, IsSeq(s), NEW e
  PROVE  /\ IsSeq(Append(s, e)) /\ Len(Append(s, e)) = Len(s) + 1
         /\ DOMAIN Append(s, e) = DOMAIN s \cup {Len(s) + 1}
         /\ \A i \in DOMAIN s : Append(s, e)[i] = s[i] /\ i # Len(s) + 1
         /\ Append(s, e)[Len(s) + 1] = e
         /\ InRange(Append(s, e)) = InRange(s) \cup {e}
<1> DEFINE S == InRange(s) \cup {e}
<1>1. s \in Seq(S) /\ e \in S
  <2>1. InRange(s) \subseteq S /\ e \in S
    OBVIOUS
  <2> HIDE DEF S
  <2> QED BY <2>1, SeqMonotonic DEF IsSeq
<1> HIDE DEF S
<1>2. PICK r : r = Append(s, e)
  OBVIOUS
<1>3. /\ r \in Seq(S) /\ Len(r) = Len(s) + 1 /\ r[Len(s) + 1] = e
      /\ \A i \in 1..Len(s) : r[i] = s[i]
  BY <1>1, <1>2, AppendProperties
<1>4. IsSeq(r) /\ DOMAIN r = 1..Len(s) + 1 /\ DOMAIN s = 1..Len(s) /\ Len(s) \in Nat
  BY <1>3, SeqIs, SeqFacts
<1>5. /\ DOMAIN r = DOMAIN s \cup {Len(s) + 1}
      /\ \A i \in DOMAIN s : r[i] = s[i] /\ i # Len(s) + 1
  BY <1>3, <1>4
<1>6. InRange(r) = InRange(s) \cup {e}
  BY <1>3, <1>5 DEF InRange
<1> QED BY <1>2, <1>3, <1>4, <1>5, <1>6

LEMMA SeqTail ==
  ASSUME NEW s, IsSeq(s), s # <<>>
  PROVE  /\ IsSeq(Tail(s)) /\ Len(Tail(s)) = Len(s) - 1 /\ DOMAIN Tail(s) = 1..Len(s) - 1
         /\ \A i \in DOMAIN Tail(s) : Tail(s)[i] = s[i + 1] /\ i + 1 \in DOMAIN s
         /\ Head(s) = s[1] /\ 1 \in DOMAIN s
         /\ InRange(Tail(s)) \subseteq InRange(s) /\ Head(s) \in InRange(s)
<1>1. s \in Seq(InRange(s))
  BY DEF IsSeq
<1>2. PICK r : r = Tail(s)
  OBVIOUS
<1>3. /\ r \in Seq(InRange(s)) /\ Len(r) = Len(s) - 1
      /\ \A i \in 1..Len(r) : r[i] = s[i + 1]
  BY <1>1, <1>2, HeadTailProperties
<1>4. IsSeq(r) /\ DOMAIN r = 1..Len(r) /\ Len(s) \in Nat /\ DOMAIN s = 1..Len(s) /\ 1 \in DOMAIN s
  BY <1>3, SeqIs, SeqFacts
<1>5. \A i \in DOMAIN r : r[i] = s[i + 1] /\ i + 1 \in DOMAIN s
  BY <1>3, <1>4
<1>6. InRange(r) \subseteq InRange(s)
  BY <1>5 DEF InRange
<1>7. Head(s) = s[1]
  BY <1>1
<1> QED BY <1>2, <1>3, <1>4, <1>5, <1>6, <1>7 DEF InRange

\* A set of numbers below a bound has a greatest one.
LEMMA MaxIs ==
  ASSUME NEW S \in SUBSET Nat, S # {}, NEW n \in Nat, \A s \in S : s <= n
  PROVE  Max(S) \in S /\ \A y \in S : y <= Max(S)
<1> DEFINE Above(x) == {y \in S : y > x}
           F == {Above(x) : x \in S}
           R == StrictSubsetOrdering(S)
<1>1. IsFiniteSet(S)
  BY FS_BoundedSetOfNaturals
<1>2. F \subseteq FiniteSubsetsOf(S) /\ F # {}
  <2>1. \A x \in S : Above(x) \in SUBSET S
    OBVIOUS
  <2>2. \A x \in S : IsFiniteSet(Above(x))
    <3> HIDE DEF Above
    <3> QED BY <1>1, <2>1, FS_Subset
  <2> QED BY <2>1, <2>2 DEF FiniteSubsetsOf
<1>3. IsWellFoundedOn(R, FiniteSubsetsOf(S))
  BY FS_StrictSubsetOrderingWellFounded
<1>4. PICK D \in F : \A E \in F : <<E, D>> \notin R
  <2> HIDE DEF F, R
  <2> QED BY <1>2, <1>3, WFMin
<1>5. PICK x \in S : D = Above(x)
  OBVIOUS
<1>6. ASSUME NEW y \in S, y > x PROVE FALSE
  <2>1. Above(y) \in F
    OBVIOUS
  <2>2. x \in Nat /\ y \in Nat
    OBVIOUS
  <2>3. ASSUME NEW z \in Above(y) PROVE z \in Above(x)
    <3>1. z \in S /\ z \in Nat /\ z > y
      OBVIOUS
    <3> QED BY <1>6, <2>2, <3>1
  <2>4. y \in Above(x) /\ y \notin Above(y)
    BY <1>6, <2>2
  <2>5. Above(x) \in SUBSET S /\ Above(y) \in SUBSET S
    OBVIOUS
  <2>6. <<Above(y), Above(x)>> \in R
    <3> HIDE DEF Above
    <3> QED BY <2>3, <2>4, <2>5 DEF StrictSubsetOrdering
  <2> QED BY <2>1, <2>6, <1>4, <1>5
<1>7. \A y \in S : x >= y
  BY <1>6
<1>8. Max(S) \in S /\ \A y \in S : Max(S) >= y
  BY <1>7 DEF Max
<1>9. Max(S) \in Nat
  BY <1>8
<1> QED BY <1>8, <1>9

\* What the lines over others are.
LEMMA OverIs ==
  ASSUME NEW f, NEW g
  PROVE  /\ DOMAIN Over(f, g) = DOMAIN f \cup DOMAIN g
         /\ \A k \in DOMAIN f : Over(f, g)[k] = f[k]
         /\ \A k \in DOMAIN g \ DOMAIN f : Over(f, g)[k] = g[k]
  BY DEF Over

(***************************************************************************)
(* The partition.                                                          *)
(***************************************************************************)
LEMMA LeadsOn ==
  ASSUME NEW log, IsSeq(log), NEW e, NEW index, LeadsToPacket(log, index)
  PROVE  LeadsToPacket(Append(log, e), index)
<1>1. PICK r : r = Append(log, e)
  OBVIOUS
<1>2. /\ Len(log) \in Nat /\ Len(r) = Len(log) + 1 /\ DOMAIN log = 1..Len(log)
      /\ \A i \in 1..Len(log) : r[i] = log[i]
  BY <1>1, SeqAppend, SeqFacts
<1>3. \A j \in 0..Len(log) : Position(r, j) = Position(log, j)
  BY <1>2 DEF Position
<1>4. ASSUME NEW k \in DOMAIN index
      PROVE  k \in 1..Len(r) /\ \E j \in {k - 1, k} : index[k] = Position(r, j)
  <2>1. k \in 1..Len(log)
    BY DEF LeadsToPacket
  <2>2. PICK j \in {k - 1, k} : index[k] = Position(log, j)
    BY DEF LeadsToPacket
  <2>3. j \in 0..Len(log) /\ k \in 1..Len(r)
    BY <1>2, <2>1
  <2> QED BY <1>3, <2>2, <2>3
<1> QED BY <1>1, <1>4 DEF LeadsToPacket

LEMMA LeadsOver ==
  ASSUME NEW log, NEW f, NEW g, LeadsToPacket(log, f), LeadsToPacket(log, g)
  PROVE  LeadsToPacket(log, Over(f, g))
<1>1. PICK h : h = Over(f, g)
  OBVIOUS
<1>2. /\ DOMAIN h = DOMAIN f \cup DOMAIN g
      /\ \A k \in DOMAIN f : h[k] = f[k]
      /\ \A k \in DOMAIN g \ DOMAIN f : h[k] = g[k]
  BY <1>1 DEF Over
<1>3. ASSUME NEW k \in DOMAIN h
      PROVE  k \in 1..Len(log) /\ \E j \in {k - 1, k} : h[k] = Position(log, j)
  <2>1. CASE k \in DOMAIN f
    <3>1. h[k] = f[k]
      BY <1>2, <2>1
    <3> QED BY <2>1, <3>1 DEF LeadsToPacket
  <2>2. CASE k \notin DOMAIN f
    <3>1. h[k] = g[k] /\ k \in DOMAIN g
      BY <1>2, <2>2
    <3> QED BY <3>1 DEF LeadsToPacket
  <2> QED BY <2>1, <2>2
<1> QED BY <1>1, <1>3 DEF LeadsToPacket

LEMMA LeadsEmpty ==
  ASSUME NEW log
  PROVE  LeadsToPacket(log, <<>>)
<1>1. DOMAIN <<>> = {}
  OBVIOUS
<1> QED BY <1>1 DEF LeadsToPacket

LEMMA PacketsAre ==
  ASSUME NEW p, NEW m
  PROVE  m \in Packets(p) <=> \E i \in DOMAIN p.files : \E j \in DOMAIN p.files[i].log : m = p.files[i].log[j]
  BY DEF Packets

\* The last file changes: its log only grows.
LEMMA FilesChange ==
  ASSUME NEW files, FilesOk(files), files # <<>>, NEW f, FileOk(f),
         f.first = Last(files).first, Len(f.log) >= Len(Last(files).log),
         NEW r, r = [files EXCEPT ![Len(files)] = f]
  PROVE  /\ FilesOk(r) /\ r # <<>> /\ Last(r) = f /\ Len(r) = Len(files)
         /\ DOMAIN r = DOMAIN files /\ Len(files) \in DOMAIN files
         /\ \A i \in DOMAIN files : i # Len(files) => r[i] = files[i]
         /\ r[Len(files)] = f
<1>1. /\ Len(files) \in Nat /\ DOMAIN files = 1..Len(files) /\ Len(files) \in DOMAIN files
      /\ files = [i \in 1..Len(files) |-> files[i]]
  BY SeqFacts DEF FilesOk
<1>2. PICK n : n = Len(files)
  OBVIOUS
<1>3. /\ n \in Nat /\ DOMAIN files = 1..n /\ n \in 1..n
      /\ DOMAIN r = 1..n /\ r[n] = f /\ \A i \in 1..n : i # n => r[i] = files[i]
      /\ r = [i \in 1..n |-> r[i]]
  BY <1>1, <1>2
<1>4. IsSeq(r) /\ Len(r) = n
  BY <1>3, SeqFun
<1>5. r # <<>> /\ Last(r) = f
  BY <1>3, <1>4, SeqEmpty DEF Last
<1>6. f.first = files[n].first /\ Len(f.log) >= Len(files[n].log)
  BY <1>2 DEF Last
<1>7. \A i \in 1..n : r[i].first = files[i].first
  BY <1>3, <1>6
<1>8. ASSUME NEW i \in 1..n PROVE FileOk(r[i])
  BY <1>3 DEF FilesOk
<1>9. ASSUME NEW i \in 1..n
      PROVE  r[i].first = IF i = 1 THEN 0 ELSE EndOf(r[i - 1])
  <2>1. CASE i = 1
    BY <1>3, <1>7, <2>1 DEF FilesOk
  <2>2. CASE i # 1
    <3>1. i - 1 \in 1..n /\ i - 1 # n
      BY <1>3, <2>2
    <3>2. r[i - 1] = files[i - 1] /\ r[i].first = files[i].first
      BY <1>3, <1>7, <3>1
    <3>3. files[i].first = EndOf(files[i - 1])
      BY <1>3, <2>2 DEF FilesOk
    <3> QED BY <2>2, <3>2, <3>3
  <2> QED BY <2>1, <2>2
<1>10. ASSUME NEW i \in 1..n, NEW j \in 1..n, i < j
       PROVE  EndOf(r[i]) <= r[j].first
  <2>1. i # n
    BY <1>3, <1>10
  <2>2. r[i] = files[i] /\ r[j].first = files[j].first
    BY <1>3, <1>7, <2>1
  <2> QED BY <1>3, <1>10, <2>2 DEF FilesOk
<1>11. FilesOk(r)
  BY <1>3, <1>4, <1>8, <1>9, <1>10 DEF FilesOk
<1> QED BY <1>2, <1>3, <1>4, <1>5, <1>11

\* A new file behind the last one.
LEMMA FilesAppend ==
  ASSUME NEW files, FilesOk(files), NEW f, FileOk(f),
         files = <<>> => f.first = 0,
         files # <<>> => f.first = EndOf(Last(files)),
         NEW r, IsSeq(r), Len(r) = Len(files) + 1, DOMAIN r = DOMAIN files \cup {Len(files) + 1},
         \A i \in DOMAIN files : r[i] = files[i] /\ i # Len(files) + 1,
         r[Len(files) + 1] = f
  PROVE  FilesOk(r)
<1>1. /\ Len(files) \in Nat /\ DOMAIN files = 1..Len(files)
      /\ files # <<>> => Len(files) \in DOMAIN files
  BY SeqFacts DEF FilesOk
<1>2. PICK n : n = Len(files)
  OBVIOUS
<1>3. /\ n \in Nat /\ DOMAIN files = 1..n
      /\ IsSeq(r) /\ Len(r) = n + 1 /\ DOMAIN r = 1..n \cup {n + 1} /\ r[n + 1] = f
      /\ \A i \in 1..n : r[i] = files[i] /\ i # n + 1
  BY <1>1, <1>2 DEF FilesOk
<1>4. PICK size : size = f.first
  OBVIOUS
<1>5. IF n = 0 THEN size = 0 ELSE n \in 1..n /\ size = EndOf(files[n])
  <2>1. n = 0 <=> files = <<>>
    BY <1>1, <1>2, SeqEmpty
  <2> QED BY <1>4, <1>2, <1>3, <2>1 DEF Last
<1>6. ASSUME NEW i \in 1..n
      PROVE  files[i].first \in Nat /\ EndOf(files[i]) \in Nat /\ files[i].first <= EndOf(files[i])
  <2>1. FileOk(files[i])
    BY <1>3 DEF FilesOk
  <2>2. files[i].first \in Nat /\ Len(files[i].log) \in Nat
    BY <2>1, SeqFacts DEF FileOk
  <2>3. PICK first \in Nat, length \in Nat : first = files[i].first /\ length = Len(files[i].log)
    BY <2>2
  <2>4. EndOf(files[i]) = first + length
    BY <2>3 DEF EndOf
  <2> QED BY <2>3, <2>4
<1>7. ASSUME NEW i \in 1..n PROVE EndOf(files[i]) <= size
  <2>0. n # 0 /\ n \in 1..n /\ size = EndOf(files[n])
    BY <1>3, <1>5
  <2>1. CASE i = n
    BY <1>6, <2>0, <2>1
  <2>2. CASE i # n
    <3>1. i < n
      BY <1>3, <2>2
    <3>2. EndOf(files[i]) <= files[n].first
      BY <1>3, <2>0, <3>1 DEF FilesOk
    <3>3. EndOf(files[i]) \in Nat /\ EndOf(files[n]) \in Nat /\ files[n].first <= EndOf(files[n])
                          /\ files[n].first \in Nat
      BY <1>6, <2>0
    <3> QED BY <2>0, <3>2, <3>3
  <2> QED BY <2>1, <2>2
<1>8. ASSUME NEW i \in DOMAIN r PROVE FileOk(r[i])
  BY <1>3 DEF FilesOk
<1>9. ASSUME NEW i \in DOMAIN r
      PROVE  r[i].first = IF i = 1 THEN 0 ELSE EndOf(r[i - 1])
  <2>1. CASE i \in 1..n
    <3>1. i = 1 \/ i - 1 \in 1..n
      BY <1>3, <2>1
    <3> QED BY <1>3, <2>1, <3>1 DEF FilesOk
  <2>2. CASE i = n + 1
    <3>1. CASE n = 0
      BY <1>4, <1>3, <1>5, <2>2, <3>1
    <3>2. CASE n # 0
      <4>1. i # 1 /\ i - 1 = n /\ n \in 1..n
        BY <1>3, <2>2, <3>2
      <4> QED BY <1>4, <1>3, <1>5, <2>2, <4>1
    <3> QED BY <3>1, <3>2
  <2> QED BY <1>3, <2>1, <2>2
<1>10. ASSUME NEW i \in DOMAIN r, NEW j \in DOMAIN r, i < j
       PROVE  EndOf(r[i]) <= r[j].first
  <2>1. i \in 1..n
    BY <1>3, <1>10
  <2>2. CASE j \in 1..n
    BY <1>3, <1>10, <2>1, <2>2 DEF FilesOk
  <2>3. CASE j = n + 1
    BY <1>4, <1>3, <1>7, <2>1, <2>3
  <2> QED BY <1>3, <2>2, <2>3
<1>11. FilesOk(r)
  BY <1>3, <1>8, <1>9, <1>10 DEF FilesOk
<1> QED BY <1>11

\* Syncing the index changes no packet.
LEMMA SyncIs ==
  ASSUME NEW p, PartOk(p), NEW r, r = SyncToDisk(p)
  PROVE  /\ PartOk(r) /\ r.buffer = <<>> /\ r.size = p.size /\ Packets(r) = Packets(p)
         /\ Exists(r) <=> Exists(p)
<1>1. CASE ~p.dirty
  <2>1. r = p
    BY <1>1 DEF SyncToDisk
  <2> QED BY <1>1, <2>1 DEF PartOk
<1>2. CASE p.dirty
  <2>1. Exists(p) /\ p.files # <<>> /\ FilesOk(p.files)
    BY <1>2 DEF PartOk, Exists
  <2>2. PICK n : n = Len(p.files)
    OBVIOUS
  <2>3. n \in DOMAIN p.files /\ FileOk(p.files[n]) /\ Last(p.files) = p.files[n]
    BY <2>1, <2>2, SeqFacts DEF FilesOk, Last
  <2>4. PICK f : f = [first |-> p.files[n].first, log |-> p.files[n].log, index |-> p.files[n].index,
                      disk |-> Over(p.buffer, p.files[n].disk)]
    OBVIOUS
  <2>5. f = [p.files[n] EXCEPT !.disk = Over(p.buffer, @)]
    <3>1. IsFile(p.files[n])
      BY <2>3 DEF FileOk
    <3>2. PICK g : g = p.files[n]
      OBVIOUS
    <3>3. g = [first |-> g.first, log |-> g.log, index |-> g.index, disk |-> g.disk]
      BY <3>1, <3>2 DEF IsFile
    <3>4. [g EXCEPT !.disk = Over(p.buffer, @)]
             = [first |-> g.first, log |-> g.log, index |-> g.index, disk |-> Over(p.buffer, g.disk)]
      BY <3>3
    <3> QED BY <2>4, <3>2, <3>4
  <2>6. PICK fs : fs = [p.files EXCEPT ![n] = f]
    OBVIOUS
  <2>7. fs = [p.files EXCEPT ![n].disk = Over(p.buffer, @)]
    BY <2>5, <2>6
  <2>8. r = [p EXCEPT !.files = fs, !.buffer = <<>>, !.dirty = FALSE]
    BY <1>2, <2>2, <2>7 DEF SyncToDisk
  <2>9. r = [size |-> p.size, files |-> fs, buffer |-> <<>>, last |-> p.last, dirty |-> FALSE]
    BY <2>8 DEF PartOk
  <2>10. FileOk(f) /\ f.first = Last(p.files).first /\ f.log = Last(p.files).log
    <3>1. LeadsToPacket(p.files[n].log, p.buffer) /\ LeadsToPacket(p.files[n].log, p.files[n].disk)
      BY <2>1, <2>3 DEF PartOk, FileOk
    <3>2. LeadsToPacket(f.log, f.disk)
      BY <2>4, <3>1, LeadsOver
    <3> QED BY <2>3, <2>4, <3>2 DEF FileOk, IsFile
  <2>11. Len(f.log) >= Len(Last(p.files).log)
    <3>1. IsSeq(f.log)
      BY <2>10 DEF FileOk
    <3>2. Len(f.log) \in Nat
      BY <3>1, SeqFacts
    <3> QED BY <2>10, <3>2
  <2>12. /\ FilesOk(fs) /\ fs # <<>> /\ Last(fs) = f /\ DOMAIN fs = DOMAIN p.files
         /\ \A i \in DOMAIN p.files : i # n => fs[i] = p.files[i]
         /\ fs[n] = f
    BY <2>1, <2>2, <2>6, <2>10, <2>11, FilesChange
  <2>13. \A i \in DOMAIN p.files : fs[i].log = p.files[i].log
    BY <2>3, <2>10, <2>12
  <2>14. Packets(r) = Packets(p)
    <3>1. \A m : m \in Packets(r) <=> m \in Packets(p)
      BY <2>9, <2>12, <2>13, PacketsAre
    <3> QED BY <3>1
  <2>15. PartOk(r)
    <3>1. LeadsToPacket(f.log, <<>>)
      BY LeadsEmpty
    <3>2. p.size \in Nat /\ p.size = EndOf(f)
      BY <2>1, <2>10 DEF PartOk, EndOf
    <3> QED BY <2>9, <2>12, <3>1, <3>2 DEF PartOk, Exists
  <2> QED BY <2>1, <2>9, <2>12, <2>14, <2>15 DEF Exists
<1> QED BY <1>1, <1>2

\* A new log begins where the packets end.
LEMMA MmapIs ==
  ASSUME NEW p, PartOk(p), NEW r, r = MmapNewLog(p)
  PROVE  PartOk(r) /\ r.size = p.size /\ Packets(r) = Packets(p) /\ Exists(r) /\ Last(r.files).log = <<>>
<1>1. PICK q : q = SyncToDisk(p)
  OBVIOUS
<1>2. PartOk(q) /\ q.buffer = <<>> /\ q.size = p.size /\ Packets(q) = Packets(p)
  BY <1>1, SyncIs
<1>3. PICK f : f = [first |-> q.size, log |-> <<>>, index |-> <<>>, disk |-> <<>>]
  OBVIOUS
<1>4. PICK fs : fs = Append(q.files, f)
  OBVIOUS
<1>5. r = [q EXCEPT !.files = fs, !.last = 0]
  BY <1>1, <1>3, <1>4 DEF MmapNewLog
<1>6. r = [size |-> q.size, files |-> fs, buffer |-> q.buffer, last |-> 0, dirty |-> q.dirty]
  BY <1>2, <1>5 DEF PartOk
<1>7. IsSeq(<<>>) /\ DOMAIN <<>> = {} /\ Len(<<>>) = 0
  BY SeqEmpty
<1>8. FileOk(f) /\ f.first = q.size /\ f.log = <<>>
  <2>1. q.size \in Nat
    BY <1>2 DEF PartOk
  <2> QED BY <1>3, <1>7, <2>1, LeadsEmpty DEF FileOk, IsFile
<1>9. /\ FilesOk(q.files) /\ q.size \in Nat
      /\ q.size = IF q.files = <<>> THEN 0 ELSE EndOf(Last(q.files))
  BY <1>2 DEF PartOk, Exists
<1>10. /\ FilesOk(fs) /\ fs # <<>> /\ Last(fs) = f /\ DOMAIN fs = DOMAIN q.files \cup {Len(fs)}
       /\ fs[Len(fs)] = f
       /\ \A i \in DOMAIN q.files : fs[i] = q.files[i]
  <2>1. PICK files : files = q.files
    OBVIOUS
  <2>2. /\ files = <<>> => f.first = 0
        /\ files # <<>> => f.first = EndOf(Last(files))
    BY <1>8, <1>9, <2>1
  <2>3. FilesOk(files) /\ fs = Append(files, f)
    BY <1>4, <1>9, <2>1
  <2> HIDE <2>1
  <2>4. /\ FilesOk(fs) /\ fs # <<>> /\ Last(fs) = f /\ DOMAIN fs = DOMAIN files \cup {Len(fs)}
        /\ fs[Len(fs)] = f
        /\ \A i \in DOMAIN files : fs[i] = files[i]
    <3>1. FileOk(f) /\ IsSeq(files)
      BY <1>8, <2>3 DEF FilesOk
    <3>2. /\ IsSeq(fs) /\ Len(fs) = Len(files) + 1 /\ DOMAIN fs = DOMAIN files \cup {Len(files) + 1}
          /\ \A i \in DOMAIN files : fs[i] = files[i] /\ i # Len(files) + 1
          /\ fs[Len(files) + 1] = f
      BY <2>3, <3>1, SeqAppend
    <3>3. FilesOk(files)
      BY <2>3
    <3>4. FilesOk(fs)
      BY <2>2, <3>1, <3>2, <3>3, FilesAppend
    <3>5. DOMAIN fs = DOMAIN files \cup {Len(fs)} /\ fs[Len(fs)] = f
      BY <3>2
    <3>6. fs # <<>> /\ Last(fs) = f
      <4>1. Len(files) \in Nat
        BY <3>1, SeqFacts
      <4> QED BY <3>2, <3>5, <4>1, SeqEmpty DEF Last
    <3> QED BY <3>2, <3>4, <3>5, <3>6
  <2> QED BY <2>1, <2>4
<1>11. \A m : m \in Packets(r) <=> m \in Packets(q)
  <2>1. r.files = fs /\ DOMAIN f.log = {}
    BY <1>6, <1>7, <1>8
  <2>2. ASSUME NEW m, m \in Packets(r) PROVE m \in Packets(q)
    <3>1. PICK i \in DOMAIN fs : \E j \in DOMAIN fs[i].log : m = fs[i].log[j]
      BY <2>1, <2>2, PacketsAre
    <3>2. i \in DOMAIN q.files
      BY <1>10, <2>1, <3>1
    <3> QED BY <1>10, <3>1, <3>2, PacketsAre
  <2>3. ASSUME NEW m, m \in Packets(q) PROVE m \in Packets(r)
    <3>1. PICK i \in DOMAIN q.files : \E j \in DOMAIN q.files[i].log : m = q.files[i].log[j]
      BY <2>3, PacketsAre
    <3>2. i \in DOMAIN fs /\ fs[i] = q.files[i]
      BY <1>10
    <3> QED BY <2>1, <3>1, <3>2, PacketsAre
  <2> QED BY <2>2, <2>3
<1>12. Packets(r) = Packets(p)
  BY <1>2, <1>11
<1>13. /\ r.size = q.size /\ r.files = fs /\ r.buffer = q.buffer /\ r.dirty = q.dirty
       /\ r = [size |-> r.size, files |-> r.files, buffer |-> r.buffer, last |-> r.last, dirty |-> r.dirty]
  BY <1>6
<1>14. PartOk(r)
  <2>1. LeadsToPacket(f.log, q.buffer)
    BY <1>2, LeadsEmpty
  <2>2. q.size = EndOf(f) /\ q.dirty \in BOOLEAN
    BY <1>2, <1>7, <1>8, <1>9 DEF PartOk, EndOf
  <2> QED BY <1>2, <1>13, <1>9, <1>10, <2>1, <2>2 DEF PartOk, Exists
<1> QED BY <1>2, <1>8, <1>10, <1>12, <1>13, <1>14 DEF Exists

\* One packet behind the others.
LEMMA PutIs ==
  ASSUME NEW q, PartOk(q), Exists(q), NEW m, m.len \in Nat \ {0}, NEW r, r = PutInFile(q, m)
  PROVE  /\ PartOk(r) /\ Exists(r) /\ r.size = q.size + 1
         /\ \E packet : packet.id = m.id /\ packet.offset = q.size /\ Packets(r) = Packets(q) \cup {packet}
<1> DEFINE n == Len(q.files)
           g == q.files[n]
           begins == Begins(g)
           packet == [id |-> m.id, offset |-> q.size, ends |-> begins + m.len]
           inFile == q.size + 1 - g.first
           indexed == m.len > BlockMax \/ inFile > q.last + IndexMinInterval
           Lined(h, position) == IF indexed THEN Over([k \in {inFile} |-> position], h) ELSE h
           f == [g EXCEPT !.log = Append(@, packet), !.index = Lined(@, begins)]
           fs == [q.files EXCEPT ![n] = f]
           buffer == Lined(q.buffer, Ends(g, m))
           last == IF indexed THEN inFile ELSE q.last
<1>1. r = [q EXCEPT !.files = fs, !.buffer = buffer, !.last = last, !.size = q.size + 1, !.dirty = TRUE]
  BY DEF PutInFile
<1> HIDE DEF f, fs, buffer, last, indexed
<1>2. n \in DOMAIN q.files /\ FileOk(g) /\ Last(q.files) = g /\ FilesOk(q.files) /\ q.files # <<>>
  BY SeqFacts DEF PartOk, Exists, FilesOk, Last
<1> HIDE DEF n, g
<1>3. /\ IsFile(g) /\ g.first \in Nat /\ IsSeq(g.log) /\ Len(g.log) \in Nat
      /\ LeadsToPacket(g.log, g.index) /\ LeadsToPacket(g.log, g.disk) /\ LeadsToPacket(g.log, q.buffer)
      /\ q.size \in Nat /\ q.size = g.first + Len(g.log) /\ DOMAIN g.log = 1..Len(g.log)
  BY <1>2, SeqFacts DEF PartOk, FileOk, EndOf
<1>5. begins \in Nat /\ \A j \in DOMAIN g.log : g.log[j].ends <= begins
  <2>1. CASE Len(g.log) = 0
    BY <1>3, <2>1 DEF Begins, LengthOf, Position
  <2>2. CASE Len(g.log) # 0
    <3>1. begins = g.log[Len(g.log)].ends /\ Len(g.log) \in DOMAIN g.log
      BY <1>3, <2>2 DEF Begins, LengthOf, Position
    <3>2. /\ \A j \in DOMAIN g.log : g.log[j].ends \in Nat
          /\ \A i, j \in DOMAIN g.log : i < j => g.log[i].ends < g.log[j].ends
      BY <1>2 DEF FileOk
    <3>3. PICK c \in Nat : c = Len(g.log)
      BY <1>3
    <3>4. DOMAIN g.log = 1..c /\ c \in 1..c /\ begins = g.log[c].ends
      BY <1>3, <3>1, <3>3
    <3>5. ASSUME NEW j \in 1..c PROVE g.log[j].ends <= g.log[c].ends
      <4>1. g.log[j].ends \in Nat /\ g.log[c].ends \in Nat
        BY <3>2, <3>4
      <4>2. CASE j = c
        BY <4>1, <4>2
      <4>3. CASE j # c
        <5>1. g.log[j].ends < g.log[c].ends
          BY <3>2, <3>4, <4>3
        <5> QED BY <4>1, <5>1
      <4> QED BY <4>2, <4>3
    <3>6. g.log[c].ends \in Nat
      BY <3>2, <3>4
    <3> QED BY <3>4, <3>5, <3>6
  <2> QED BY <2>1, <2>2
<1>4. begins = LengthOf(g.log)
  BY DEF Begins
<1>6. packet.id = m.id /\ packet.offset = q.size /\ packet.ends = begins + m.len
  OBVIOUS
<1> HIDE DEF begins, packet
<1>7. PICK log : log = Append(g.log, packet)
  OBVIOUS
<1>8. /\ IsSeq(log) /\ Len(log) = Len(g.log) + 1 /\ DOMAIN log = DOMAIN g.log \cup {Len(g.log) + 1}
      /\ \A i \in DOMAIN g.log : log[i] = g.log[i]
      /\ log[Len(g.log) + 1] = packet
  BY <1>3, <1>7, SeqAppend
<1>10. inFile = Len(g.log) + 1
  BY <1>3
<1> HIDE DEF inFile
<1>11. ASSUME NEW h, LeadsToPacket(g.log, h), NEW position, position \in {begins, begins + m.len}
       PROVE  LeadsToPacket(log, Lined(h, position))
  <2>1. LeadsToPacket(log, h)
    BY <1>3, <1>7, <1>11, LeadsOn
  <2>2. PICK one : one = [k \in {inFile} |-> position]
    OBVIOUS
  <2>3. Position(log, inFile - 1) = begins /\ Position(log, inFile) = begins + m.len
    <3>1. Position(log, inFile) = begins + m.len
      BY <1>3, <1>6, <1>8, <1>10 DEF Position
    <3>2. CASE Len(g.log) = 0
      BY <1>4, <1>10, <3>1, <3>2 DEF Position, LengthOf
    <3>3. CASE Len(g.log) # 0
      <4>1. inFile - 1 = Len(g.log) /\ Len(g.log) \in DOMAIN g.log
        BY <1>3, <1>10, <3>3
      <4> QED BY <1>4, <1>8, <3>1, <3>3, <4>1 DEF Position, LengthOf
    <3> QED BY <3>2, <3>3, <3>1
  <2>4. LeadsToPacket(log, one)
    <3>1. inFile \in 1..Len(log)
      BY <1>3, <1>8, <1>10
    <3>2. \E j \in {inFile - 1, inFile} : position = Position(log, j)
      BY <1>11, <2>3
    <3>3. DOMAIN one = {inFile} /\ one[inFile] = position
      BY <2>2
    <3> QED BY <3>1, <3>2, <3>3 DEF LeadsToPacket
  <2>5. LeadsToPacket(log, Over(one, h))
    BY <2>1, <2>4, LeadsOver
  <2> QED BY <2>1, <2>2, <2>5
<1> HIDE DEF Lined
<1>9. PICK index : index = Lined(g.index, begins)
  OBVIOUS
<1>11a. g = [first |-> g.first, log |-> g.log, index |-> g.index, disk |-> g.disk]
  BY <1>3 DEF IsFile
<1>12. f = [first |-> g.first, log |-> log, index |-> index, disk |-> g.disk]
  <2>1. f = [g EXCEPT !.log = log, !.index = index]
    BY <1>7, <1>9 DEF f
  <2> QED BY <1>11a, <2>1
<1>13. f.first = g.first /\ f.log = log /\ f.index = index /\ f.disk = g.disk /\ IsFile(f)
  BY <1>12 DEF IsFile
<1>13a. f.first = g.first /\ Len(f.log) = Len(g.log) + 1 /\ Len(g.log) \in Nat /\ g.first \in Nat
  <2>1. f.first = g.first /\ f.log = log
    BY <1>13
  <2>2. Len(log) = Len(g.log) + 1
    BY <1>8
  <2> QED BY <1>3, <2>1, <2>2
<1>14. LeadsToPacket(f.log, f.index) /\ LeadsToPacket(f.log, f.disk) /\ LeadsToPacket(f.log, buffer)
  <2>1. Ends(g, m) = begins + m.len
    BY DEF Begins, Ends, begins
  <2>2. LeadsToPacket(log, Lined(g.index, begins)) /\ LeadsToPacket(log, Lined(q.buffer, begins + m.len))
    BY <1>3, <1>11
  <2> QED BY <1>3, <1>7, <1>9, <1>13, <2>1, <2>2, LeadsOn DEF buffer
<1>19. r = [size |-> q.size + 1, files |-> fs, buffer |-> buffer, last |-> last, dirty |-> TRUE]
  BY <1>1 DEF PartOk
<1>15. /\ r.size = q.size + 1 /\ r.files = fs /\ r.buffer = buffer /\ r.dirty = TRUE
       /\ r = [size |-> r.size, files |-> r.files, buffer |-> r.buffer, last |-> r.last, dirty |-> r.dirty]
  BY <1>19
<1>20. FileOk(f)
  <2>1. begins + m.len \in Nat \ {0} /\ begins < begins + m.len
    BY <1>5
  <2>2. ASSUME NEW j \in DOMAIN log
        PROVE  log[j].offset = g.first + j - 1 /\ log[j].ends \in Nat \ {0}
    <3>1. CASE j \in DOMAIN g.log
      BY <1>2, <1>8, <3>1 DEF FileOk
    <3>2. CASE j = Len(g.log) + 1
      BY <1>3, <1>6, <1>8, <2>1, <3>2
    <3> QED BY <1>8, <3>1, <3>2
  <2>3. ASSUME NEW i \in DOMAIN log, NEW j \in DOMAIN log, i < j
        PROVE  log[i].ends < log[j].ends
    <3>1. i \in DOMAIN g.log
      BY <1>3, <1>8, <2>3
    <3>2. CASE j \in DOMAIN g.log
      BY <1>2, <1>8, <2>3, <3>1, <3>2 DEF FileOk
    <3>3. CASE j = Len(g.log) + 1
      <4>1. log[i].ends <= begins /\ log[j].ends = begins + m.len /\ log[i].ends \in Nat
        BY <1>2, <1>5, <1>6, <1>8, <3>1, <3>3 DEF FileOk
      <4> QED BY <1>5, <2>1, <4>1
    <3> QED BY <1>8, <3>2, <3>3
  <2> QED BY <1>3, <1>8, <1>13, <1>14, <2>2, <2>3 DEF FileOk
<1>21. /\ FilesOk(fs) /\ fs # <<>> /\ Last(fs) = f /\ DOMAIN fs = DOMAIN q.files
       /\ \A i \in DOMAIN q.files : i # n => fs[i] = q.files[i]
       /\ fs[n] = f
  <2>1. f.first = Last(q.files).first /\ Len(f.log) >= Len(Last(q.files).log)
    BY <1>2, <1>13a
  <2> QED BY <1>2, <1>20, <2>1, FilesChange DEF fs, n
<1>22. PartOk(r)
  <2>1. q.size + 1 \in Nat /\ q.size + 1 = EndOf(f) /\ LeadsToPacket(f.log, buffer)
    <3>1. q.size \in Nat /\ q.size = g.first + Len(g.log)
      BY <1>3
    <3> QED BY <1>13a, <1>14, <3>1 DEF EndOf
  <2> QED BY <1>15, <1>21, <2>1 DEF PartOk, Exists
<1>23. Packets(r) = Packets(q) \cup {packet}
  <2>1. f.log = log /\ r.files = fs /\ n \in DOMAIN q.files
    BY <1>2, <1>13, <1>15
  <2>2. ASSUME NEW x, x \in Packets(r) PROVE x \in Packets(q) \/ x = packet
    <3>1. PICK i \in DOMAIN fs : \E j \in DOMAIN fs[i].log : x = fs[i].log[j]
      BY <2>1, <2>2, PacketsAre
    <3>2. CASE i # n
      BY <1>21, <3>1, <3>2, PacketsAre
    <3>3. CASE i = n
      <4>1. PICK j \in DOMAIN log : x = log[j]
        BY <1>21, <2>1, <3>1, <3>3
      <4>2. CASE j \in DOMAIN g.log
        <5>1. x = q.files[n].log[j] /\ j \in DOMAIN q.files[n].log
          BY <1>8, <4>1, <4>2 DEF g
        <5> QED BY <2>1, <5>1, PacketsAre
      <4> QED BY <1>8, <4>1, <4>2
    <3> QED BY <3>2, <3>3
  <2>3. ASSUME NEW x, x \in Packets(q) PROVE x \in Packets(r)
    <3>1. PICK i \in DOMAIN q.files : \E j \in DOMAIN q.files[i].log : x = q.files[i].log[j]
      BY <2>3, PacketsAre
    <3>2. CASE i # n
      BY <1>21, <2>1, <3>1, <3>2, PacketsAre
    <3>3. CASE i = n
      <4>1. PICK j \in DOMAIN g.log : x = g.log[j]
        BY <3>1, <3>3 DEF g
      <4>2. j \in DOMAIN fs[n].log /\ x = fs[n].log[j] /\ n \in DOMAIN fs
        BY <1>8, <1>21, <2>1, <4>1
      <4> QED BY <2>1, <4>2, PacketsAre
    <3> QED BY <3>2, <3>3
  <2>4. packet \in Packets(r)
    <3>1. n \in DOMAIN fs /\ Len(g.log) + 1 \in DOMAIN fs[n].log /\ packet = fs[n].log[Len(g.log) + 1]
      BY <1>8, <1>21, <2>1
    <3> QED BY <2>1, <3>1, PacketsAre
  <2> QED BY <2>2, <2>3, <2>4
<1> QED BY <1>6, <1>15, <1>21, <1>22, <1>23 DEF Exists

\* A delivery adds one packet behind the others.
LEMMA StoredIs ==
  ASSUME NEW p, PartOk(p), NEW m, m.len \in Nat \ {0}, NEW r, r = Stored(p, m)
  PROVE  /\ PartOk(r) /\ Exists(r) /\ r.size = p.size + 1
         /\ \E packet : packet.id = m.id /\ packet.offset = p.size /\ Packets(r) = Packets(p) \cup {packet}
<1>1. PICK q : q = IF Exists(p) THEN p ELSE NewPartition
  OBVIOUS
<1>2. PartOk(q) /\ q.size = p.size /\ Packets(q) = Packets(p) /\ Exists(q)
  <2>1. CASE Exists(p)
    BY <1>1, <2>1
  <2>2. CASE ~Exists(p)
    <3>1. q = MmapNewLog(NoPartition)
      BY <1>1, <2>2 DEF NewPartition
    <3>2. PartOk(NoPartition)
      <4>1. PICK no : no = NoPartition
        OBVIOUS
      <4>2. /\ no = [size |-> no.size, files |-> no.files, buffer |-> no.buffer, last |-> no.last, dirty |-> no.dirty]
            /\ no.size = 0 /\ no.files = <<>> /\ no.buffer = <<>> /\ ~no.dirty
            /\ no.dirty \in BOOLEAN
        BY <4>1 DEF NoPartition
      <4>3. FilesOk(no.files)
        BY <4>2, SeqEmpty DEF FilesOk
      <4>4. PartOk(no)
        BY <4>2, <4>3 DEF PartOk, Exists
      <4> QED BY <4>1, <4>4
    <3>3. PartOk(q) /\ q.size = NoPartition.size /\ Packets(q) = Packets(NoPartition) /\ Exists(q)
      BY <3>1, <3>2, MmapIs
    <3>4. NoPartition.size = 0 /\ p.size = 0
      BY <2>2 DEF PartOk, NoPartition
    <3>5. NoPartition.files = p.files
      BY <2>2 DEF Exists, NoPartition
    <3>6. Packets(NoPartition) = Packets(p)
      BY <3>5 DEF Packets
    <3> QED BY <3>3, <3>4, <3>6
  <2> QED BY <2>1, <2>2
<1>3. PICK s : s = IF IsFull(q, m) THEN MmapNewLog(q) ELSE q
  OBVIOUS
<1>4. PartOk(s) /\ s.size = p.size /\ Packets(s) = Packets(p) /\ Exists(s)
  BY <1>2, <1>3, MmapIs
<1>5. r = PutInFile(s, m)
  BY <1>1, <1>3 DEF Stored, AddToLog
<1>6. /\ PartOk(r) /\ Exists(r) /\ r.size = s.size + 1
      /\ \E packet : packet.id = m.id /\ packet.offset = s.size /\ Packets(r) = Packets(s) \cup {packet}
  BY <1>4, <1>5, PutIs
<1> QED BY <1>4, <1>6

\* A partition that is read back has lost index lines, and no packet.
LEMMA RecoveredIs ==
  ASSUME NEW p, PartOk(p), Exists(p), NEW r, r = Recovered(p)
  PROVE  PartOk(r) /\ r.size = p.size /\ Packets(r) = Packets(p) /\ Exists(r)
<1> DEFINE Back(f) == [f EXCEPT !.index = f.disk]
<1>1. PICK n : n = Len(p.files)
  OBVIOUS
<1>2. n \in Nat /\ DOMAIN p.files = 1..n /\ n \in 1..n /\ FilesOk(p.files)
  BY <1>1, SeqFacts DEF PartOk, FilesOk, Exists
<1>3. PICK fs : fs = [i \in 1..n |-> Back(p.files[i])]
  OBVIOUS
<1>4. IsSeq(fs) /\ Len(fs) = n /\ DOMAIN fs = 1..n
  <2>1. DOMAIN fs = 1..n /\ fs = [i \in 1..n |-> fs[i]]
    BY <1>3
  <2> QED BY <1>2, <2>1, SeqFun
<1>5. ASSUME NEW i \in 1..n
      PROVE  FileOk(fs[i]) /\ fs[i].first = p.files[i].first /\ fs[i].log = p.files[i].log
  <2>1. PICK f : f = p.files[i]
    OBVIOUS
  <2>2. FileOk(f) /\ fs[i] = Back(f)
    BY <1>2, <1>3, <2>1 DEF FilesOk
  <2>3. PICK g : g = Back(f)
    OBVIOUS
  <2>4. IsFile(g) /\ g.first = f.first /\ g.log = f.log /\ g.index = f.disk /\ g.disk = f.disk
    BY <2>2, <2>3 DEF FileOk, IsFile
  <2>5. FileOk(g)
    BY <2>2, <2>4 DEF FileOk
  <2> QED BY <2>1, <2>2, <2>3, <2>4, <2>5
<1>6. \A i \in 1..n : EndOf(fs[i]) = EndOf(p.files[i])
  BY <1>5 DEF EndOf
<1>7. FilesOk(fs)
  <2>1. ASSUME NEW i \in 1..n PROVE fs[i].first = IF i = 1 THEN 0 ELSE EndOf(fs[i - 1])
    <3>1. i = 1 \/ i - 1 \in 1..n
      BY <1>2
    <3>2. p.files[i].first = IF i = 1 THEN 0 ELSE EndOf(p.files[i - 1])
      BY <1>2 DEF FilesOk
    <3> QED BY <1>5, <1>6, <3>1, <3>2
  <2>2. ASSUME NEW i \in 1..n, NEW j \in 1..n, i < j PROVE EndOf(fs[i]) <= fs[j].first
    <3>1. EndOf(p.files[i]) <= p.files[j].first
      BY <1>2, <2>2 DEF FilesOk
    <3> QED BY <1>5, <1>6, <3>1
  <2> QED BY <1>4, <1>5, <2>1, <2>2 DEF FilesOk
<1>8. Last(fs) = fs[n] /\ fs # <<>> /\ Last(p.files) = p.files[n]
  BY <1>1, <1>2, <1>4, SeqEmpty DEF Last
<1>9. /\ r.size = Last(fs).first + Len(Last(fs).log) /\ r.files = fs /\ r.buffer = <<>> /\ r.dirty = FALSE
      /\ r = [size |-> r.size, files |-> r.files, buffer |-> r.buffer, last |-> r.last, dirty |-> r.dirty]
  <2>1. PICK last : r = [size |-> Last(fs).first + Len(Last(fs).log), files |-> fs, buffer |-> <<>>, dirty |-> FALSE,
                         last |-> last]
    BY <1>2, <1>3 DEF Recovered
  <2> QED BY <2>1
<1>10. r.size = EndOf(Last(fs)) /\ r.size = p.size /\ p.size \in Nat
  BY <1>2, <1>6, <1>8, <1>9 DEF PartOk, EndOf
<1>11. PartOk(r)
  <2>1. LeadsToPacket(Last(fs).log, <<>>)
    BY LeadsEmpty
  <2> QED BY <1>7, <1>8, <1>9, <1>10, <2>1 DEF PartOk, Exists
<1>12. \A m : m \in Packets(r) <=> m \in Packets(p)
  <2>1. \A i \in 1..n : fs[i].log = p.files[i].log
    BY <1>5
  <2> QED BY <1>2, <1>4, <1>9, <2>1, PacketsAre
<1> QED BY <1>8, <1>9, <1>10, <1>11, <1>12 DEF Exists

\* The offsets of the packets are below the size.
LEMMA OffsetsAre ==
  ASSUME NEW p, PartOk(p), NEW i \in DOMAIN p.files
  PROVE  /\ FileOk(p.files[i]) /\ p.files[i].first \in Nat /\ EndOf(p.files[i]) \in Nat
         /\ EndOf(p.files[i]) <= p.size /\ p.files[i].first <= EndOf(p.files[i])
         /\ IsSeq(p.files[i].log) /\ DOMAIN p.files[i].log = 1..Len(p.files[i].log)
         /\ Len(p.files[i].log) \in Nat /\ EndOf(p.files[i]) = p.files[i].first + Len(p.files[i].log)
         /\ \A j \in DOMAIN p.files[i].log : p.files[i].log[j].offset = p.files[i].first + j - 1
<1>1. PICK n : n = Len(p.files)
  OBVIOUS
<1>2. p.files # <<>>
  BY SeqEmpty
<1>3. n \in DOMAIN p.files /\ DOMAIN p.files = 1..n /\ n \in Nat /\ FilesOk(p.files) /\ p.size = EndOf(p.files[n])
  BY <1>1, <1>2, SeqFacts DEF PartOk, FilesOk, Exists, Last
<1>4. ASSUME NEW k \in 1..n
      PROVE  /\ FileOk(p.files[k]) /\ p.files[k].first \in Nat /\ EndOf(p.files[k]) \in Nat
             /\ p.files[k].first <= EndOf(p.files[k])
             /\ IsSeq(p.files[k].log) /\ DOMAIN p.files[k].log = 1..Len(p.files[k].log)
             /\ Len(p.files[k].log) \in Nat /\ EndOf(p.files[k]) = p.files[k].first + Len(p.files[k].log)
  <2>1. FileOk(p.files[k])
    BY <1>3 DEF FilesOk
  <2>2. p.files[k].first \in Nat /\ IsSeq(p.files[k].log)
    BY <2>1 DEF FileOk
  <2>3. Len(p.files[k].log) \in Nat /\ DOMAIN p.files[k].log = 1..Len(p.files[k].log)
    BY <2>2, SeqFacts
  <2>4. PICK first \in Nat, length \in Nat : first = p.files[k].first /\ length = Len(p.files[k].log)
    BY <2>2, <2>3
  <2>5. EndOf(p.files[k]) = first + length
    BY <2>4 DEF EndOf
  <2>6. first + length \in Nat /\ first <= first + length
    OBVIOUS
  <2> QED BY <2>1, <2>2, <2>3, <2>4, <2>5, <2>6
<1>5. EndOf(p.files[i]) <= p.size
  <2>1. CASE i = n
    BY <1>3, <1>4, <2>1
  <2>2. CASE i # n
    <3>1. EndOf(p.files[i]) <= p.files[n].first
      BY <1>3, <2>2 DEF FilesOk
    <3>2. EndOf(p.files[i]) \in Nat /\ p.files[n].first \in Nat /\ EndOf(p.files[n]) \in Nat
          /\ p.files[n].first <= EndOf(p.files[n])
      BY <1>3, <1>4
    <3> QED BY <1>3, <3>1, <3>2
  <2> QED BY <2>1, <2>2
<1>6. \A j \in DOMAIN p.files[i].log : p.files[i].log[j].offset = p.files[i].first + j - 1
  BY <1>3, <1>4 DEF FileOk
<1> QED BY <1>3, <1>4, <1>5, <1>6

LEMMA PacketsBelow ==
  ASSUME NEW p, PartOk(p), NEW m \in Packets(p)
  PROVE  m.offset \in Nat /\ m.offset < p.size
<1>1. PICK i \in DOMAIN p.files : \E j \in DOMAIN p.files[i].log : m = p.files[i].log[j]
  BY PacketsAre
<1>2. PICK j \in DOMAIN p.files[i].log : m = p.files[i].log[j]
  BY <1>1
<1>3. PICK first, length, end : first = p.files[i].first /\ length = Len(p.files[i].log) /\ end = EndOf(p.files[i])
  OBVIOUS
<1>4. first \in Nat /\ length \in Nat /\ end <= p.size /\ end = first + length /\ j \in 1..length
      /\ m.offset = first + j - 1
  BY <1>2, <1>3, OffsetsAre
<1>5. p.size \in Nat
  BY DEF PartOk
<1> QED BY <1>4, <1>5

\* The file that has the packet of an offset.
LEMMA FileOfIs ==
  ASSUME NEW p, PartOk(p), NEW offset \in Nat, offset < p.size
  PROVE  \E i \in DOMAIN p.files :
            /\ FileOf(p, offset) = p.files[i]
            /\ p.files[i].first <= offset /\ offset < EndOf(p.files[i])
<1>1. PICK n, S : n = Len(p.files) /\ S = {i \in DOMAIN p.files : p.files[i].first <= offset}
  OBVIOUS
<1>2. Exists(p)
  BY DEF PartOk
<1>3. n \in 1..n /\ DOMAIN p.files = 1..n /\ n \in Nat /\ FilesOk(p.files) /\ p.size = EndOf(p.files[n])
  BY <1>1, <1>2, SeqFacts DEF PartOk, FilesOk, Exists, Last
<1>4. 1 \in S /\ S \in SUBSET Nat /\ \A s \in S : s <= n
  <2>1. p.files[1].first = 0
    BY <1>3 DEF FilesOk
  <2> QED BY <1>1, <1>3, <2>1
<1>5. PICK i : i = Max(S)
  OBVIOUS
<1>6. i \in S /\ \A s \in S : s <= i
  BY <1>3, <1>4, <1>5, MaxIs
<1>7. i \in 1..n /\ p.files[i].first <= offset
  BY <1>1, <1>3, <1>6
<1>8. offset < EndOf(p.files[i])
  <2>1. CASE i = n
    BY <1>3, <2>1
  <2>2. CASE i # n
    <3>1. i + 1 \in 1..n /\ i + 1 # 1 /\ i + 1 \notin S
      BY <1>3, <1>6, <1>7, <2>2
    <3>2. p.files[i + 1].first = EndOf(p.files[i])
      <4>1. PICK next : next = i + 1
        OBVIOUS
      <4>2. p.files[next].first = EndOf(p.files[next - 1])
        BY <1>3, <3>1, <4>1 DEF FilesOk
      <4>3. next - 1 = i
        BY <1>7, <4>1
      <4> QED BY <4>1, <4>2, <4>3
    <3>3. EndOf(p.files[i]) \in Nat
      BY <1>3, <1>7, OffsetsAre
    <3>4. ~ p.files[i + 1].first <= offset
      BY <1>1, <1>3, <3>1
    <3> QED BY <3>2, <3>3, <3>4
  <2> QED BY <2>1, <2>2
<1>9. FileOf(p, offset) = p.files[i]
  BY <1>1, <1>5 DEF FileOf
<1> QED BY <1>3, <1>7, <1>8, <1>9

\* Where a pull starts: at the packet asked for or the one before.
LEMMA StartIs ==
  ASSUME NEW f, FileOk(f), NEW o \in Nat
  PROVE  StartAt(f, o) \in 0..o
<1>1. PICK n : n = Len(f.log)
  OBVIOUS
<1>2. n \in Nat /\ DOMAIN f.log = 1..n
  BY <1>1, SeqFacts DEF FileOk
<1>3. ASSUME NEW i \in 0..n, NEW j \in 0..n, i < j
      PROVE  Position(f.log, i) \in Nat /\ Position(f.log, j) \in Nat /\ Position(f.log, i) < Position(f.log, j)
  <2>1. j \in DOMAIN f.log /\ j # 0 /\ f.log[j].ends \in Nat \ {0}
    BY <1>2, <1>3 DEF FileOk
  <2>2. CASE i = 0
    BY <2>1, <2>2 DEF Position
  <2>3. CASE i # 0
    <3>1. i \in DOMAIN f.log /\ f.log[i].ends \in Nat \ {0} /\ f.log[i].ends < f.log[j].ends
      BY <1>2, <1>3, <2>1, <2>3 DEF FileOk
    <3> QED BY <2>1, <2>3, <3>1 DEF Position
  <2> QED BY <2>2, <2>3
<1>4. \A i, j \in 0..n : Position(f.log, i) = Position(f.log, j) => i = j
  <2>1. SUFFICES ASSUME NEW i \in 0..n, NEW j \in 0..n, Position(f.log, i) = Position(f.log, j), i # j
                 PROVE  FALSE
    OBVIOUS
  <2>2. i < j \/ j < i
    BY <1>2, <2>1
  <2>3. CASE i < j
    <3>1. Position(f.log, i) \in Nat /\ Position(f.log, i) < Position(f.log, j)
      BY <1>3, <2>3
    <3> QED BY <2>1, <3>1
  <2>4. CASE j < i
    <3>1. Position(f.log, j) \in Nat /\ Position(f.log, j) < Position(f.log, i)
      BY <1>3, <2>4
    <3> QED BY <2>1, <3>1
  <2> QED BY <2>2, <2>3, <2>4
<1>5. PICK line : line = IndexLine(f.index, o)
  OBVIOUS
<1>6. CASE line = 0
  BY <1>5, <1>6 DEF StartAt
<1>7. CASE line # 0
  <2>1. \A k \in DOMAIN f.index : k \in 1..n
    BY <1>1 DEF FileOk, LeadsToPacket
  <2>2. line \in DOMAIN f.index /\ line <= o
    <3>1. PICK down : down = {k \in DOMAIN f.index : k <= o}
      OBVIOUS
    <3>2. line = Max(down) /\ down # {}
      BY <1>5, <1>7, <3>1 DEF IndexLine
    <3>3. down \in SUBSET Nat /\ \A s \in down : s <= o
      BY <2>1, <3>1
    <3>4. line \in down
      BY <3>2, <3>3, MaxIs
    <3> QED BY <3>1, <3>4
  <2>3. line \in 1..n
    BY <2>1, <2>2
  <2>4. PICK j \in {line - 1, line} : f.index[line] = Position(f.log, j)
    BY <2>2 DEF FileOk, LeadsToPacket
  <2>5. j \in 0..n
    BY <1>2, <2>3
  <2>6. PacketAt(f.log, f.index[line]) = j
    BY <1>1, <1>4, <2>4, <2>5 DEF PacketAt
  <2>7. StartAt(f, o) = j + o - line
    BY <1>5, <1>7, <2>6 DEF StartAt
  <2> QED BY <2>2, <2>3, <2>4, <2>7
<1> QED BY <1>6, <1>7

\* What a pull sends: packets of the log, one behind the other, from one that
\* is not behind what was asked for.
LEMMA SendIs ==
  ASSUME NEW p, PartOk(p), NEW offset \in Nat, offset < p.size, NEW limit,
         NEW packets, packets = SendToConsumer(p, offset, limit)
  PROVE  /\ IsSeq(packets) /\ DOMAIN packets = 1..Len(packets) /\ Len(packets) \in Nat
         /\ \A k \in DOMAIN packets : packets[k] \in Packets(p)
         /\ \A k \in DOMAIN packets : \A m \in Packets(p) :
               m.offset < packets[k].offset => m.offset < offset \/ \E l \in 1..k - 1 : packets[l] = m
<1>1. PICK i \in DOMAIN p.files : /\ FileOf(p, offset) = p.files[i]
                                  /\ p.files[i].first <= offset /\ offset < EndOf(p.files[i])
  BY FileOfIs
<1>2. PICK file, first, length : file = p.files[i] /\ first = file.first /\ length = Len(file.log)
  OBVIOUS
<1>3. /\ FileOk(file) /\ first \in Nat /\ length \in Nat /\ DOMAIN file.log = 1..length
      /\ first <= offset /\ offset < first + length /\ EndOf(file) = first + length /\ IsSeq(file.log)
      /\ \A j \in 1..length : file.log[j].offset = first + j - 1
  BY <1>1, <1>2, OffsetsAre
<1>4. PICK start : start = StartAt(file, offset - first)
  OBVIOUS
<1>5. start \in 0..offset - first
  <2>1. offset - first \in Nat
    BY <1>3
  <2> QED BY <1>3, <1>4, <2>1, StartIs
<1>6. PICK c : c = Cardinality({j \in start + 1..length :
                                  /\ Position(file.log, j) < FileMax
                                  /\ Position(file.log, j) - Position(file.log, start) <= limit})
  OBVIOUS
<1>7. c \in Nat /\ c <= length - start
  <2>1. PICK S, T : /\ S = start + 1..length
                    /\ T = {j \in S : /\ Position(file.log, j) < FileMax
                                      /\ Position(file.log, j) - Position(file.log, start) <= limit}
    OBVIOUS
  <2>2. start + 1 \in Int /\ length \in Int /\ start + 1 <= length
    BY <1>3, <1>5
  <2>3. IsFiniteSet(S) /\ Cardinality(S) = length - start
    <3>1. IsFiniteSet(start + 1..length)
          /\ Cardinality(start + 1..length) = IF start + 1 > length THEN 0 ELSE length - (start + 1) + 1
      BY <2>2, FS_Interval
    <3> QED BY <1>3, <1>5, <2>1, <2>2, <3>1
  <2>4. T \in SUBSET S
    BY <2>1
  <2>5. IsFiniteSet(T) /\ Cardinality(T) <= Cardinality(S)
    BY <2>3, <2>4, FS_Subset
  <2>6. Cardinality(T) \in Nat
    BY <2>5, FS_CardinalityType
  <2>7. c = Cardinality(T)
    BY <1>6, <2>1
  <2> QED BY <2>3, <2>5, <2>6, <2>7
<1>8. packets = SubSeq(file.log, start + 1, start + c)
  BY <1>1, <1>2, <1>4, <1>6 DEF SendToConsumer
<1>9. /\ packets \in Seq(InRange(file.log)) /\ Len(packets) = c
      /\ \A k \in 1..c : packets[k] = file.log[start + k]
  <2>1. start + 1 \in Int /\ start + c \in Int
    BY <1>5, <1>7
  <2>2. ASSUME NEW k \in start + 1..start + c PROVE file.log[k] \in InRange(file.log)
    <3>1. k \in DOMAIN file.log
      BY <1>3, <1>5, <1>7
    <3> QED BY <3>1 DEF InRange
  <2>3. PICK from, to, S, s : from = start + 1 /\ to = start + c /\ S = InRange(file.log) /\ s = file.log
    OBVIOUS
  <2>4. from \in Int /\ to \in Int /\ packets = SubSeq(s, from, to) /\ \A k \in from..to : s[k] \in S
    BY <1>8, <2>1, <2>2, <2>3
  <2>5. /\ packets \in Seq(S) /\ Len(packets) = IF from <= to THEN to - from + 1 ELSE 0
        /\ \A k \in 1..to - from + 1 : packets[k] = s[from + k - 1]
    BY <2>4, SubSeqProperties
  <2>6. to - from + 1 = c /\ (from <= to <=> c # 0)
    BY <1>5, <1>7, <2>3
  <2>7. \A k \in 1..c : from + k - 1 = start + k
    BY <1>5, <1>7, <2>3
  <2> QED BY <2>3, <2>5, <2>6, <2>7
<1>10. IsSeq(packets) /\ DOMAIN packets = 1..c
  BY <1>9, SeqIs, SeqFacts
<1>11. ASSUME NEW k \in 1..c
       PROVE  packets[k] \in Packets(p) /\ packets[k].offset = first + start + k - 1
  <2>1. start + k \in 1..length
    BY <1>3, <1>5, <1>7
  <2>2. packets[k] = file.log[start + k] /\ start + k \in DOMAIN file.log
    BY <1>3, <1>9, <2>1
  <2>3. file.log[start + k].offset = first + (start + k) - 1
    BY <1>3, <2>1
  <2>4. packets[k].offset = first + start + k - 1
    BY <1>3, <1>5, <2>2, <2>3
  <2>5. packets[k] \in Packets(p)
    BY <1>2, <2>2, PacketsAre
  <2> QED BY <2>4, <2>5
<1>12. ASSUME NEW k \in 1..c, NEW m \in Packets(p), m.offset < packets[k].offset, ~ m.offset < offset
       PROVE  \E l \in 1..k - 1 : packets[l] = m
  <2>1. PICK h \in DOMAIN p.files : \E j \in DOMAIN p.files[h].log : m = p.files[h].log[j]
    BY PacketsAre
  <2>2. PICK j \in DOMAIN p.files[h].log : m = p.files[h].log[j]
    BY <2>1
  <2>3. PICK at, size : at = p.files[h].first /\ size = Len(p.files[h].log)
    OBVIOUS
  <2>4. at \in Nat /\ size \in Nat /\ j \in 1..size /\ m.offset = at + j - 1 /\ EndOf(p.files[h]) = at + size
    BY <2>2, <2>3, OffsetsAre
  <2>5. packets[k].offset = first + start + k - 1 /\ packets[k].offset < first + length
    BY <1>3, <1>5, <1>7, <1>11
  <2>6. h = i
    <3>1. DOMAIN p.files \subseteq Nat
      <4>1. IsSeq(p.files)
        BY DEF PartOk, FilesOk
      <4> QED BY <4>1, SeqFacts
    <3>2. CASE h < i
      <4>1. at + size <= first
        BY <1>2, <2>4, <3>2 DEF PartOk, FilesOk
      <4> QED BY <1>3, <1>12, <2>4, <4>1
    <3>3. CASE i < h
      <4>1. first + length <= at
        BY <1>2, <1>3, <2>3, <3>3 DEF PartOk, FilesOk
      <4> QED BY <1>3, <1>5, <1>12, <2>4, <2>5, <4>1
    <3> QED BY <3>1, <3>2, <3>3
  <2>7. m = file.log[j] /\ at = first /\ size = length
    BY <1>2, <2>2, <2>3, <2>6
  <2>8. j - start \in 1..k - 1
    <3>1. first \in Nat /\ first <= offset /\ start \in 0..offset - first /\ offset \in Nat
      BY <1>3, <1>5
    <3>2. j \in Nat /\ m.offset = first + j - 1
      BY <2>4, <2>7
    <3>3. first + j - 1 < first + start + k - 1 /\ offset <= first + j - 1
      BY <1>12, <2>5, <3>1, <3>2
    <3> QED BY <3>1, <3>2, <3>3
  <2>9. j - start \in 1..c /\ start + (j - start) = j
    BY <1>5, <1>7, <2>4, <2>8
  <2>10. packets[j - start] = m
    BY <1>9, <2>7, <2>9
  <2> QED BY <2>8, <2>10
<1> QED BY <1>7, <1>9, <1>10, <1>11, <1>12

\* Two packets do not share an offset.
LEMMA OffsetsDiffer ==
  ASSUME NEW p, PartOk(p), NEW x \in Packets(p), NEW y \in Packets(p), x.offset = y.offset
  PROVE  x = y
<1>1. PICK i \in DOMAIN p.files : \E j \in DOMAIN p.files[i].log : x = p.files[i].log[j]
  BY PacketsAre
<1>2. PICK j \in DOMAIN p.files[i].log : x = p.files[i].log[j]
  BY <1>1
<1>3. PICK h \in DOMAIN p.files : \E g \in DOMAIN p.files[h].log : y = p.files[h].log[g]
  BY PacketsAre
<1>4. PICK g \in DOMAIN p.files[h].log : y = p.files[h].log[g]
  BY <1>3
<1>5. PICK a, n, b, k : /\ a = p.files[i].first /\ n = Len(p.files[i].log)
                        /\ b = p.files[h].first /\ k = Len(p.files[h].log)
  OBVIOUS
<1>6. a \in Nat /\ n \in Nat /\ j \in 1..n /\ x.offset = a + j - 1 /\ EndOf(p.files[i]) = a + n
  BY <1>2, <1>5, OffsetsAre
<1>7. b \in Nat /\ k \in Nat /\ g \in 1..k /\ y.offset = b + g - 1 /\ EndOf(p.files[h]) = b + k
  BY <1>4, <1>5, OffsetsAre
<1>8. i \in Nat /\ h \in Nat
  <2>1. IsSeq(p.files)
    BY DEF PartOk, FilesOk
  <2> QED BY <2>1, SeqFacts
<1>12. a + j - 1 = b + g - 1
  BY <1>6, <1>7
<1>13. a \in Nat /\ n \in Nat /\ j \in 1..n /\ b \in Nat /\ k \in Nat /\ g \in 1..k
  BY <1>6, <1>7
<1>9. CASE i < h
  <2>1. a + n <= b
    BY <1>5, <1>6, <1>9 DEF PartOk, FilesOk
  <2> QED BY <1>12, <1>13, <2>1
<1>10. CASE h < i
  <2>1. b + k <= a
    BY <1>5, <1>7, <1>10 DEF PartOk, FilesOk
  <2> QED BY <1>12, <1>13, <2>1
<1>11. CASE h = i
  <2>1. a = b
    BY <1>5, <1>11
  <2>2. j = g
    BY <1>12, <1>13, <2>1
  <2> QED BY <1>2, <1>4, <1>11, <2>2
<1> QED BY <1>8, <1>9, <1>10, <1>11

(***************************************************************************)
(* What was received and what is under way, when the partition and what    *)
(* was seen grow.                                                          *)
(***************************************************************************)
Grows(p, r) ==
    /\ PartOk(p) /\ PartOk(r) /\ p.size <= r.size
    /\ Packets(p) \subseteq Packets(r)
    /\ \A m \in Packets(r) : m.offset < p.size => m \in Packets(p)

LEMMA SameGrows ==
  ASSUME NEW p, NEW r, PartOk(p), PartOk(r), r.size = p.size, Packets(r) = Packets(p)
  PROVE  Grows(p, r)
<1>1. p.size \in Nat
  BY DEF PartOk
<1> QED BY <1>1 DEF Grows

LEMMA StoredGrows ==
  ASSUME NEW p, PartOk(p), NEW m, m.len \in Nat \ {0}, NEW r, r = Stored(p, m)
  PROVE  Grows(p, r) /\ m.id \in Ids(r)
<1>1. PartOk(r) /\ r.size = p.size + 1 /\ p.size \in Nat
  BY StoredIs DEF PartOk
<1>2. PICK packet : packet.id = m.id /\ packet.offset = p.size /\ Packets(r) = Packets(p) \cup {packet}
  BY StoredIs
<1>3. ~ packet.offset < p.size
  BY <1>1, <1>2
<1>4. Grows(p, r)
  BY <1>1, <1>2, <1>3 DEF Grows
<1> QED BY <1>2, <1>4 DEF Ids

LEMMA CoveredGrows ==
  ASSUME NEW p, NEW r, Grows(p, r), NEW s, NEW t, InRange(s) \subseteq InRange(t), NEW n, Covered(n, p, s)
  PROVE  Covered(n, r, t)
<1>1. p.size \in Nat /\ r.size \in Nat /\ p.size <= r.size /\ n \in 0..p.size
  BY DEF Grows, PartOk, Covered
<1>2. ASSUME NEW m \in Packets(r), m.offset < n PROVE m.id \in InRange(t)
  <2>1. m.offset \in Nat
    BY PacketsBelow DEF Grows
  <2>2. m \in Packets(p)
    BY <1>1, <1>2, <2>1 DEF Grows
  <2> QED BY <1>2, <2>2 DEF Covered
<1> QED BY <1>1, <1>2 DEF Covered

LEMMA NothingCovered ==
  ASSUME NEW p, PartOk(p), NEW s
  PROVE  Covered(0, p, s)
<1>1. p.size \in Nat
  BY DEF PartOk
<1>2. ASSUME NEW m \in Packets(p) PROVE ~ m.offset < 0
  BY PacketsBelow
<1> QED BY <1>1, <1>2 DEF Covered

LEMMA RequestsGrow ==
  ASSUME NEW p, NEW r, Grows(p, r), NEW s, NEW t, InRange(s) \subseteq InRange(t), NEW queue, RequestsOk(queue, p, s)
  PROVE  RequestsOk(queue, r, t)
  BY CoveredGrows DEF RequestsOk

LEMMA ReceivedGrow ==
  ASSUME NEW p, NEW r, Grows(p, r), NEW s, NEW t, InRange(s) \subseteq InRange(t), NEW queue, ReceivedOk(queue, p, s)
  PROVE  ReceivedOk(queue, r, t)
  BY CoveredGrows DEF ReceivedOk

LEMMA RepliesGrow ==
  ASSUME NEW p, NEW r, Grows(p, r), NEW s, NEW t, InRange(s) \subseteq InRange(t), NEW queue, RepliesOk(queue, p, s)
  PROVE  RepliesOk(queue, r, t)
<1>1. ASSUME NEW k \in DOMAIN queue, queue[k].command = "too large" PROVE Covered(queue[k].offset, r, t)
  <2>1. PICK n : n = queue[k].offset
    OBVIOUS
  <2>2. Covered(n, p, s)
    BY <1>1, <2>1 DEF RepliesOk
  <2> QED BY <2>1, <2>2, CoveredGrows
<1>2. ASSUME NEW k \in DOMAIN queue, queue[k].command = "message" PROVE MessageOk(queue, k, r, t)
  <2>1. MessageOk(queue, k, p, s)
    BY <1>2 DEF RepliesOk
  <2>2. PICK x \in Packets(p) : x.offset = queue[k].offset /\ x.id = queue[k].id
    BY <2>1 DEF MessageOk
  <2>3. x \in Packets(r) /\ x.offset \in Nat /\ x.offset < p.size /\ p.size \in Nat
    BY PacketsBelow DEF Grows, PartOk
  <2>4. ASSUME NEW m \in Packets(r), m.offset < queue[k].offset
        PROVE  m.id \in InRange(t) \/ \E l \in 1..k - 1 : queue[l].command = "message" /\ queue[l].id = m.id
    <3>1. m.offset \in Nat
      BY PacketsBelow DEF Grows
    <3>2. m.offset < p.size
      BY <2>2, <2>3, <2>4, <3>1
    <3>3. m \in Packets(p)
      BY <3>2 DEF Grows
    <3> QED BY <2>1, <2>4, <3>3 DEF MessageOk
  <2> QED BY <2>2, <2>3, <2>4 DEF MessageOk
<1> QED BY <1>1, <1>2 DEF RepliesOk

LEMMA SeesGrow ==
  ASSUME NEW p, NEW r, Grows(p, r), NEW s, NEW n, SeesNth(n, p, s)
  PROVE  SeesNth(n, r, s)
<1>1. PICK m \in Packets(p) :
          /\ m.id = s[n]
          /\ \A before \in Packets(p) : before.offset < m.offset => \E k \in 1..n - 1 : s[k] = before.id
  BY DEF SeesNth
<1>2. m \in Packets(r) /\ m.offset \in Nat /\ m.offset < p.size /\ p.size \in Nat
  BY PacketsBelow DEF Grows, PartOk
<1>3. ASSUME NEW before \in Packets(r), before.offset < m.offset
      PROVE  \E k \in 1..n - 1 : s[k] = before.id
  <2>1. before.offset \in Nat
    BY PacketsBelow DEF Grows
  <2>2. before.offset < p.size
    BY <1>2, <1>3, <2>1
  <2>3. before \in Packets(p)
    BY <2>2 DEF Grows
  <2> QED BY <1>1, <1>3, <2>3
<1> QED BY <1>1, <1>2, <1>3 DEF SeesNth

LEMMA RequestsTail ==
  ASSUME NEW p, NEW s, NEW queue, RequestsOk(queue, p, s), queue # <<>>
  PROVE  RequestsOk(Tail(queue), p, s)
<1>1. PICK t : t = Tail(queue)
  OBVIOUS
<1>2. IsSeq(t) /\ \A i \in DOMAIN t : t[i] = queue[i + 1] /\ i + 1 \in DOMAIN queue
  BY <1>1, SeqTail DEF RequestsOk
<1> QED BY <1>1, <1>2 DEF RequestsOk

LEMMA RequestsMore ==
  ASSUME NEW p, NEW s, NEW queue, RequestsOk(queue, p, s), NEW e,
         e.command \in {"pull", "commit"} => Covered(e.offset, p, s)
  PROVE  RequestsOk(queue \o <<e>>, p, s) /\ RequestsOk(<<e>>, p, s)
<1>1. PICK n, one : n = Len(queue) /\ one = <<e>>
  OBVIOUS
<1>2. IsSeq(one) /\ Len(one) = 1 /\ DOMAIN one = {1} /\ one[1] = e
  BY <1>1, SeqOne
<1>3. IsSeq(queue) /\ n \in Nat /\ DOMAIN queue = 1..n
  BY <1>1, SeqFacts DEF RequestsOk
<1>4. PICK t : t = queue \o one
  OBVIOUS
<1>5. /\ IsSeq(t) /\ DOMAIN t = 1..n + 1
      /\ \A i \in 1..n : t[i] = queue[i]
      /\ \A i \in 1..1 : t[n + i] = one[i]
  BY <1>1, <1>2, <1>3, <1>4, SeqConcat
<1>6. t[n + 1] = e
  BY <1>2, <1>5
<1>7. ASSUME NEW k \in DOMAIN t, t[k].command \in {"pull", "commit"} PROVE Covered(t[k].offset, p, s)
  <2>1. k \in 1..n \/ k = n + 1
    BY <1>3, <1>5
  <2>2. CASE k \in 1..n
    BY <1>3, <1>5, <1>7, <2>2 DEF RequestsOk
  <2>3. CASE k = n + 1
    BY <1>6, <1>7, <2>3
  <2> QED BY <2>1, <2>2, <2>3
<1> QED BY <1>1, <1>2, <1>4, <1>5, <1>7 DEF RequestsOk

LEMMA RepliesTail ==
  ASSUME NEW p, NEW s, NEW queue, RepliesOk(queue, p, s), queue # <<>>,
         Head(queue).command = "message" => Head(queue).id \in InRange(s)
  PROVE  RepliesOk(Tail(queue), p, s)
<1>1. PICK t : t = Tail(queue)
  OBVIOUS
<1>2. /\ IsSeq(t) /\ \A i \in DOMAIN t : t[i] = queue[i + 1] /\ i + 1 \in DOMAIN queue
      /\ Head(queue) = queue[1]
  BY <1>1, SeqTail DEF RepliesOk
<1>3. Len(t) \in Nat /\ DOMAIN t = 1..Len(t)
  BY <1>2, SeqFacts
<1>4. ASSUME NEW k \in DOMAIN t, t[k].command = "message" PROVE MessageOk(t, k, p, s)
  <2>1. t[k] = queue[k + 1] /\ MessageOk(queue, k + 1, p, s)
    BY <1>2, <1>4 DEF RepliesOk
  <2>2. ASSUME NEW m \in Packets(p), m.offset < t[k].offset, m.id \notin InRange(s)
        PROVE  \E l \in 1..k - 1 : t[l].command = "message" /\ t[l].id = m.id
    <3>1. PICK l \in 1..(k + 1) - 1 : queue[l].command = "message" /\ queue[l].id = m.id
      BY <2>1, <2>2 DEF MessageOk
    <3>2. l # 1
      BY <1>2, <2>2, <3>1
    <3>3. l - 1 \in 1..k - 1 /\ l - 1 \in DOMAIN t /\ (l - 1) + 1 = l
      BY <1>3, <3>2
    <3>4. t[l - 1] = queue[l]
      BY <1>2, <3>3
    <3> QED BY <3>1, <3>3, <3>4
  <2> QED BY <2>1, <2>2 DEF MessageOk
<1> QED BY <1>1, <1>2, <1>4 DEF RepliesOk

LEMMA RepliesConcat ==
  ASSUME NEW p, NEW s, NEW queue, RepliesOk(queue, p, s), NEW more, RepliesOk(more, p, s)
  PROVE  RepliesOk(queue \o more, p, s)
<1>1. PICK n, k, t : n = Len(queue) /\ k = Len(more) /\ t = queue \o more
  OBVIOUS
<1>2. /\ IsSeq(t) /\ DOMAIN t = 1..n + k /\ n \in Nat /\ k \in Nat /\ DOMAIN queue = 1..n /\ DOMAIN more = 1..k
      /\ \A i \in 1..n : t[i] = queue[i]
      /\ \A i \in 1..k : t[n + i] = more[i]
  <2>1. IsSeq(queue) /\ IsSeq(more)
    BY DEF RepliesOk
  <2>2. n \in Nat /\ k \in Nat /\ DOMAIN queue = 1..n /\ DOMAIN more = 1..k
    BY <1>1, <2>1, SeqFacts
  <2>3. /\ IsSeq(t) /\ DOMAIN t = 1..n + k
        /\ \A i \in 1..n : t[i] = queue[i]
        /\ \A i \in 1..k : t[n + i] = more[i]
    BY <1>1, <2>1, SeqConcat
  <2> QED BY <2>2, <2>3
<1>3. ASSUME NEW i \in DOMAIN t
      PROVE  /\ t[i].command = "too large" => Covered(t[i].offset, p, s)
             /\ t[i].command = "message" => MessageOk(t, i, p, s)
  <2>1. CASE i \in 1..n
    <3>1. t[i] = queue[i] /\ \A l \in 1..i - 1 : t[l] = queue[l]
      BY <1>2, <2>1
    <3>2. queue[i].command = "message" => MessageOk(queue, i, p, s)
      BY <1>2, <2>1 DEF RepliesOk
    <3>3. queue[i].command = "too large" => Covered(queue[i].offset, p, s)
      BY <1>2, <2>1 DEF RepliesOk
    <3> QED BY <3>1, <3>2, <3>3 DEF MessageOk
  <2>2. CASE i \notin 1..n
    <3>1. PICK j : j = i - n
      OBVIOUS
    <3>2. j \in 1..k /\ i = n + j
      BY <1>2, <2>2, <3>1
    <3>3. t[i] = more[j]
      BY <1>2, <3>2
    <3>4. more[j].command = "too large" => Covered(more[j].offset, p, s)
      BY <1>2, <3>2 DEF RepliesOk
    <3>5. ASSUME more[j].command = "message" PROVE MessageOk(t, i, p, s)
      <4>1. MessageOk(more, j, p, s)
        BY <1>2, <3>2, <3>5 DEF RepliesOk
      <4>2. \A l \in 1..j - 1 : t[n + l] = more[l] /\ n + l \in 1..i - 1
        BY <1>2, <3>2
      <4> QED BY <3>3, <4>1, <4>2 DEF MessageOk
    <3> QED BY <3>3, <3>4, <3>5
  <2> QED BY <2>1, <2>2
<1> QED BY <1>1, <1>2, <1>3 DEF RepliesOk

LEMMA RepliesOne ==
  ASSUME NEW p, NEW s, NEW e, e.command # "message",
         e.command = "too large" => Covered(e.offset, p, s)
  PROVE  RepliesOk(<<e>>, p, s)
<1>1. PICK one : one = <<e>>
  OBVIOUS
<1>2. IsSeq(one) /\ DOMAIN one = {1} /\ one[1] = e
  BY <1>1, SeqOne
<1> QED BY <1>1, <1>2 DEF RepliesOk

\* The answer to a pull that asks for what follows the messages received.
LEMMA RepliesSent ==
  ASSUME NEW p, PartOk(p), NEW s, NEW offset, Covered(offset, p, s), offset < p.size,
         NEW limit, NEW packets, packets = SendToConsumer(p, offset, limit),
         NEW reply, reply = [i \in DOMAIN packets |->
                                [command |-> "message", id |-> packets[i].id, offset |-> packets[i].offset]]
  PROVE  RepliesOk(reply, p, s)
<1>1. offset \in Nat
  BY DEF Covered, PartOk
<1>2. PICK n : n = Len(packets)
  OBVIOUS
<1>3. /\ IsSeq(packets) /\ DOMAIN packets = 1..n /\ n \in Nat
      /\ \A k \in DOMAIN packets : packets[k] \in Packets(p)
      /\ \A k \in DOMAIN packets : \A m \in Packets(p) :
            m.offset < packets[k].offset => m.offset < offset \/ \E l \in 1..k - 1 : packets[l] = m
  BY <1>1, <1>2, SendIs
<1>4. /\ IsSeq(reply) /\ DOMAIN reply = 1..n
      /\ \A k \in 1..n : /\ reply[k].command = "message" /\ reply[k].id = packets[k].id
                         /\ reply[k].offset = packets[k].offset
  <2>1. DOMAIN reply = 1..n /\ reply = [i \in 1..n |-> reply[i]]
    BY <1>3
  <2> QED BY <1>3, <2>1, SeqFun
<1>5. ASSUME NEW k \in 1..n PROVE MessageOk(reply, k, p, s)
  <2>1. packets[k] \in Packets(p) /\ reply[k].id = packets[k].id /\ reply[k].offset = packets[k].offset
    BY <1>3, <1>4
  <2>2. ASSUME NEW m \in Packets(p), m.offset < packets[k].offset
        PROVE  m.id \in InRange(s) \/ \E l \in 1..k - 1 : reply[l].command = "message" /\ reply[l].id = m.id
    <3>1. CASE m.offset < offset
      BY <3>1 DEF Covered
    <3>2. CASE \E l \in 1..k - 1 : packets[l] = m
      <4>1. PICK l \in 1..k - 1 : packets[l] = m
        BY <3>2
      <4>2. l \in 1..n
        BY <1>3
      <4> QED BY <1>4, <4>1, <4>2
    <3> QED BY <1>3, <2>2, <3>1, <3>2
  <2> QED BY <2>1, <2>2 DEF MessageOk
<1> QED BY <1>4, <1>5 DEF RepliesOk

(***************************************************************************)
(* The packets under way.                                                  *)
(***************************************************************************)
LEMMA IdsGrow ==
  ASSUME NEW p, NEW r, Grows(p, r)
  PROVE  Ids(p) \subseteq Ids(r)
  BY DEF Grows, Ids

LEMMA NetGrows ==
  ASSUME NEW p, NEW r, Grows(p, r), NEW s, NEW t, InRange(s) \subseteq InRange(t), NEW queues
  PROVE  /\ ToBrokerOk(queues, p, s) => ToBrokerOk(queues, r, t)
         /\ ToClientOk(queues, p, s) => ToClientOk(queues, r, t)
<1>1. RequestsOk(queues["consumer"], p, s) => RequestsOk(queues["consumer"], r, t)
  BY RequestsGrow
<1>2. RepliesOk(queues["consumer"], p, s) => RepliesOk(queues["consumer"], r, t)
  BY RepliesGrow
<1>3. Ids(p) \subseteq Ids(r)
  BY IdsGrow
<1> QED BY <1>1, <1>2, <1>3 DEF ToBrokerOk, ToClientOk

LEMMA NothingUnderWay ==
  ASSUME NEW p, NEW s
  PROVE  /\ RequestsOk(<<>>, p, s) /\ RepliesOk(<<>>, p, s)
         /\ ToBrokerOk(Everyone(<<>>), p, s) /\ ToClientOk(Everyone(<<>>), p, s)
<1>1. IsSeq(<<>>) /\ InRange(<<>>) = {}
  BY SeqEmpty
<1>2. DOMAIN <<>> = {}
  OBVIOUS
<1>3. RequestsOk(<<>>, p, s) /\ RepliesOk(<<>>, p, s)
  BY <1>1, <1>2 DEF RequestsOk, RepliesOk
<1>4. PICK none : none = Everyone(<<>>)
  OBVIOUS
<1>5. DOMAIN none = Client /\ none["producer"] = <<>> /\ none["consumer"] = <<>>
  BY <1>4 DEF Everyone, Client
<1> QED BY <1>1, <1>3, <1>4, <1>5 DEF ToBrokerOk, ToClientOk

\* The queue of one client changes.
LEMMA ToBrokerChange ==
  ASSUME NEW p, NEW s, NEW queues, ToBrokerOk(queues, p, s), NEW c \in Client, NEW queue,
         c = "producer" => IsSeq(queue), c = "consumer" => RequestsOk(queue, p, s)
  PROVE  ToBrokerOk([queues EXCEPT ![c] = queue], p, s)
<1>1. PICK r : r = [queues EXCEPT ![c] = queue]
  OBVIOUS
<1>2. /\ DOMAIN r = Client /\ r[c] = queue /\ \A d \in Client : d # c => r[d] = queues[d]
      /\ "producer" \in Client /\ "consumer" \in Client
  BY <1>1 DEF ToBrokerOk, Client
<1> QED BY <1>1, <1>2 DEF ToBrokerOk

LEMMA ToClientChange ==
  ASSUME NEW p, NEW s, NEW queues, ToClientOk(queues, p, s), NEW c \in Client, NEW queue,
         c = "producer" => IsSeq(queue) /\ InRange(queue) \subseteq Ids(p), c = "consumer" => RepliesOk(queue, p, s)
  PROVE  ToClientOk([queues EXCEPT ![c] = queue], p, s)
<1>1. PICK r : r = [queues EXCEPT ![c] = queue]
  OBVIOUS
<1>2. /\ DOMAIN r = Client /\ r[c] = queue /\ \A d \in Client : d # c => r[d] = queues[d]
      /\ "producer" \in Client /\ "consumer" \in Client
  BY <1>1 DEF ToClientOk, Client
<1> QED BY <1>1, <1>2 DEF ToClientOk

\* The broker takes a packet.
LEMMA TakenIs ==
  ASSUME NetOk, NEW c \in Client, NEW command, Taken(c, command)
  PROVE  /\ ToBrokerOk(toBroker', part, seen)
         /\ c = "consumer" /\ command \in {"pull", "commit"} => Covered(Packet(c).offset, part, seen)
<1>1. toBroker[c] # <<>> /\ Packet(c).command = command /\ toBroker' = [toBroker EXCEPT ![c] = Tail(@)]
  BY DEF Taken
<1>2. PICK queue : queue = toBroker[c]
  OBVIOUS
<1>3. IsSeq(queue) /\ (c = "consumer" => RequestsOk(queue, part, seen))
  BY <1>2 DEF NetOk, ToBrokerOk, RequestsOk, Client
<1>4. IsSeq(Tail(queue)) /\ (c = "consumer" => RequestsOk(Tail(queue), part, seen))
  BY <1>1, <1>2, <1>3, SeqTail, RequestsTail
<1>5. ToBrokerOk([toBroker EXCEPT ![c] = Tail(queue)], part, seen)
  BY <1>4, ToBrokerChange DEF NetOk
<1>6. ASSUME c = "consumer", command \in {"pull", "commit"} PROVE Covered(Packet(c).offset, part, seen)
  <2>1. Packet(c) = queue[1] /\ 1 \in DOMAIN queue
    BY <1>1, <1>2, <1>3, SeqTail DEF Packet
  <2> QED BY <1>1, <1>3, <1>6, <2>1 DEF RequestsOk
<1> QED BY <1>1, <1>2, <1>5, <1>6

\* A client takes one.
LEMMA ReceivedIs ==
  ASSUME NetOk, NEW c \in Client, Received(c)
  PROVE  /\ \A p, s : /\ ToClientOk(toClient, p, s)
                      /\ c = "consumer" /\ Head(toClient[c]).command = "message" => Head(toClient[c]).id \in InRange(s)
                      => ToClientOk(toClient', p, s)
         /\ c = "producer" => Head(toClient[c]) \in Ids(part)
         /\ c = "consumer" => /\ Head(toClient[c]) = toClient[c][1] /\ 1 \in DOMAIN toClient[c]
                              /\ RepliesOk(toClient[c], part, seen)
<1>1. toClient[c] # <<>> /\ toClient' = [toClient EXCEPT ![c] = Tail(@)]
  BY DEF Received
<1>2. PICK queue : queue = toClient[c]
  OBVIOUS
<1>3. IsSeq(queue)
  BY <1>2 DEF NetOk, ToClientOk, RepliesOk, Client
<1>4. IsSeq(Tail(queue)) /\ InRange(Tail(queue)) \subseteq InRange(queue) /\ Head(queue) \in InRange(queue)
      /\ Head(queue) = queue[1] /\ 1 \in DOMAIN queue
  BY <1>1, <1>2, <1>3, SeqTail
<1>5. ASSUME NEW p, NEW s, ToClientOk(toClient, p, s),
             c = "consumer" /\ Head(queue).command = "message" => Head(queue).id \in InRange(s)
      PROVE  ToClientOk(toClient', p, s)
  <2>1. c = "producer" => InRange(Tail(queue)) \subseteq Ids(p)
    BY <1>2, <1>4, <1>5 DEF ToClientOk
  <2>2. c = "consumer" => RepliesOk(Tail(queue), p, s)
    <3>1. c = "consumer" => RepliesOk(queue, p, s)
      BY <1>2, <1>5 DEF ToClientOk
    <3> QED BY <1>1, <1>2, <1>5, <3>1, RepliesTail
  <2>3. ToClientOk([toClient EXCEPT ![c] = Tail(queue)], p, s)
    BY <1>4, <1>5, <2>1, <2>2, ToClientChange
  <2> QED BY <1>1, <1>2, <2>3
<1>6. c = "producer" => Head(queue) \in Ids(part)
  BY <1>2, <1>4 DEF NetOk, ToClientOk
<1>7. c = "consumer" => RepliesOk(queue, part, seen)
  BY <1>2 DEF NetOk, ToClientOk
<1> QED BY <1>2, <1>4, <1>5, <1>6, <1>7

\* The broker answers.
LEMMA AnswerIs ==
  ASSUME NEW p, NEW s, ToClientOk(toClient, p, s), NEW c \in Client, NEW packets, ToClient(c, packets),
         c = "producer" => IsSeq(packets) /\ InRange(packets) \subseteq Ids(p),
         c = "consumer" => RepliesOk(packets, p, s)
  PROVE  ToClientOk(toClient', p, s)
<1>1. CASE ~atClient[c]
  BY <1>1 DEF ToClient
<1>2. CASE atClient[c]
  <2>1. PICK queue : queue = toClient[c]
    OBVIOUS
  <2>2. IsSeq(queue) /\ (c = "consumer" => RepliesOk(queue, p, s)) /\ (c = "producer" => InRange(queue) \subseteq Ids(p))
    BY <2>1 DEF ToClientOk, RepliesOk, Client
  <2>3. c = "producer" => IsSeq(queue \o packets) /\ InRange(queue \o packets) \subseteq Ids(p)
    <3>1. c = "producer" => IsSeq(queue \o packets) /\ InRange(queue \o packets) = InRange(queue) \cup InRange(packets)
      BY <2>2, SeqConcat
    <3> QED BY <2>2, <3>1
  <2>4. c = "consumer" => RepliesOk(queue \o packets, p, s)
    BY <2>2, RepliesConcat
  <2>5. ToClientOk([toClient EXCEPT ![c] = queue \o packets], p, s)
    BY <2>3, <2>4, ToClientChange
  <2>6. toClient' = [toClient EXCEPT ![c] = queue \o packets]
    BY <1>2, <2>1 DEF ToClient
  <2> QED BY <2>5, <2>6
<1> QED BY <1>1, <1>2

\* A client sends.
LEMMA ProducerSends ==
  ASSUME NEW p, NEW s, ToBrokerOk(toBroker, p, s), NEW packets, IsSeq(packets), ToBroker("producer", packets)
  PROVE  ToBrokerOk(toBroker', p, s)
<1>1. CASE ~atBroker["producer"]
  BY <1>1 DEF ToBroker
<1>2. CASE atBroker["producer"]
  <2>1. PICK queue : queue = toBroker["producer"]
    OBVIOUS
  <2>2. IsSeq(queue \o packets)
    BY <2>1, SeqConcat DEF ToBrokerOk
  <2>3. ToBrokerOk([toBroker EXCEPT !["producer"] = queue \o packets], p, s)
    BY <2>2, ToBrokerChange DEF Client
  <2> QED BY <1>2, <2>1, <2>3 DEF ToBroker
<1> QED BY <1>1, <1>2

LEMMA ConsumerAsks ==
  ASSUME NEW p, NEW s, ToBrokerOk(toBroker, p, s), NEW e, Asks(e),
         e.command \in {"pull", "commit"} => Covered(e.offset, p, s)
  PROVE  ToBrokerOk(toBroker', p, s)
<1>1. CASE ~atBroker["consumer"]
  BY <1>1 DEF Asks, ToBroker
<1>2. CASE atBroker["consumer"]
  <2>1. PICK queue : queue = toBroker["consumer"]
    OBVIOUS
  <2>2. RequestsOk(queue \o <<e>>, p, s)
    BY <2>1, RequestsMore DEF ToBrokerOk
  <2>3. ToBrokerOk([toBroker EXCEPT !["consumer"] = queue \o <<e>>], p, s)
    BY <2>2, ToBrokerChange DEF Client
  <2> QED BY <1>2, <2>1, <2>3 DEF Asks, ToBroker
<1> QED BY <1>1, <1>2

(***************************************************************************)
(* The invariant, by who takes the step.                                   *)
(***************************************************************************)
LEMMA BrokerStep ==
  ASSUME MqInv, Grows(part, part'), UNCHANGED <<producerVars, consumerVars>>,
         ToBrokerOk(toBroker', part', seen), ToClientOk(toClient', part', seen),
         Covered(group', part', seen), Covered(replicate', part', seen), Covered(commitFile', part', seen)
  PROVE  MqInv'
<1>1. UNCHANGED <<seen, local, recv>> /\ UNCHANGED <<puts, sendQueue, resend, okd, failed>>
  BY DEF producerVars, consumerVars
<1>2. PartOk(part')
  BY DEF Grows
<1>3. NetOk'
  BY <1>1 DEF NetOk
<1>4. ConsumerOk'
  <2>1. IsSeq(seen) /\ Covered(local, part, seen) /\ ReceivedOk(recv, part, seen)
        /\ \A n \in DOMAIN seen : SeesNth(n, part, seen)
    BY DEF MqInv, ConsumerOk
  <2>2. Covered(local, part', seen) /\ ReceivedOk(recv, part', seen)
    BY <2>1, CoveredGrows, ReceivedGrow
  <2>3. \A n \in DOMAIN seen : SeesNth(n, part', seen)
    BY <2>1, SeesGrow
  <2> QED BY <1>1, <2>1, <2>2, <2>3 DEF ConsumerOk
<1>5. BrokerOk'
  BY <1>1 DEF BrokerOk
<1>6. ProducerOk'
  <2>1. Ids(part) \subseteq Ids(part')
    BY IdsGrow
  <2>2. StoredIds = Ids(part) /\ StoredIds' = Ids(part')
    BY DEF StoredIds, Ids
  <2> QED BY <1>1, <2>1, <2>2 DEF MqInv, ProducerOk, NothingForgotten
<1> QED BY <1>2, <1>3, <1>4, <1>5, <1>6 DEF MqInv

LEMMA ProducerStep ==
  ASSUME MqInv, UNCHANGED <<part, group, replicate, commitFile, consumerVars>>,
         ToBrokerOk(toBroker', part, seen), ToClientOk(toClient', part, seen), ProducerOk'
  PROVE  MqInv'
<1>1. UNCHANGED <<seen, local, recv>>
  BY DEF consumerVars
<1>2. PartOk(part')
  BY DEF MqInv
<1>3. NetOk'
  BY <1>1 DEF NetOk
<1>4. ConsumerOk'
  BY <1>1 DEF MqInv, ConsumerOk
<1>5. BrokerOk'
  BY <1>1 DEF MqInv, BrokerOk
<1> QED BY <1>2, <1>3, <1>4, <1>5 DEF MqInv

LEMMA ConsumerStep ==
  ASSUME MqInv, UNCHANGED <<part, group, replicate, commitFile, producerVars>>,
         InRange(seen) \subseteq InRange(seen'),
         ToBrokerOk(toBroker', part, seen'), ToClientOk(toClient', part, seen'), ConsumerOk'
  PROVE  MqInv'
<1>1. UNCHANGED <<puts, sendQueue, resend, okd, failed>>
  BY DEF producerVars
<1>2. PartOk(part') /\ PartOk(part)
  BY DEF MqInv
<1>3. NetOk'
  BY DEF NetOk
<1>4. BrokerOk'
  <2>1. Grows(part, part)
    BY <1>2, SameGrows
  <2>2. PICK t : t = seen'
    OBVIOUS
  <2>3. Covered(group, part, t) /\ Covered(replicate, part, t) /\ Covered(commitFile, part, t)
    BY <2>1, <2>2, CoveredGrows DEF MqInv, BrokerOk
  <2> QED BY <2>2, <2>3 DEF BrokerOk
<1>5. ProducerOk'
  <2>1. StoredIds = Ids(part) /\ StoredIds' = Ids(part')
    BY DEF StoredIds, Ids
  <2> QED BY <1>1, <2>1 DEF MqInv, ProducerOk, NothingForgotten
<1> QED BY <1>2, <1>3, <1>4, <1>5 DEF MqInv

LEMMA MqStarts ==
  ASSUME InitMq
  PROVE  MqInv
<1>1. part = NoPartition /\ group = 0 /\ replicate = 0 /\ commitFile = 0
      /\ toBroker = Everyone(<<>>) /\ toClient = Everyone(<<>>)
      /\ puts = 0 /\ sendQueue = <<>> /\ resend = {} /\ okd = {} /\ local = 0 /\ seen = <<>> /\ recv = <<>>
  BY DEF InitMq, InitBroker
<1>2. DOMAIN <<>> = {} /\ IsSeq(<<>>)
  BY SeqEmpty
<1>3. PartOk(part)
  <2>1. PICK no : no = NoPartition
    OBVIOUS
  <2>2. /\ no = [size |-> no.size, files |-> no.files, buffer |-> no.buffer, last |-> no.last, dirty |-> no.dirty]
        /\ no.size = 0 /\ no.files = <<>> /\ no.buffer = <<>> /\ ~no.dirty /\ no.dirty \in BOOLEAN
    BY <2>1 DEF NoPartition
  <2>3. FilesOk(no.files)
    BY <1>2, <2>2 DEF FilesOk
  <2>4. PartOk(no)
    BY <2>2, <2>3 DEF PartOk, Exists
  <2> QED BY <1>1, <2>1, <2>4
<1>4. NetOk
  BY <1>1, NothingUnderWay DEF NetOk
<1>5. \A s : Covered(0, part, s)
  BY <1>3, NothingCovered
<1>6. ConsumerOk
  BY <1>1, <1>2, <1>5 DEF ConsumerOk, ReceivedOk
<1>7. BrokerOk
  BY <1>1, <1>5 DEF BrokerOk
<1>8. ProducerOk
  BY <1>1, <1>2, FS_EmptySet DEF ProducerOk, NothingForgotten
<1> QED BY <1>3, <1>4, <1>6, <1>7, <1>8 DEF MqInv

LEMMA KeepsPart ==
  ASSUME MqInv, UNCHANGED part
  PROVE  Grows(part, part')
  BY SameGrows DEF MqInv

\* A process that dies loses what is on its way to it.
LEMMA DiesKeeps ==
  ASSUME MqInv, Dies, UNCHANGED <<producerVars, consumerVars>>
  PROVE  MqInv'
<1>1. UNCHANGED <<part, group, replicate, commitFile, toClient>> /\ toBroker' = Everyone(<<>>)
  BY DEF Dies, EndsAs
<1>2. ToBrokerOk(toBroker', part', seen)
  BY <1>1, NothingUnderWay
<1> QED BY <1>1, <1>2, KeepsPart, BrokerStep DEF MqInv, NetOk, BrokerOk

\* What mmapNewLog has done when the process dies in it leaves the packets as
\* they are.
LEMMA DiesInFilesKeeps ==
  ASSUME MqInv, DiesInFiles, UNCHANGED <<producerVars, consumerVars>>
  PROVE  MqInv'
<1>1. /\ UNCHANGED <<group, replicate, commitFile, toClient>> /\ toBroker' = Everyone(<<>>)
      /\ part' = SyncToDisk(part) \/ part' = MmapNewLog(part)
  BY DEF DiesInFiles, EndsAs
<1>2. Grows(part, part')
  <2>1. CASE part' = SyncToDisk(part)
    BY <2>1, SyncIs, SameGrows DEF MqInv
  <2>2. CASE part' = MmapNewLog(part)
    BY <2>2, MmapIs, SameGrows DEF MqInv
  <2> QED BY <1>1, <2>1, <2>2
<1>3. ToBrokerOk(toBroker', part', seen)
  BY <1>1, NothingUnderWay
<1>4. ToClientOk(toClient, part', seen)
  BY <1>2, NetGrows DEF MqInv, NetOk
<1>5. Covered(group, part', seen) /\ Covered(replicate, part', seen) /\ Covered(commitFile, part', seen)
  BY <1>2, CoveredGrows DEF MqInv, BrokerOk
<1> QED BY <1>1, <1>2, <1>3, <1>4, <1>5, BrokerStep

LEMMA StartAstrayKeeps ==
  ASSUME MqInv, StartAstray, UNCHANGED <<producerVars, consumerVars>>
  PROVE  MqInv'
<1>1. UNCHANGED <<part, group, replicate, commitFile, toBroker, toClient>>
  BY DEF StartAstray, netVars, threadVars
<1> QED BY <1>1, KeepsPart, BrokerStep DEF MqInv, NetOk, BrokerOk

LEMMA StartKeeps ==
  ASSUME MqInv, Start, UNCHANGED <<producerVars, consumerVars>>
  PROVE  MqInv'
<1>1. UNCHANGED <<replicate, commitFile, toBroker, toClient>> /\ group' = 0
      /\ part' = IF Exists(part) THEN Recovered(part) ELSE part
  BY DEF Start, netVars
<1>2. Grows(part, part')
  <2>1. CASE Exists(part)
    BY <1>1, <2>1, RecoveredIs, SameGrows DEF MqInv
  <2>2. CASE ~Exists(part)
    BY <1>1, <2>2, KeepsPart
  <2> QED BY <2>1, <2>2
<1>3. ToBrokerOk(toBroker, part', seen) /\ ToClientOk(toClient, part', seen)
  BY <1>2, NetGrows DEF MqInv, NetOk
<1>4. Covered(replicate, part', seen) /\ Covered(commitFile, part', seen)
  BY <1>2, CoveredGrows DEF MqInv, BrokerOk
<1>5. Covered(0, part', seen)
  BY <1>2, NothingCovered DEF Grows
<1> QED BY <1>1, <1>2, <1>3, <1>4, <1>5, BrokerStep

LEMMA PersistentPartitionKeeps ==
  ASSUME MqInv, PersistentPartition, UNCHANGED <<producerVars, consumerVars>>
  PROVE  MqInv'
<1>1. UNCHANGED <<group, replicate, commitFile, toBroker, toClient>> /\ part' = SyncToDisk(part)
  BY DEF PersistentPartition, netVars, threadVars
<1>2. Grows(part, part')
  BY <1>1, SyncIs, SameGrows DEF MqInv
<1>3. ToBrokerOk(toBroker, part', seen) /\ ToClientOk(toClient, part', seen)
  BY <1>2, NetGrows DEF MqInv, NetOk
<1>4. Covered(group, part', seen) /\ Covered(replicate, part', seen) /\ Covered(commitFile, part', seen)
  BY <1>2, CoveredGrows DEF MqInv, BrokerOk
<1> QED BY <1>1, <1>2, <1>3, <1>4, BrokerStep

\* The timers of the commits, the thread that writes them, and init.
LEMMA CommitsKeep ==
  ASSUME MqInv, LoadCommits \/ PersistentCommit \/ CopyInfos \/ RenameFile, UNCHANGED <<producerVars, consumerVars>>
  PROVE  MqInv'
<1>1. UNCHANGED <<part, toBroker, toClient>>
  BY DEF LoadCommits, PersistentCommit, CopyInfos, RenameFile, netVars
<1>2. group' \in {group, commitFile} /\ replicate' \in {group, replicate} /\ commitFile' \in {commitFile, replicate}
  BY DEF LoadCommits, PersistentCommit, CopyInfos, RenameFile, threadVars
<1>3. Covered(group', part', seen) /\ Covered(replicate', part', seen) /\ Covered(commitFile', part', seen)
  BY <1>1, <1>2 DEF MqInv, BrokerOk
<1> QED BY <1>1, <1>3, KeepsPart, BrokerStep DEF MqInv, NetOk

LEMMA HandleDeliverKeeps ==
  ASSUME MqInv, HandleDeliver, UNCHANGED <<producerVars, consumerVars>>
  PROVE  MqInv'
<1>1. PICK id : id = Packet("producer").id
  OBVIOUS
<1>2. /\ Taken("producer", "delivery") /\ ToClient("producer", <<id>>)
      /\ part' = Stored(part, Message(id))
      /\ UNCHANGED <<group, replicate, commitFile>>
  BY <1>1 DEF HandleDeliver, threadVars
<1>3. PICK m : m = Message(id)
  OBVIOUS
<1>4. m.len \in Nat \ {0} /\ m.id = id
  BY <1>3 DEF Message
<1>5. Grows(part, part') /\ id \in Ids(part')
  BY <1>2, <1>3, <1>4, StoredGrows DEF MqInv
<1>6. ToBrokerOk(toBroker', part, seen)
  BY <1>2, TakenIs DEF MqInv, Client
<1>7. ToBrokerOk(toBroker', part', seen) /\ ToClientOk(toClient, part', seen)
  BY <1>5, <1>6, NetGrows DEF MqInv, NetOk
<1>8. ToClientOk(toClient', part', seen)
  <2>1. PICK one : one = <<id>>
    OBVIOUS
  <2>2. IsSeq(one) /\ InRange(one) \subseteq Ids(part')
    BY <1>5, <2>1, SeqOne DEF InRange
  <2>3. PICK r : r = part'
    OBVIOUS
  <2> QED BY <1>2, <1>7, <2>1, <2>2, <2>3, AnswerIs DEF Client
<1>9. Covered(group, part', seen) /\ Covered(replicate, part', seen) /\ Covered(commitFile, part', seen)
  BY <1>5, CoveredGrows DEF MqInv, BrokerOk
<1> QED BY <1>2, <1>5, <1>7, <1>8, <1>9, BrokerStep

LEMMA HandleSubscribeKeeps ==
  ASSUME MqInv, HandleSubscribe, UNCHANGED <<producerVars, consumerVars>>
  PROVE  MqInv'
<1>1. PICK e : e = [command |-> IF Exists(part) THEN "subscribe" ELSE "unknown topic"]
  OBVIOUS
<1>2. /\ Taken("consumer", "subscribe") /\ ToClient("consumer", <<e>>)
      /\ UNCHANGED <<part, group, replicate, commitFile>>
  BY <1>1 DEF HandleSubscribe, threadVars
<1>3. e.command # "message" /\ e.command # "too large"
  BY <1>1
<1>4. RepliesOk(<<e>>, part, seen)
  BY <1>3, RepliesOne
<1>5. ToBrokerOk(toBroker', part, seen)
  BY <1>2, TakenIs DEF MqInv, Client
<1>6. ToClientOk(toClient', part, seen)
  BY <1>2, <1>4, AnswerIs DEF MqInv, NetOk, Client
<1> QED BY <1>2, <1>5, <1>6, KeepsPart, BrokerStep DEF MqInv, BrokerOk

LEMMA HandlePullKeeps ==
  ASSUME MqInv, HandlePull, UNCHANGED <<producerVars, consumerVars>>
  PROVE  MqInv'
<1>1. PICK offset : offset = IF Packet("consumer").offset = 0 THEN group ELSE Packet("consumer").offset
  OBVIOUS
<1>2. PICK limit, packets :
        /\ packets = SendToConsumer(part, offset, limit)
        /\ Taken("consumer", "pull")
        /\ ToClient("consumer", IF ~subscribed THEN <<[command |-> "unknown consumer"]>>
                                ELSE IF part.size <= offset THEN <<[command |-> "too large", offset |-> offset]>>
                                ELSE [i \in DOMAIN packets |->
                                        [command |-> "message", id |-> packets[i].id, offset |-> packets[i].offset]])
        /\ UNCHANGED <<part, group, replicate, commitFile>>
  BY <1>1 DEF HandlePull, threadVars
<1>3. PICK sent : sent = [i \in DOMAIN packets |->
                            [command |-> "message", id |-> packets[i].id, offset |-> packets[i].offset]]
  OBVIOUS
<1>4. PICK reply : reply = IF ~subscribed THEN <<[command |-> "unknown consumer"]>>
                           ELSE IF part.size <= offset THEN <<[command |-> "too large", offset |-> offset]>>
                           ELSE sent
  OBVIOUS
<1>5. /\ Taken("consumer", "pull") /\ ToClient("consumer", reply)
      /\ UNCHANGED <<part, group, replicate, commitFile>>
  BY <1>2, <1>3, <1>4
<1>6. ToBrokerOk(toBroker', part, seen) /\ Covered(Packet("consumer").offset, part, seen)
  BY <1>5, TakenIs DEF MqInv, Client
<1>7. Covered(offset, part, seen)
  BY <1>1, <1>6 DEF MqInv, BrokerOk
<1>8. RepliesOk(reply, part, seen)
  <2>1. CASE ~subscribed
    <3>1. PICK e : e = [command |-> "unknown consumer"]
      OBVIOUS
    <3>2. e.command # "message" /\ e.command # "too large"
      BY <3>1
    <3>3. RepliesOk(<<e>>, part, seen)
      BY <3>2, RepliesOne
    <3> QED BY <1>4, <2>1, <3>1, <3>3
  <2>2. CASE subscribed /\ part.size <= offset
    <3>1. PICK e : e = [command |-> "too large", offset |-> offset]
      OBVIOUS
    <3>2. e.command # "message" /\ e.offset = offset
      BY <3>1
    <3>3. RepliesOk(<<e>>, part, seen)
      BY <1>7, <3>2, RepliesOne
    <3> QED BY <1>4, <2>2, <3>1, <3>3
  <2>3. CASE subscribed /\ ~ part.size <= offset
    <3>1. offset < part.size
      BY <1>7, <2>3 DEF Covered, MqInv, PartOk
    <3>2. RepliesOk(sent, part, seen)
      BY <1>2, <1>3, <1>7, <3>1, RepliesSent DEF MqInv
    <3> QED BY <1>4, <2>3, <3>2
  <2> QED BY <2>1, <2>2, <2>3
<1>9. ToClientOk(toClient', part, seen)
  BY <1>5, <1>8, AnswerIs DEF MqInv, NetOk, Client
<1> QED BY <1>5, <1>6, <1>9, KeepsPart, BrokerStep DEF MqInv, BrokerOk

LEMMA HandleCommitKeeps ==
  ASSUME MqInv, HandleCommit, UNCHANGED <<producerVars, consumerVars>>
  PROVE  MqInv'
<1>1. PICK e : e = [command |-> "commit"]
  OBVIOUS
<1>2. /\ Taken("consumer", "commit") /\ ToClient("consumer", <<e>>)
      /\ UNCHANGED <<part, replicate, commitFile>> /\ group' \in {group, Packet("consumer").offset}
  BY <1>1 DEF HandleCommit, Committed, threadVars
<1>3. e.command # "message" /\ e.command # "too large"
  BY <1>1
<1>4. RepliesOk(<<e>>, part, seen)
  BY <1>3, RepliesOne
<1>5. ToBrokerOk(toBroker', part, seen) /\ Covered(Packet("consumer").offset, part, seen)
  BY <1>2, TakenIs DEF MqInv, Client
<1>6. ToClientOk(toClient', part, seen)
  BY <1>2, <1>4, AnswerIs DEF MqInv, NetOk, Client
<1>7. Covered(group', part, seen)
  BY <1>2, <1>5 DEF MqInv, BrokerOk
<1> QED BY <1>2, <1>5, <1>6, <1>7, KeepsPart, BrokerStep DEF MqInv, BrokerOk

LEMMA CloseAtBrokerKeeps ==
  ASSUME MqInv, NEW c \in Client, CloseAtBroker(c), UNCHANGED <<producerVars, consumerVars>>
  PROVE  MqInv'
<1>1. /\ toBroker' = [toBroker EXCEPT ![c] = <<>>]
      /\ UNCHANGED <<part, group, replicate, commitFile, toClient>>
  BY DEF CloseAtBroker, threadVars
<1>2. ToBrokerOk(toBroker', part, seen)
  BY <1>1, ToBrokerChange, NothingUnderWay, SeqEmpty DEF MqInv, NetOk
<1> QED BY <1>1, <1>2, KeepsPart, BrokerStep DEF MqInv, NetOk, BrokerOk

(***************************************************************************)
(* The steps of the producer.                                              *)
(***************************************************************************)
LEMMA SeqFinite ==
  ASSUME NEW s, IsSeq(s)
  PROVE  IsFiniteSet(InRange(s))
<1>1. PICK n : n = Len(s)
  OBVIOUS
<1>2. n \in Nat /\ DOMAIN s = 1..n /\ s = [i \in 1..n |-> s[i]]
  BY <1>1, SeqFacts
<1>3. s \in Surjection(1..n, InRange(s))
  BY <1>2 DEF Surjection, InRange
<1>4. IsFiniteSet(1..n)
  BY <1>2, FS_Interval
<1> QED BY <1>3, <1>4, FS_Surjection

LEMMA SortedIs ==
  ASSUME NEW S, IsFiniteSet(S)
  PROVE  IsSeq(Sorted(S))
<1> DEFINE F(i) == CHOOSE x \in S : Cardinality({y \in S : y < x}) = i - 1
<1>1. PICK n, s : n = Cardinality(S) /\ s = [i \in 1..n |-> F(i)]
  OBVIOUS
<1>2. s = Sorted(S)
  BY <1>1 DEF Sorted
<1>3. n \in Nat
  BY <1>1, FS_CardinalityType
<1> HIDE DEF F
<1>4. DOMAIN s = 1..n /\ s = [i \in 1..n |-> s[i]]
  BY <1>1
<1> QED BY <1>2, <1>3, <1>4, SeqFun

LEMMA CloseAtClientKeeps ==
  ASSUME MqInv, NEW c \in Client, CloseAtClient(c)
  PROVE  MqInv'
<1>1. /\ toClient' = [toClient EXCEPT ![c] = <<>>]
      /\ UNCHANGED <<part, group, replicate, commitFile, toBroker, producerVars, local, seen, recv>>
  BY DEF CloseAtClient, BrokerKeeps, threadVars
<1>2. ToClientOk(toClient', part, seen)
  BY <1>1, ToClientChange, NothingUnderWay, SeqEmpty DEF MqInv, NetOk
<1>3. ConsumerOk'
  BY <1>1 DEF MqInv, ConsumerOk
<1> QED BY <1>1, <1>2, <1>3, ConsumerStep DEF MqInv, NetOk

LEMMA OnConnectionPKeeps ==
  ASSUME MqInv, OnConnectionP
  PROVE  MqInv'
<1>1. UNCHANGED <<part, group, replicate, commitFile, consumerVars, toBroker, toClient>>
      /\ UNCHANGED <<puts, sendQueue, resend, okd, failed>>
  BY DEF OnConnectionP, Opened, BrokerKeeps, threadVars
<1>2. ProducerOk'
  <2>1. StoredIds' = StoredIds
    BY <1>1 DEF StoredIds
  <2> QED BY <1>1, <2>1 DEF MqInv, ProducerOk, NothingForgotten
<1> QED BY <1>1, <1>2, ProducerStep DEF MqInv, NetOk

LEMMA PutKeeps ==
  ASSUME MqInv, Put
  PROVE  MqInv'
<1>1. /\ UNCHANGED <<part, group, replicate, commitFile, consumerVars, toBroker, toClient>>
      /\ UNCHANGED <<resend, okd, failed>> /\ puts' = puts + 1 /\ sendQueue' = Append(sendQueue, puts + 1)
  BY DEF Put, brokerVars, netVars, threadVars
<1>2. ProducerOk'
  <2>1. StoredIds' = StoredIds
    BY <1>1 DEF StoredIds
  <2>2. puts \in Nat /\ IsSeq(sendQueue) /\ IsFiniteSet(resend) /\ NothingForgotten
    BY DEF MqInv, ProducerOk
  <2>3. IsSeq(sendQueue') /\ InRange(sendQueue') = InRange(sendQueue) \cup {puts + 1}
    BY <1>1, <2>2, SeqAppend
  <2>4. \A id \in 1..puts' : id \in 1..puts \/ id = puts + 1
    BY <1>1, <2>2
  <2>5. puts' \in Nat
    BY <1>1, <2>2
  <2> QED BY <1>1, <2>1, <2>2, <2>3, <2>4, <2>5 DEF ProducerOk, NothingForgotten
<1> QED BY <1>1, <1>2, ProducerStep DEF MqInv, NetOk

\* A message of the queue goes out, or to those sent again, or is reported.
LEMMA SendInLoopKeeps ==
  ASSUME MqInv, NEW queue, IsSeq(queue), InRange(sendQueue) \subseteq InRange(queue), NEW isRetry \in BOOLEAN,
         SendInLoop(queue, isRetry)
  PROVE  MqInv'
<1>1. /\ UNCHANGED <<part, group, replicate, commitFile, consumerVars, toClient>>
      /\ UNCHANGED <<puts, okd>> /\ sendQueue' = <<>>
  BY DEF SendInLoop, BrokerKeeps, threadVars
<1>2. ToBrokerOk(toBroker', part, seen)
  <2>1. PICK packets : packets = [i \in DOMAIN queue |-> Delivery(queue[i])]
    OBVIOUS
  <2>2. IsSeq(packets)
    <3>1. PICK n : n = Len(queue)
      OBVIOUS
    <3>2. n \in Nat /\ DOMAIN queue = 1..n
      BY <3>1, SeqFacts
    <3>3. DOMAIN packets = 1..n /\ packets = [i \in 1..n |-> packets[i]]
      BY <2>1, <3>2
    <3> QED BY <3>2, <3>3, SeqFun
  <2>3. ToBroker("producer", packets) \/ toBroker' = toBroker
    BY <2>1 DEF SendInLoop
  <2> QED BY <2>2, <2>3, ProducerSends DEF MqInv, NetOk
<1>3. /\ resend \subseteq resend' /\ failed \subseteq failed'
      /\ resend' \in {resend, resend \cup InRange(queue)}
      /\ InRange(queue) \subseteq resend' \cup failed'
  BY DEF SendInLoop
<1>4. ProducerOk'
  <2>1. StoredIds' = StoredIds
    BY <1>1 DEF StoredIds
  <2>2. puts \in Nat /\ IsFiniteSet(resend) /\ NothingForgotten
    BY DEF MqInv, ProducerOk
  <2>3. IsFiniteSet(resend')
    <3>1. IsFiniteSet(InRange(queue))
      BY SeqFinite
    <3>2. IsFiniteSet(resend \cup InRange(queue))
      BY <2>2, <3>1, FS_Union
    <3> QED BY <1>3, <2>2, <3>2
  <2>4. \A id \in 1..puts : id \in StoredIds \cup resend' \cup failed'
    BY <1>3, <2>2 DEF NothingForgotten
  <2> QED BY <1>1, <2>1, <2>2, <2>3, <2>4, SeqEmpty DEF ProducerOk, NothingForgotten
<1> QED BY <1>1, <1>2, <1>4, ProducerStep DEF MqInv, NetOk

LEMMA SendKeeps ==
  ASSUME MqInv, NEW isRetry \in BOOLEAN, Send(isRetry)
  PROVE  MqInv'
  BY SendInLoopKeeps DEF Send, MqInv, ProducerOk

LEMMA CheckReSendSetTimerKeeps ==
  ASSUME MqInv, CheckReSendSetTimer
  PROVE  MqInv'
<1>1. PICK queue : queue = sendQueue \o Sorted(resend)
  OBVIOUS
<1>2. IsSeq(sendQueue) /\ IsSeq(Sorted(resend))
  BY SortedIs DEF MqInv, ProducerOk
<1>3. IsSeq(queue) /\ InRange(sendQueue) \subseteq InRange(queue)
  BY <1>1, <1>2, SeqConcat
<1>4. SendInLoop(queue, TRUE)
  BY <1>1 DEF CheckReSendSetTimer
<1> QED BY <1>3, <1>4, SendInLoopKeeps

\* What is acknowledged is in the log.
LEMMA HandleDeliveryKeeps ==
  ASSUME MqInv, HandleDelivery
  PROVE  MqInv'
<1>1. PICK id : id = Head(toClient["producer"])
  OBVIOUS
<1>2. /\ UNCHANGED <<part, group, replicate, commitFile, consumerVars, toBroker>>
      /\ UNCHANGED <<puts, sendQueue, failed>> /\ Received("producer")
      /\ resend' = resend \ {id} /\ okd' \in {okd, okd \cup {id}}
  BY <1>1 DEF HandleDelivery, BrokerKeeps, threadVars, Done
<1>3. id \in Ids(part) /\ ToClientOk(toClient', part, seen)
  BY <1>1, <1>2, ReceivedIs DEF MqInv, NetOk, Client
<1>4. ProducerOk'
  <2>1. StoredIds' = StoredIds /\ id \in StoredIds
    BY <1>2, <1>3 DEF StoredIds, Ids
  <2>2. puts \in Nat /\ IsFiniteSet(resend) /\ NothingForgotten /\ IsSeq(sendQueue)
    BY DEF MqInv, ProducerOk
  <2>3. IsFiniteSet(resend')
    BY <1>2, <2>2, FS_RemoveElement
  <2>4. \A n \in 1..puts : n \in StoredIds \cup InRange(sendQueue) \cup resend' \cup failed
    BY <1>2, <2>1, <2>2 DEF NothingForgotten
  <2>5. okd' \subseteq StoredIds
    BY <1>2, <2>1, <2>2 DEF NothingForgotten
  <2> QED BY <1>2, <2>1, <2>2, <2>3, <2>4, <2>5 DEF ProducerOk, NothingForgotten
<1> QED BY <1>2, <1>3, <1>4, ProducerStep DEF MqInv, NetOk

(***************************************************************************)
(* The steps of the consumer.                                              *)
(***************************************************************************)
LEMMA OnConnectionCKeeps ==
  ASSUME MqInv, OnConnectionC
  PROVE  MqInv'
<1>1. PICK e : e = [command |-> "subscribe"]
  OBVIOUS
<1>2. /\ UNCHANGED <<part, group, replicate, commitFile, producerVars, toClient, seen, recv>>
      /\ toBroker' = [toBroker EXCEPT !["consumer"] = <<e>>] /\ local' = 0
  BY <1>1 DEF OnConnectionC, Opened, BrokerKeeps, threadVars
<1>3. RequestsOk(<<e>>, part, seen)
  BY <1>1, NothingUnderWay, RequestsMore
<1>4. ToBrokerOk(toBroker', part, seen)
  BY <1>2, <1>3, ToBrokerChange DEF MqInv, NetOk, Client
<1>5. Covered(0, part, seen)
  BY NothingCovered DEF MqInv
<1>6. ConsumerOk'
  BY <1>2, <1>5 DEF MqInv, ConsumerOk
<1> QED BY <1>2, <1>4, <1>6, ConsumerStep DEF MqInv, NetOk

LEMMA PullInLoopKeeps ==
  ASSUME MqInv, PullInLoop
  PROVE  MqInv'
<1>1. PICK e : e = [command |-> "pull", offset |-> local]
  OBVIOUS
<1>2. /\ UNCHANGED <<part, group, replicate, commitFile, producerVars, toClient, local, seen, recv>> /\ Asks(e)
  BY <1>1 DEF PullInLoop, BrokerKeeps, threadVars, consumerVars
<1>3. Covered(e.offset, part, seen)
  BY <1>1 DEF MqInv, ConsumerOk
<1>4. ToBrokerOk(toBroker', part, seen)
  BY <1>2, <1>3, ConsumerAsks DEF MqInv, NetOk
<1>5. ConsumerOk'
  BY <1>2 DEF MqInv, ConsumerOk
<1> QED BY <1>2, <1>4, <1>5, ConsumerStep DEF MqInv, NetOk

LEMMA OtherRepliesKeep ==
  ASSUME MqInv, HandleSubscribeReply \/ HandleCommitReply
  PROVE  MqInv'
<1>1. /\ UNCHANGED <<part, group, replicate, commitFile, producerVars, toBroker, local, seen, recv>>
      /\ Received("consumer") /\ Head(toClient["consumer"]).command # "message"
  BY DEF HandleSubscribeReply, HandleCommitReply, BrokerKeeps, threadVars, consumerVars
<1>2. ToClientOk(toClient', part, seen)
  BY <1>1, ReceivedIs DEF MqInv, NetOk, Client
<1>3. ConsumerOk'
  BY <1>1 DEF MqInv, ConsumerOk
<1> QED BY <1>1, <1>2, <1>3, ConsumerStep DEF MqInv, NetOk

\* A callback that commits, or does not.
LEMMA CommitsIs ==
  ASSUME NEW messages, NEW offset, NEW s, ReceivedOk(messages, part, s), Covered(offset, part, s),
         ToBrokerOk(toBroker, part, s), Commits(messages, offset)
  PROVE  ToBrokerOk(toBroker', part, s) /\ Covered(local', part, s) /\ ReceivedOk(recv', part, s)
<1>1. CASE UNCHANGED toBroker /\ recv' = messages /\ local' = offset
  BY <1>1
<1>2. CASE /\ messages # <<>>
           /\ Asks([command |-> "commit", offset |-> Last(messages) + 1])
           /\ local' = Last(messages) + 1
           /\ recv' = <<>>
  <2>1. PICK next : next = Last(messages) + 1
    OBVIOUS
  <2>2. Covered(next, part, s)
    <3>1. IsSeq(messages)
      BY DEF ReceivedOk
    <3>2. Len(messages) \in DOMAIN messages
      BY <1>2, <3>1, SeqFacts
    <3> QED BY <2>1, <3>2 DEF ReceivedOk, Last
  <2>3. PICK e : e = [command |-> "commit", offset |-> next]
    OBVIOUS
  <2>4. ToBrokerOk(toBroker', part, s)
    BY <1>2, <2>1, <2>2, <2>3, ConsumerAsks
  <2>5. DOMAIN <<>> = {}
    OBVIOUS
  <2>6. ReceivedOk(<<>>, part, s)
    BY <2>5, SeqEmpty DEF ReceivedOk
  <2> QED BY <1>2, <2>1, <2>2, <2>4, <2>6
<1> QED BY <1>1, <1>2 DEF Commits

LEMMA HandleTooLargeKeeps ==
  ASSUME MqInv, HandleTooLarge
  PROVE  MqInv'
<1>1. PICK offset : offset = Head(toClient["consumer"]).offset
  OBVIOUS
<1>2. /\ UNCHANGED <<part, group, replicate, commitFile, producerVars, seen>>
      /\ Received("consumer") /\ Head(toClient["consumer"]).command = "too large"
      /\ Commits(recv, offset)
  BY <1>1 DEF HandleTooLarge, BrokerKeeps, threadVars
<1>3. ToClientOk(toClient', part, seen) /\ Covered(offset, part, seen)
  BY <1>1, <1>2, ReceivedIs DEF MqInv, NetOk, Client, RepliesOk
<1>4. ToBrokerOk(toBroker', part, seen) /\ Covered(local', part, seen) /\ ReceivedOk(recv', part, seen)
  BY <1>2, <1>3, CommitsIs DEF MqInv, NetOk, ConsumerOk
<1>5. ConsumerOk'
  BY <1>2, <1>4 DEF MqInv, ConsumerOk
<1> QED BY <1>2, <1>3, <1>4, <1>5, ConsumerStep

\* The message at the head of those under way: what lies before it was received.
LEMMA FirstMessage ==
  ASSUME MqInv, Received("consumer"), Head(toClient["consumer"]).command = "message",
         NEW m, m = Head(toClient["consumer"])
  PROVE  /\ Covered(m.offset, part, seen) /\ m.offset \in Nat
         /\ \E x \in Packets(part) : x.offset = m.offset /\ x.id = m.id
         /\ \A t : InRange(seen) \subseteq InRange(t) /\ m.id \in InRange(t) => Covered(m.offset + 1, part, t)
<1>1. PICK queue : queue = toClient["consumer"]
  OBVIOUS
<1>2. m = queue[1] /\ 1 \in DOMAIN queue /\ RepliesOk(queue, part, seen)
  BY <1>1, ReceivedIs DEF MqInv, Client
<1>3. MessageOk(queue, 1, part, seen)
  BY <1>2 DEF RepliesOk
<1>4. PICK x \in Packets(part) : x.offset = m.offset /\ x.id = m.id
  BY <1>2, <1>3 DEF MessageOk
<1>5. PartOk(part) /\ part.size \in Nat
  BY DEF MqInv, PartOk
<1>6. m.offset \in Nat /\ m.offset < part.size
  BY <1>4, <1>5, PacketsBelow
<1>7. \A y \in Packets(part) : y.offset < m.offset => y.id \in InRange(seen)
  BY <1>2, <1>3 DEF MessageOk
<1>8. ASSUME NEW t, InRange(seen) \subseteq InRange(t), m.id \in InRange(t)
      PROVE  Covered(m.offset + 1, part, t)
  <2>1. ASSUME NEW y \in Packets(part), y.offset < m.offset + 1 PROVE y.id \in InRange(t)
    <3>1. y.offset \in Nat
      BY <1>5, PacketsBelow
    <3>2. y.offset < m.offset \/ y.offset = m.offset
      BY <1>6, <2>1, <3>1
    <3>3. CASE y.offset < m.offset
      BY <1>7, <1>8, <3>3
    <3>4. CASE y.offset = m.offset
      <4>1. y = x
        BY <1>4, <1>5, <3>4, OffsetsDiffer
      <4> QED BY <1>4, <1>8, <4>1
    <3> QED BY <3>2, <3>3, <3>4
  <2>2. m.offset + 1 \in 0..part.size
    BY <1>5, <1>6
  <2> QED BY <2>1, <2>2 DEF Covered
<1>9. Covered(m.offset, part, seen)
  BY <1>5, <1>6, <1>7 DEF Covered
<1> QED BY <1>4, <1>6, <1>8, <1>9

LEMMA HandleMessageKeeps ==
  ASSUME MqInv, HandleMessage
  PROVE  MqInv'
<1>1. PICK m : m = Head(toClient["consumer"])
  OBVIOUS
<1>2. /\ UNCHANGED <<part, group, replicate, commitFile, producerVars>>
      /\ Received("consumer") /\ Head(toClient["consumer"]).command = "message"
      /\ IF IsNew(m) THEN Commits(Append(recv, m.offset), local) /\ seen' = Append(seen, m.id)
                     ELSE Commits(recv, NextLocal(m.offset)) /\ UNCHANGED seen
  BY <1>1 DEF HandleMessage, BrokerKeeps, threadVars
<1>3. PICK x \in Packets(part) : x.offset = m.offset /\ x.id = m.id
  BY <1>1, <1>2, FirstMessage
<1>4. /\ Covered(m.offset, part, seen) /\ m.offset \in Nat
      /\ \A t : InRange(seen) \subseteq InRange(t) /\ m.id \in InRange(t) => Covered(m.offset + 1, part, t)
  BY <1>1, <1>2, FirstMessage
<1>5. /\ PartOk(part) /\ Grows(part, part) /\ ToBrokerOk(toBroker, part, seen) /\ ToClientOk(toClient, part, seen)
      /\ IsSeq(seen) /\ Covered(local, part, seen) /\ ReceivedOk(recv, part, seen)
      /\ \A n \in DOMAIN seen : SeesNth(n, part, seen)
  BY SameGrows DEF MqInv, NetOk, ConsumerOk
<1>6. CASE IsNew(m)
  <2>1. PICK s : s = Append(seen, m.id)
    OBVIOUS
  <2>2. PICK n : n = Len(seen)
    OBVIOUS
  <2>3. /\ IsSeq(s) /\ DOMAIN s = 1..n \cup {n + 1} /\ \A i \in 1..n : s[i] = seen[i] /\ i # n + 1
        /\ s[n + 1] = m.id /\ InRange(s) = InRange(seen) \cup {m.id} /\ n \in Nat /\ DOMAIN seen = 1..n
    BY <1>5, <2>1, <2>2, SeqAppend, SeqFacts
  <2>4. ToBrokerOk(toBroker, part, s) /\ ToClientOk(toClient, part, s)
    BY <1>5, <2>3, NetGrows
  <2>5. Covered(local, part, s) /\ ReceivedOk(recv, part, s)
    BY <1>5, <2>3, CoveredGrows, ReceivedGrow
  <2>6. ReceivedOk(Append(recv, m.offset), part, s)
    <3>1. PICK r, k : r = Append(recv, m.offset) /\ k = Len(recv)
      OBVIOUS
    <3>2. IsSeq(recv)
      BY <2>5 DEF ReceivedOk
    <3>3. /\ IsSeq(r) /\ DOMAIN r = DOMAIN recv \cup {k + 1} /\ r[k + 1] = m.offset
          /\ \A i \in DOMAIN recv : r[i] = recv[i]
      BY <3>1, <3>2, SeqAppend
    <3>4. Covered(m.offset + 1, part, s)
      BY <1>4, <2>3
    <3> QED BY <1>4, <2>5, <3>1, <3>3, <3>4 DEF ReceivedOk
  <2>7. ToBrokerOk(toBroker', part, s) /\ Covered(local', part, s) /\ ReceivedOk(recv', part, s)
    BY <1>2, <1>6, <2>4, <2>5, <2>6, CommitsIs
  <2>8. ToClientOk(toClient', part, s)
    BY <1>1, <1>2, <2>3, <2>4, ReceivedIs DEF MqInv, Client
  <2>9. seen' = s
    BY <1>2, <1>6, <2>1
  <2>10. ASSUME NEW i \in DOMAIN s PROVE SeesNth(i, part, s)
    <3>1. CASE i \in 1..n
      <4>1. s[i] = seen[i] /\ \A k \in 1..i - 1 : s[k] = seen[k]
        BY <2>3, <3>1
      <4>2. SeesNth(i, part, seen)
        BY <1>5, <2>3, <3>1
      <4> QED BY <4>1, <4>2 DEF SeesNth
    <3>2. CASE i = n + 1
      <4>1. s[i] = m.id /\ i - 1 = n /\ 1..i - 1 = 1..n
        BY <2>3, <3>2
      <4>2. \A k \in 1..i - 1 : s[k] = seen[k] /\ s[k] # s[i]
        BY <1>6, <2>3, <4>1 DEF IsNew, InRange
      <4>3. ASSUME NEW before \in Packets(part), before.offset < x.offset
            PROVE  \E k \in 1..i - 1 : s[k] = before.id
        <5>1. before.id \in InRange(seen)
          BY <1>3, <1>4, <4>3 DEF Covered
        <5>2. PICK k \in 1..n : seen[k] = before.id
          BY <2>3, <5>1 DEF InRange
        <5> QED BY <4>1, <4>2, <5>2
      <4> QED BY <1>3, <4>1, <4>2, <4>3 DEF SeesNth
    <3> QED BY <2>3, <3>1, <3>2
  <2>11. ConsumerOk'
    BY <1>2, <2>3, <2>7, <2>9, <2>10 DEF ConsumerOk
  <2> QED BY <1>2, <2>3, <2>7, <2>8, <2>9, <2>11, ConsumerStep
<1>7. CASE ~IsNew(m)
  <2>1. m.id \in InRange(seen) /\ seen' = seen
    BY <1>2, <1>7 DEF IsNew
  <2>2. Covered(m.offset + 1, part, seen)
    BY <1>4, <2>1
  <2>3. Covered(NextLocal(m.offset), part, seen)
    <3>1. CASE m.offset = local
      BY <2>2, <3>1 DEF NextLocal
    <3>2. CASE m.offset # local
      BY <1>5, <3>2 DEF NextLocal
    <3> QED BY <3>1, <3>2
  <2>4. ToBrokerOk(toBroker', part, seen) /\ Covered(local', part, seen) /\ ReceivedOk(recv', part, seen)
    BY <1>2, <1>5, <1>7, <2>3, CommitsIs
  <2>5. ToClientOk(toClient', part, seen)
    BY <1>1, <1>2, <1>5, <2>1, ReceivedIs DEF MqInv, Client
  <2>6. ConsumerOk'
    BY <1>2, <1>5, <2>1, <2>4 DEF ConsumerOk
  <2> QED BY <1>2, <2>1, <2>4, <2>5, <2>6, ConsumerStep
<1> QED BY <1>6, <1>7

(***************************************************************************)
(* The theorems.                                                           *)
(***************************************************************************)
LEMMA MqStep ==
  ASSUME MqInv, [NextMq]_mqVars
  PROVE  MqInv'
<1>1. CASE BrokerNext /\ UNCHANGED <<producerVars, consumerVars>>
  <2>1. CASE Crash \/ PullAsserts
    BY <1>1, <2>1, DiesKeeps DEF Crash, PullAsserts
  <2>2. CASE Start \/ StartAstray \/ DiesInFiles
    BY <1>1, <2>2, StartKeeps, StartAstrayKeeps, DiesInFilesKeeps
  <2>3. CASE LoadCommits \/ PersistentCommit \/ CopyInfos \/ RenameFile
    BY <1>1, <2>3, CommitsKeep
  <2>4. CASE PersistentPartition
    BY <1>1, <2>4, PersistentPartitionKeeps
  <2>5. CASE HandleDeliver
    BY <1>1, <2>5, HandleDeliverKeeps
  <2>6. CASE HandleSubscribe
    BY <1>1, <2>6, HandleSubscribeKeeps
  <2>7. CASE HandlePull
    BY <1>1, <2>7, HandlePullKeeps
  <2>8. CASE HandleCommit
    BY <1>1, <2>8, HandleCommitKeeps
  <2>9. CASE \E c \in Client : CloseAtBroker(c)
    BY <1>1, <2>9, CloseAtBrokerKeeps
  <2> QED BY <1>1, <2>1, <2>2, <2>3, <2>4, <2>5, <2>6, <2>7, <2>8, <2>9 DEF BrokerNext
<1>2. CASE ClientNext
  <2>1. CASE \E c \in Client : CloseAtClient(c)
    BY <2>1, CloseAtClientKeeps
  <2>2. CASE \E isRetry \in BOOLEAN : Send(isRetry)
    BY <2>2, SendKeeps
  <2>3. CASE OnConnectionP \/ Put \/ CheckReSendSetTimer \/ HandleDelivery
    BY <2>3, OnConnectionPKeeps, PutKeeps, CheckReSendSetTimerKeeps, HandleDeliveryKeeps
  <2>4. CASE OnConnectionC \/ PullInLoop
    BY <2>4, OnConnectionCKeeps, PullInLoopKeeps
  <2>5. CASE HandleSubscribeReply \/ HandleCommitReply
    BY <2>5, OtherRepliesKeep
  <2>6. CASE HandleMessage \/ HandleTooLarge
    BY <2>6, HandleMessageKeeps, HandleTooLargeKeeps
  <2> QED BY <1>2, <2>1, <2>2, <2>3, <2>4, <2>5, <2>6 DEF ClientNext
<1>3. CASE UNCHANGED mqVars
  <2>1. /\ UNCHANGED <<part, group, replicate, commitFile, toBroker, toClient>>
        /\ UNCHANGED <<producerVars, consumerVars>>
    BY <1>3 DEF mqVars, brokerVars, threadVars, netVars
  <2> QED BY <2>1, KeepsPart, BrokerStep DEF MqInv, NetOk, BrokerOk
<1> QED BY <1>1, <1>2, <1>3 DEF NextMq

LEMMA MqInvariant == SpecMq => []MqInv
  BY MqStarts, MqStep, PTL DEF SpecMq

\* A message that was put is in the log, or with the producer, or was reported
\* as failed; one reported as delivered is in the log (producer.cc:109-186).
THEOREM NothingIsForgotten == SpecMq => []NothingForgotten
<1>1. MqInv => NothingForgotten
  BY DEF MqInv, ProducerOk
<1> QED BY <1>1, MqInvariant, PTL

\* The consumer sees each message once and in the order of the log, whatever is
\* stored twice, pulled twice, lost or started again (consumer.cc:199).
THEOREM ConsumerSeesLog == SpecMq => []SeesLogInOrder
<1>1. MqInv => SeesLogInOrder
  BY DEF MqInv, ConsumerOk, SeesLogInOrder, SeesNth
<1> QED BY <1>1, MqInvariant, PTL

\* A commit covers only what the consumer has received, in memory and in the
\* file, also while the thread that writes it races its constructor
\* (commitpartition.cpp:71).
THEOREM CommitsAreCovered == SpecMq => []CommitIsCovered
<1>1. MqInv => CommitIsCovered
  BY DEF MqInv, BrokerOk, Covered, CommitIsCovered
<1> QED BY <1>1, MqInvariant, PTL

\* An entry of an index leads to its packet or the one before, in memory and
\* when it was read back with lines lost, for files and intervals of any size,
\* until a crash leaves an index file without its log (partition.cc:35, 82, 126).
THEOREM IndexLeads == SpecMq => []IndexLeadsToPacket
<1>1. ASSUME MqInv PROVE IndexLeadsToPacket
  <2>1. PICK p : p = part
    OBVIOUS
  <2>2. PartOk(p) /\ FilesOk(p.files)
    BY <1>1, <2>1 DEF MqInv, PartOk
  <2>3. \A i \in DOMAIN p.files : \A j \in DOMAIN p.files[i].log : p.files[i].log[j].offset = p.files[i].first + j - 1
    BY <2>2 DEF FilesOk, FileOk
  <2>4. \A i \in DOMAIN p.files : p.files[i].first = IF i = 1 THEN 0 ELSE p.files[i - 1].first + Len(p.files[i - 1].log)
    BY <2>2 DEF FilesOk, EndOf
  <2>5. \A i \in DOMAIN p.files : LeadsToPacket(p.files[i].log, p.files[i].index)
    BY <2>2 DEF FilesOk, FileOk
  <2> QED BY <2>1, <2>3, <2>4, <2>5 DEF IndexLeadsToPacket, IndexIsRight, OffsetsCount
<1> QED BY <1>1, MqInvariant, PTL
=============================================================================
