---------------------------- MODULE ExampleProofs ----------------------------
(***************************************************************************)
(* Proofs about the example servers: what a raft node answers its clients  *)
(* (RaftServer), and the append-only file of memcached until it is         *)
(* rewritten for the first time (Memcached).                               *)
(***************************************************************************)
EXTENDS RaftServer, Memcached, SequenceTheorems, TLAPS

(***************************************************************************)
(* The clients of a raft node.                                             *)
(***************************************************************************)
Request == [id : Nat, op : {"set", "get"}, mark : {"asked", "ok", "fail"}]
Reply == [all : Seq(Request), same : BOOLEAN]
FirstId(reply) == reply.all[1].id

UserTypes ==
    /\ leads \in BOOLEAN /\ term \in Nat /\ log \in Seq(Nat) /\ asked \in Nat
    /\ acked \in Nat /\ acked <= Len(log) /\ applied \in Nat /\ applied <= acked
    /\ input \in [User -> Seq(Request)] /\ replies \in [User -> Seq(Reply)]
    /\ waits \in [User -> [expect : Nat, term : Nat]]

\* A client that waits does so for the first request of its buffer, which is in
\* the log where it is expected, unless the node led again after it lost the lead.
WaitsForFirst(u) ==
    waits[u] # NoWait =>
        /\ input[u] # <<>> /\ waits[u].term <= term
        /\ (leads /\ waits[u].term = term) =>
              (waits[u].expect \in 1..Len(log) /\ log[waits[u].expect] = input[u][1].id)

\* What was answered was asked before what is still in the buffer.
AnsweredInOrder(u) ==
    /\ \A j \in DOMAIN input[u] : input[u][j].id <= asked
    /\ \A i \in DOMAIN replies[u] :
          /\ replies[u][i].all # <<>> /\ FirstId(replies[u][i]) <= asked
          /\ \A j \in DOMAIN input[u] : FirstId(replies[u][i]) < input[u][j].id

\* The parts of OkIsApplied for one client, and one answer.
Shows(reply, n, entries) ==
    (reply.all[1].op = "set" /\ reply.all[1].mark = "ok" /\ reply.same) =>
        \E k \in 1..n : entries[k] = FirstId(reply)
ShowsApplied(u) == \A i \in DOMAIN replies[u] : Shows(replies[u][i], applied, log)
SentOnce(u) ==
    \A i, j \in DOMAIN replies[u] : FirstId(replies[u][i]) = FirstId(replies[u][j]) => i = j

UserOk(u) == WaitsForFirst(u) /\ AnsweredInOrder(u) /\ ShowsApplied(u) /\ SentOnce(u)
UserInv == UserTypes /\ \A u \in User : UserOk(u)

LEMMA SeqElements ==
  ASSUME NEW S, NEW s \in Seq(S)
  PROVE  /\ Len(s) \in Nat /\ DOMAIN s = 1..Len(s)
         /\ \A i \in DOMAIN s : s[i] \in S
         /\ s # <<>> => 1 \in DOMAIN s
  BY LenProperties, EmptySeq

LEMMA AppendElements ==
  ASSUME NEW S, NEW s \in Seq(S), NEW e \in S
  PROVE  /\ Append(s, e) \in Seq(S) /\ Len(Append(s, e)) = Len(s) + 1
         /\ DOMAIN Append(s, e) = DOMAIN s \cup {Len(s) + 1}
         /\ Append(s, e)[Len(s) + 1] = e
         /\ \A i \in DOMAIN s : Append(s, e)[i] = s[i] /\ i # Len(s) + 1
<1>1. Append(s, e) \in Seq(S) /\ Len(Append(s, e)) = Len(s) + 1
  BY AppendProperties
<1>2. DOMAIN Append(s, e) = 1..Len(s) + 1 /\ DOMAIN s = 1..Len(s) /\ Len(s) \in Nat
  BY <1>1, LenProperties
<1>3. Append(s, e)[Len(s) + 1] = e /\ \A i \in 1..Len(s) : Append(s, e)[i] = s[i]
  BY AppendProperties
<1> QED BY <1>1, <1>2, <1>3

LEMMA RequestSeq ==
  ASSUME NEW s \in Seq(Request)
  PROVE  \A j \in DOMAIN s : s[j] \in Request /\ s[j].id \in Nat
<1>1. \A r \in Request : r.id \in Nat
  BY DEF Request
<1> QED BY <1>1, SeqElements

LEMMA ReplySeq ==
  ASSUME NEW s \in Seq(Reply)
  PROVE  \A i \in DOMAIN s :
            /\ s[i].all \in Seq(Request)
            /\ s[i].all # <<>> => FirstId(s[i]) \in Nat
<1>1. ASSUME NEW i \in DOMAIN s
      PROVE  s[i].all \in Seq(Request)
  <2>1. \A r \in Reply : r.all \in Seq(Request)
    BY DEF Reply
  <2> QED BY <2>1, SeqElements
<1>2. ASSUME NEW i \in DOMAIN s, s[i].all # <<>>
      PROVE  FirstId(s[i]) \in Nat
  <2>1. PICK a \in Seq(Request) : a = s[i].all
    BY <1>1
  <2>2. 1 \in DOMAIN a
    BY <1>2, <2>1, SeqElements
  <2> QED BY <2>1, <2>2, RequestSeq DEF FirstId
<1> QED BY <1>1, <1>2

LEMMA UserSeqs ==
  ASSUME UserTypes, NEW u \in User
  PROVE  /\ input[u] \in Seq(Request) /\ replies[u] \in Seq(Reply)
         /\ waits[u].expect \in Nat /\ waits[u].term \in Nat
  BY DEF UserTypes

\* A mark changes neither the requests nor their order.
LEMMA MarkedKeeps ==
  ASSUME NEW buffer \in Seq(Request), buffer # <<>>, NEW mark \in {"asked", "ok", "fail"}
  PROVE  /\ Marked(buffer, mark) \in Seq(Request) /\ Marked(buffer, mark) # <<>>
         /\ DOMAIN Marked(buffer, mark) = DOMAIN buffer
         /\ \A j \in DOMAIN buffer : /\ Marked(buffer, mark)[j].id = buffer[j].id
                                     /\ Marked(buffer, mark)[j].op = buffer[j].op
         /\ 1 \in DOMAIN buffer /\ Marked(buffer, mark)[1].mark = mark
<1>1. 1 \in DOMAIN buffer /\ buffer[1] \in Request
  BY SeqElements
<1>2. [buffer[1] EXCEPT !.mark = mark] \in Request
  BY <1>1 DEF Request
<1>3. PICK r \in Request : r = [buffer[1] EXCEPT !.mark = mark]
  BY <1>2
<1>4. r.id = buffer[1].id /\ r.op = buffer[1].op /\ r.mark = mark
  BY <1>1, <1>3 DEF Request
<1>5. Marked(buffer, mark) = [buffer EXCEPT ![1] = r]
  BY <1>1, <1>3 DEF Marked
<1> HIDE DEF Request
<1>6. /\ Marked(buffer, mark) \in Seq(Request) /\ Len(Marked(buffer, mark)) = Len(buffer)
      /\ \A j \in 1..Len(buffer) : Marked(buffer, mark)[j] = IF j = 1 THEN r ELSE buffer[j]
  BY <1>1, <1>5, SeqElements, ExceptSeq
<1> QED BY <1>1, <1>4, <1>6, SeqElements

\* Nothing that a client sees has changed.
LEMMA UserKeeps ==
  ASSUME UserTypes, NEW u \in User, UserOk(u), UserTypes',
         waits'[u] = waits[u], input'[u] = input[u], replies'[u] = replies[u],
         asked' >= asked, applied' >= applied, term' >= term,
         \A k \in 1..applied : log'[k] = log[k],
         (leads' /\ term' = term) =>
            (leads /\ Len(log') >= Len(log) /\ \A k \in 1..Len(log) : log'[k] = log[k])
  PROVE  UserOk(u)'
<1>0. /\ asked \in Nat /\ asked' \in Nat /\ applied \in Nat /\ applied' \in Nat
      /\ term \in Nat /\ term' \in Nat /\ Len(log) \in Nat /\ Len(log') \in Nat
  <2>1. log \in Seq(Nat) /\ log' \in Seq(Nat)
    BY DEF UserTypes
  <2> QED BY <2>1, LenProperties DEF UserTypes
<1>1. WaitsForFirst(u)'
  <2>1. CASE waits[u] = NoWait
    BY <2>1 DEF WaitsForFirst
  <2>2. CASE waits[u] # NoWait
    <3>1. input[u] # <<>> /\ waits[u].term <= term /\ waits[u].term \in Nat
      BY <2>2, UserSeqs DEF UserOk, WaitsForFirst
    <3>2. ASSUME leads', waits[u].term = term'
          PROVE  waits[u].expect \in 1..Len(log') /\ log'[waits[u].expect] = input[u][1].id
      <4>1. term' = term /\ leads
        BY <1>0, <3>1, <3>2
      <4>2. waits[u].expect \in 1..Len(log) /\ log[waits[u].expect] = input[u][1].id
        BY <2>2, <3>2, <4>1 DEF UserOk, WaitsForFirst
      <4> QED BY <1>0, <3>2, <4>1, <4>2
    <3> QED BY <1>0, <3>1, <3>2 DEF WaitsForFirst
  <2> QED BY <2>1, <2>2
<1>2. AnsweredInOrder(u)'
  <2>1. \A j \in DOMAIN input[u] : input[u][j].id \in Nat
    BY UserSeqs, RequestSeq
  <2>2. \A i \in DOMAIN replies[u] : replies[u][i].all # <<>> => FirstId(replies[u][i]) \in Nat
    BY UserSeqs, ReplySeq
  <2> QED BY <1>0, <2>1, <2>2 DEF UserOk, AnsweredInOrder, FirstId
<1>3. ShowsApplied(u)'
  <2>1. ASSUME NEW reply, Shows(reply, applied, log)
        PROVE  Shows(reply, applied', log')
    <3>1. 1..applied \subseteq 1..applied' /\ \A k \in 1..applied : log'[k] = log[k]
      BY <1>0
    <3> QED BY <2>1, <3>1 DEF Shows
  <2> QED BY <2>1 DEF UserOk, ShowsApplied
<1>4. SentOnce(u)'
  BY DEF UserOk, SentOnce, FirstId
<1> QED BY <1>1, <1>2, <1>3, <1>4 DEF UserOk

\* A client that is answered with all that its buffer has, and then has none.
LEMMA UserAnswered ==
  ASSUME UserTypes, NEW u \in User, UserOk(u), UserTypes', waits'[u] = NoWait,
         NEW buffer \in Seq(Request), buffer # <<>>, NEW mark \in {"ok", "fail"}, NEW same \in BOOLEAN,
         \A j \in DOMAIN buffer : buffer[j].id <= asked',
         \A i \in DOMAIN replies[u] : \A j \in DOMAIN buffer : FirstId(replies[u][i]) < buffer[j].id,
         input'[u] = <<>>,
         replies'[u] = Append(replies[u], [all |-> Marked(buffer, mark), same |-> same]),
         asked' >= asked, applied' >= applied, \A k \in 1..applied : log'[k] = log[k],
         (buffer[1].op = "set" /\ mark = "ok" /\ same) =>
            \E k \in 1..applied' : log'[k] = buffer[1].id
  PROVE  UserOk(u)'
<1>0. /\ asked \in Nat /\ asked' \in Nat /\ applied \in Nat /\ applied' \in Nat
      /\ term \in Nat /\ term' \in Nat /\ Len(log) \in Nat /\ Len(log') \in Nat
  <2>1. log \in Seq(Nat) /\ log' \in Seq(Nat)
    BY DEF UserTypes
  <2> QED BY <2>1, LenProperties DEF UserTypes
<1>a. /\ input[u] \in Seq(Request) /\ replies[u] \in Seq(Reply)
      /\ input'[u] = <<>> /\ DOMAIN input'[u] = {} /\ waits'[u] = NoWait
  BY UserSeqs
<1>1. PICK reply : reply = [all |-> Marked(buffer, mark), same |-> same]
  OBVIOUS
<1>2. /\ reply.all # <<>> /\ FirstId(reply) = buffer[1].id /\ reply.all[1].op = buffer[1].op
      /\ reply.all[1].mark = mark /\ reply.same = same /\ 1 \in DOMAIN buffer
  <2>1. reply.all = Marked(buffer, mark) /\ reply.same = same
    BY <1>1
  <2> QED BY <2>1, MarkedKeeps DEF FirstId
<1>3. reply \in Reply /\ buffer[1].id \in Nat
  <2>1. Marked(buffer, mark) \in Seq(Request)
    BY MarkedKeeps
  <2> QED BY <1>1, <1>2, <2>1, RequestSeq DEF Reply
<1>4. /\ DOMAIN replies'[u] = DOMAIN replies[u] \cup {Len(replies[u]) + 1}
      /\ replies'[u][Len(replies[u]) + 1] = reply
      /\ \A i \in DOMAIN replies[u] : replies'[u][i] = replies[u][i] /\ i # Len(replies[u]) + 1
  BY <1>1, <1>3, UserSeqs, AppendElements
<1>5. \A i \in DOMAIN replies[u] :
         replies[u][i].all # <<>> /\ FirstId(replies[u][i]) \in Nat /\ FirstId(replies[u][i]) <= asked
         /\ FirstId(replies[u][i]) < buffer[1].id
  <2>1. \A i \in DOMAIN replies[u] : replies[u][i].all # <<>> => FirstId(replies[u][i]) \in Nat
    BY UserSeqs, ReplySeq
  <2> QED BY <1>0, <1>2, <2>1 DEF UserOk, AnsweredInOrder
<1>6. WaitsForFirst(u)'
  BY <1>a DEF WaitsForFirst
<1>7. AnsweredInOrder(u)'
  <2>1. \A i \in DOMAIN replies[u] : replies[u][i].all # <<>> /\ FirstId(replies[u][i]) <= asked'
    BY <1>0, <1>5
  <2>2. FirstId(reply) <= asked' /\ reply.all # <<>>
    BY <1>2
  <2>3. \A i \in DOMAIN replies'[u] : replies'[u][i].all # <<>> /\ FirstId(replies'[u][i]) <= asked'
    BY <1>4, <2>1, <2>2
  <2> QED BY <1>a, <2>3 DEF AnsweredInOrder, FirstId
<1>8. ShowsApplied(u)'
  <2>1. ASSUME NEW r, Shows(r, applied, log)
        PROVE  Shows(r, applied', log')
    <3>1. 1..applied \subseteq 1..applied' /\ \A k \in 1..applied : log'[k] = log[k]
      BY <1>0
    <3> QED BY <2>1, <3>1 DEF Shows
  <2>2. Shows(reply, applied', log')
    BY <1>2 DEF Shows
  <2> QED BY <1>4, <2>1, <2>2 DEF UserOk, ShowsApplied
<1>9. SentOnce(u)'
  <2>1. \A i \in DOMAIN replies[u] : FirstId(replies'[u][i]) # FirstId(reply)
    BY <1>2, <1>3, <1>4, <1>5
  <2> QED BY <1>4, <2>1 DEF UserOk, SentOnce
<1> QED BY <1>6, <1>7, <1>8, <1>9 DEF UserOk

\* A client that is not answered and does not wait, whose buffer is another.
LEMMA UserUnanswered ==
  ASSUME UserTypes, NEW u \in User, UserOk(u), UserTypes',
         \A j \in DOMAIN input'[u] : input'[u][j].id <= asked',
         \A i \in DOMAIN replies[u] : \A j \in DOMAIN input'[u] : FirstId(replies[u][i]) < input'[u][j].id,
         replies'[u] = replies[u],
         asked' >= asked, applied' >= applied, \A k \in 1..applied : log'[k] = log[k],
         WaitsForFirst(u)'
  PROVE  UserOk(u)'
<1>0. /\ asked \in Nat /\ asked' \in Nat /\ applied \in Nat /\ applied' \in Nat
      /\ term \in Nat /\ term' \in Nat /\ Len(log) \in Nat /\ Len(log') \in Nat
  <2>1. log \in Seq(Nat) /\ log' \in Seq(Nat)
    BY DEF UserTypes
  <2> QED BY <2>1, LenProperties DEF UserTypes
<1>1. \A i \in DOMAIN replies[u] : replies[u][i].all # <<>> /\ FirstId(replies[u][i]) <= asked'
  <2>1. \A i \in DOMAIN replies[u] : replies[u][i].all # <<>> => FirstId(replies[u][i]) \in Nat
    BY UserSeqs, ReplySeq
  <2> QED BY <1>0, <2>1 DEF UserOk, AnsweredInOrder
<1>2. AnsweredInOrder(u)'
  BY <1>1 DEF AnsweredInOrder, FirstId
<1>3. ShowsApplied(u)'
  <2>1. ASSUME NEW r, Shows(r, applied, log)
        PROVE  Shows(r, applied', log')
    <3>1. 1..applied \subseteq 1..applied' /\ \A k \in 1..applied : log'[k] = log[k]
      BY <1>0
    <3> QED BY <2>1, <3>1 DEF Shows
  <2> QED BY <2>1 DEF UserOk, ShowsApplied
<1>4. SentOnce(u)'
  BY DEF UserOk, SentOnce, FirstId
<1> QED BY <1>2, <1>3, <1>4 DEF UserOk

LEMMA FunctionIsSeq ==
  ASSUME NEW S, NEW n \in Nat, NEW f \in [1..n -> S]
  PROVE  f \in Seq(S) /\ Len(f) = n
  OBVIOUS

\* r is t behind s.
Joins(r, s, t) == r = s \o t
LEMMA ConcatElements ==
  ASSUME NEW S, NEW s \in Seq(S), NEW t \in Seq(S), NEW r, Joins(r, s, t)
  PROVE  /\ r \in Seq(S) /\ Len(r) = Len(s) + Len(t)
         /\ \A i \in 1..Len(s) + Len(t) : r[i] = IF i <= Len(s) THEN s[i] ELSE t[i - Len(s)]
<1>1. /\ s \o t \in Seq(S) /\ Len(s \o t) = Len(s) + Len(t)
      /\ \A i \in 1..Len(s) + Len(t) : (s \o t)[i] = IF i <= Len(s) THEN s[i] ELSE t[i - Len(s)]
  BY ConcatProperties
<1> QED BY <1>1 DEF Joins

\* What has come goes behind what the buffer has.
LEMMA Arrival ==
  ASSUME UserTypes, NEW u \in User, UserOk(u),
         NEW n \in Nat \ {0}, asked' = asked + n,
         NEW new \in [1..n -> Request], \A i \in 1..n : new[i].id = asked + i,
         NEW buffer, Joins(buffer, input[u], new)
  PROVE  /\ buffer \in Seq(Request) /\ buffer # <<>> /\ asked' \in Nat /\ asked' >= asked
         /\ \A j \in DOMAIN buffer : buffer[j].id <= asked'
         /\ \A i \in DOMAIN replies[u] : \A j \in DOMAIN buffer : FirstId(replies[u][i]) < buffer[j].id
         /\ input[u] # <<>> => buffer[1] = input[u][1]
<1>1. asked \in Nat
  BY DEF UserTypes
<1>2. \A i \in 1..n : new[i].id = asked + i
  OBVIOUS
<1>4. new \in Seq(Request) /\ Len(new) = n
  BY FunctionIsSeq
<1>5. input[u] \in Seq(Request) /\ Len(input[u]) \in Nat /\ DOMAIN input[u] = 1..Len(input[u])
  BY UserSeqs, SeqElements
<1>6. /\ buffer \in Seq(Request) /\ Len(buffer) = Len(input[u]) + n
      /\ \A j \in 1..Len(input[u]) + n :
            buffer[j] = IF j <= Len(input[u]) THEN input[u][j] ELSE new[j - Len(input[u])]
  <2>1. PICK old, more : old = input[u] /\ more = new
    OBVIOUS
  <2>2. old \in Seq(Request) /\ more \in Seq(Request) /\ Joins(buffer, old, more)
    BY <1>4, <1>5, <2>1
  <2>3. /\ buffer \in Seq(Request) /\ Len(buffer) = Len(old) + Len(more)
        /\ \A j \in 1..Len(old) + Len(more) :
              buffer[j] = IF j <= Len(old) THEN old[j] ELSE more[j - Len(old)]
    BY <2>2, ConcatElements
  <2> QED BY <1>4, <2>1, <2>3
<1>7. DOMAIN buffer = 1..Len(input[u]) + n /\ buffer # <<>>
  BY <1>1, <1>5, <1>6, LenProperties, EmptySeq
<1>8. asked' \in Nat /\ asked' >= asked
  BY <1>1
<1>9. \A i \in DOMAIN replies[u] : FirstId(replies[u][i]) \in Nat /\ FirstId(replies[u][i]) <= asked
  BY UserSeqs, ReplySeq DEF UserOk, AnsweredInOrder
<1>10. ASSUME NEW j \in DOMAIN buffer
       PROVE  /\ buffer[j].id <= asked'
              /\ \A i \in DOMAIN replies[u] : FirstId(replies[u][i]) < buffer[j].id
  <2>1. CASE j <= Len(input[u])
    <3>1. j \in DOMAIN input[u] /\ buffer[j] = input[u][j] /\ input[u][j].id \in Nat
      BY <1>5, <1>6, <1>7, <2>1, RequestSeq
    <3> QED BY <1>1, <1>8, <3>1 DEF UserOk, AnsweredInOrder
  <2>2. CASE ~ j <= Len(input[u])
    <3>1. PICK k \in 1..n : k = j - Len(input[u])
      BY <1>1, <1>5, <1>7, <2>2
    <3>2. buffer[j].id = asked + k
      BY <1>2, <1>5, <1>6, <1>7, <2>2, <3>1
    <3> QED BY <1>1, <1>9, <3>2
  <2> QED BY <2>1, <2>2
<1>11. ASSUME input[u] # <<>> PROVE buffer[1] = input[u][1]
  <2>1. 1 \in DOMAIN input[u] /\ 1 <= Len(input[u])
    BY <1>5, <1>11, SeqElements
  <2>2. 1 \in 1..Len(input[u]) + n
    BY <1>5, <2>1
  <2> QED BY <1>6, <2>1, <2>2
<1> QED BY <1>6, <1>7, <1>8, <1>10, <1>11

LEMMA AppendLog ==
  ASSUME log \in Seq(Nat), NEW id \in Nat, log' = Append(log, id)
  PROVE  /\ log' \in Seq(Nat) /\ Len(log') = Len(log) + 1 /\ log'[Len(log) + 1] = id
         /\ \A k \in 1..Len(log) : log'[k] = log[k]
  BY AppendProperties

LEMMA RaftStepInv ==
  ASSUME UserInv, Lead \/ Acknowledge \/ Follow
  PROVE  UserInv'
<1>1. /\ UserTypes /\ UserTypes' /\ UNCHANGED <<input, waits, replies, asked>> /\ asked \in Nat
      /\ applied' >= applied /\ term' >= term
      /\ (leads' /\ term' = term) => leads /\ log' = log
      /\ \A k \in 1..applied : log'[k] = log[k]
  <2> USE DEF UserInv, UserTypes
  <2>1. CASE Lead
    BY <2>1 DEF Lead
  <2>2. CASE Acknowledge
    <3>1. acked' \in Nat /\ acked' <= Len(log) /\ acked' >= acked /\ log' = log /\ Len(log) \in Nat
      BY <2>2, LenProperties DEF Acknowledge
    <3> QED BY <2>2, <3>1 DEF Acknowledge
  <2>3. CASE Follow
    <3>1. PICK kept \in acked..Len(log), new \in {<<>>, <<Other>>} : log' = SubSeq(log, 1, kept) \o new
      BY <2>3 DEF Follow
    <3>2. Len(log) \in Nat /\ kept \in Nat /\ kept >= applied /\ \A k \in 1..kept : log[k] \in Nat
      BY <3>1, LenProperties, ElementOfSeq
    <3>3. /\ SubSeq(log, 1, kept) \in Seq(Nat) /\ Len(SubSeq(log, 1, kept)) = kept
          /\ \A k \in 1..kept : SubSeq(log, 1, kept)[k] = log[k]
      BY <3>2, SubSeqProperties
    <3>4. new \in Seq(Nat) /\ Len(new) \in Nat
      <4>1. <<>> \in Seq(Nat) /\ <<0>> \in Seq(Nat)
        OBVIOUS
      <4> QED BY <3>1, <4>1, LenProperties DEF Other
    <3>5. /\ log' \in Seq(Nat) /\ Len(log') = kept + Len(new)
          /\ \A k \in 1..kept : log'[k] = log[k]
      <4>1. PICK first \in Seq(Nat) : first = SubSeq(log, 1, kept)
        BY <3>3
      <4>2. log' = first \o new
        BY <3>1, <4>1
      <4> QED BY <3>2, <3>3, <3>4, <4>1, <4>2, ConcatProperties
    <3>6. /\ acked' \in acked..Len(log') /\ applied' \in applied..acked' /\ leads' = FALSE
          /\ UNCHANGED <<term, input, waits, replies, asked>>
      BY <2>3 DEF Follow
    <3>7. Len(log') \in Nat /\ acked' \in Nat /\ acked' <= Len(log') /\ applied' \in Nat /\ applied' <= acked'
          /\ applied' >= applied
      BY <3>2, <3>4, <3>5, <3>6
    <3>8. UserTypes'
      BY <3>5, <3>6, <3>7
    <3>9. \A k \in 1..applied : log'[k] = log[k]
      BY <3>2, <3>5
    <3> QED BY <3>6, <3>7, <3>8, <3>9
  <2> QED BY <2>1, <2>2, <2>3
<1>2. ASSUME leads', term' = term
      PROVE  leads /\ Len(log') >= Len(log) /\ \A k \in 1..Len(log) : log'[k] = log[k]
  <2>1. Len(log) \in Nat
    BY <1>1, LenProperties DEF UserTypes
  <2> QED BY <1>1, <1>2, <2>1
<1>3. ASSUME NEW u \in User
      PROVE  UserOk(u)'
  <2>1. UserOk(u) /\ asked' >= asked
    BY <1>1 DEF UserInv
  <2> QED BY <1>1, <1>2, <2>1, UserKeeps
<1> QED BY <1>1, <1>3 DEF UserInv

LEMMA LinkStepInv ==
  ASSUME UserInv, NEW u \in User, Accept(u) \/ CloseClient(u)
  PROVE  UserInv'
<1>1. UNCHANGED <<raftOnly, input, waits, replies, asked>>
  BY DEF Accept, CloseClient
<1> QED BY <1>1 DEF raftOnly, UserInv, UserTypes, UserOk, WaitsForFirst, AnsweredInOrder, ShowsApplied, SentOnce

\* What a message leaves as it is for all other clients.
LEMMA OthersKeep ==
  ASSUME UserInv, UserTypes', NEW u \in User, UserOk(u)', asked' >= asked, UNCHANGED <<leads, term, applied>>,
         \A v \in User \ {u} : waits'[v] = waits[v] /\ input'[v] = input[v] /\ replies'[v] = replies[v],
         Len(log') >= Len(log), \A k \in 1..Len(log) : log'[k] = log[k]
  PROVE  UserInv'
<1>1. applied \in Nat /\ term \in Nat /\ Len(log) \in Nat /\ applied <= Len(log)
  BY LenProperties DEF UserInv, UserTypes
<1>2. \A k \in 1..applied : log'[k] = log[k]
  BY <1>1
<1>3. ASSUME NEW v \in User, v # u
      PROVE  UserOk(v)'
  BY <1>1, <1>2, <1>3, UserKeeps DEF UserInv
<1> QED BY <1>3 DEF UserInv

LEMMA OnMessageInv ==
  ASSUME UserInv, NEW u \in User, OnMessage(u)
  PROVE  UserInv'
<1> DEFINE Ops == {<<o>> : o \in {"set", "get"}} \cup {<<"set", o>> : o \in {"set", "get"}}
           New(ops) == [i \in DOMAIN ops |-> [id |-> asked + i, op |-> ops[i], mark |-> "asked"]]
<1>1. PICK ops \in Ops :
         /\ asked' = asked + Len(ops)
         /\ \/ Refuse(u, input[u] \o New(ops)) \/ WriteTwice(u, input[u] \o New(ops))
            \/ SetRequest(u, input[u] \o New(ops)) \/ GetRequest(u, input[u] \o New(ops))
  BY DEF OnMessage
<1>2. UserTypes /\ UserOk(u) /\ UNCHANGED <<leads, term, acked, applied>> /\ asked \in Nat
  BY DEF UserInv, UserTypes, OnMessage
<1>3. PICK n \in Nat \ {0} : n = Len(ops) /\ DOMAIN ops = 1..n /\ \A i \in 1..n : ops[i] \in {"set", "get"}
  <2>1. CASE \E o \in {"set", "get"} : ops = <<o>>
    <3>1. Len(ops) = 1 /\ DOMAIN ops = 1..1 /\ \A i \in 1..1 : ops[i] \in {"set", "get"}
      BY <2>1
    <3> QED BY <3>1
  <2>2. CASE \E o \in {"set", "get"} : ops = <<"set", o>>
    <3>1. Len(ops) = 2 /\ DOMAIN ops = 1..2 /\ \A i \in 1..2 : ops[i] \in {"set", "get"}
      BY <2>2
    <3> QED BY <3>1
  <2> QED BY <2>1, <2>2
<1>4. /\ \A i \in 1..n : New(ops)[i] \in Request /\ New(ops)[i].id = asked + i
      /\ New(ops) \in [1..n -> Request]
  <2>1. \A i \in 1..n : New(ops)[i] = [id |-> asked + i, op |-> ops[i], mark |-> "asked"]
    BY <1>3
  <2>2. \A i \in 1..n : New(ops)[i] \in Request /\ New(ops)[i].id = asked + i
    BY <1>2, <1>3, <2>1 DEF Request
  <2> QED BY <1>3, <2>2
<1>5. PICK new \in [1..n -> Request] : new = New(ops) /\ \A i \in 1..n : new[i].id = asked + i
  BY <1>4
<1>6. PICK buffer : buffer = input[u] \o new
  OBVIOUS
<1>7. Refuse(u, buffer) \/ WriteTwice(u, buffer) \/ SetRequest(u, buffer) \/ GetRequest(u, buffer)
  BY <1>1, <1>5, <1>6
<1>8. asked' = asked + n
  BY <1>1, <1>3
<1> HIDE DEF New, Ops
<1>9. /\ buffer \in Seq(Request) /\ buffer # <<>> /\ asked' \in Nat /\ asked' >= asked
      /\ \A j \in DOMAIN buffer : buffer[j].id <= asked'
      /\ \A i \in DOMAIN replies[u] : \A j \in DOMAIN buffer : FirstId(replies[u][i]) < buffer[j].id
      /\ input[u] # <<>> => buffer[1] = input[u][1]
  <2>1. UserTypes /\ UserOk(u)
    BY <1>2
  <2>2. n \in Nat \ {0} /\ new \in [1..n -> Request] /\ \A i \in 1..n : new[i].id = asked + i
    BY <1>5
  <2>3. Joins(buffer, input[u], new)
    BY <1>6 DEF Joins
  <2> QED BY <1>8, <2>1, <2>2, <2>3, Arrival
<1>10. buffer[1] \in Request /\ buffer[1].id \in Nat /\ 1 \in DOMAIN buffer
  BY <1>9, SeqElements, RequestSeq
<1>11. applied' >= applied /\ Len(log) \in Nat /\ applied <= Len(log) /\ log \in Seq(Nat)
       /\ applied \in Nat /\ term \in Nat
       /\ \A k \in 1..applied : k \in 1..Len(log)
  BY <1>2, LenProperties DEF UserTypes
<1>12. CASE UNCHANGED <<log, waits, replies>> /\ input' = [input EXCEPT ![u] = buffer]
  <2>1. UserTypes'
    BY <1>2, <1>9, <1>12 DEF UserTypes
  <2>2. input'[u] = buffer /\ replies'[u] = replies[u] /\ waits'[u] = waits[u]
    BY <1>2, <1>12 DEF UserTypes
  <2>3. WaitsForFirst(u)'
    BY <1>2, <1>9, <1>12, <2>2 DEF UserOk, WaitsForFirst
  <2>4. UserOk(u)'
    BY <1>2, <1>9, <1>11, <1>12, <2>1, <2>2, <2>3, UserUnanswered
  <2>5. \A v \in User \ {u} : waits'[v] = waits[v] /\ input'[v] = input[v] /\ replies'[v] = replies[v]
    BY <1>2, <1>12 DEF UserTypes
  <2> QED BY <1>2, <1>9, <1>11, <1>12, <2>1, <2>4, <2>5, OthersKeep
<1>13. CASE WriteTwice(u, buffer)
  <2>1. UNCHANGED <<log, input, waits, replies>>
    BY <1>13 DEF WriteTwice
  <2>2. UserTypes'
    BY <1>2, <1>9, <2>1 DEF UserTypes
  <2>3. UserOk(u)'
    BY <1>2, <1>9, <1>11, <2>1, <2>2, UserKeeps
  <2> QED BY <1>2, <1>9, <1>11, <2>1, <2>2, <2>3, OthersKeep
<1>14. CASE /\ leads /\ input' = [input EXCEPT ![u] = buffer] /\ UNCHANGED replies
            /\ log' = Append(log, buffer[1].id)
            /\ waits' = [waits EXCEPT ![u] = [expect |-> Len(log) + 1, term |-> term]]
  <2>1. /\ log' \in Seq(Nat) /\ Len(log') = Len(log) + 1 /\ log'[Len(log) + 1] = buffer[1].id
        /\ \A k \in 1..Len(log) : log'[k] = log[k]
    BY <1>10, <1>11, <1>14, AppendLog
  <2>2. [expect |-> Len(log) + 1, term |-> term] \in [expect : Nat, term : Nat]
    BY <1>11
  <2>3. UserTypes'
    <3>1. waits' \in [User -> [expect : Nat, term : Nat]] /\ input' \in [User -> Seq(Request)]
      <4>1. PICK w \in [expect : Nat, term : Nat] : w = [expect |-> Len(log) + 1, term |-> term]
        BY <2>2
      <4>2. waits' = [waits EXCEPT ![u] = w]
        BY <1>14, <4>1
      <4> QED BY <1>2, <1>9, <1>14, <4>2 DEF UserTypes
    <3>2. acked' \in Nat /\ acked' <= Len(log')
      BY <1>2, <1>11, <2>1 DEF UserTypes
    <3>3. replies' \in [User -> Seq(Reply)] /\ leads' \in BOOLEAN /\ term' \in Nat
          /\ applied' \in Nat /\ applied' <= acked'
      BY <1>2, <1>14 DEF UserTypes
    <3> QED BY <1>9, <2>1, <3>1, <3>2, <3>3 DEF UserTypes
  <2>4. /\ input'[u] = buffer /\ waits'[u].expect = Len(log) + 1 /\ waits'[u].term = term
        /\ \A v \in User \ {u} : waits'[v] = waits[v] /\ input'[v] = input[v] /\ replies'[v] = replies[v]
    BY <1>2, <1>14 DEF UserTypes
  <2>5. WaitsForFirst(u)'
    BY <1>2, <1>9, <1>11, <2>1, <2>4 DEF WaitsForFirst
  <2>6. \A k \in 1..applied : log'[k] = log[k]
    BY <1>11, <2>1
  <2>7. UserOk(u)'
    BY <1>2, <1>9, <1>11, <1>14, <2>3, <2>4, <2>5, <2>6, UserUnanswered
  <2>8. Len(log') >= Len(log)
    BY <1>11, <2>1
  <2> QED BY <1>2, <1>9, <2>1, <2>3, <2>4, <2>7, <2>8, OthersKeep
<1>15. CASE GetRequest(u, buffer)
  <2>1. PICK mark \in {"ok", "fail"} : Send(u, Marked(buffer, mark), TRUE)
    BY <1>15 DEF GetRequest
  <2>2. waits[u] = NoWait /\ UNCHANGED <<log, waits>> /\ buffer[1].op = "get"
    BY <1>15 DEF GetRequest
  <2>3. /\ Marked(buffer, mark) \in Seq(Request)
        /\ DOMAIN Marked(buffer, mark) = DOMAIN buffer
        /\ \A j \in DOMAIN buffer : Marked(buffer, mark)[j].id = buffer[j].id
    BY <1>9, <2>1, MarkedKeeps
  <2>4. CASE link[u] = "open"
    <3>1. PICK reply : reply = [all |-> Marked(buffer, mark), same |-> TRUE]
      OBVIOUS
    <3>2. reply \in Reply
      BY <2>3, <3>1 DEF Reply
    <3>3. replies' = [replies EXCEPT ![u] = Append(@, reply)] /\ input' = [input EXCEPT ![u] = <<>>]
      BY <2>1, <2>4, <3>1 DEF Send
    <3>4. Append(replies[u], reply) \in Seq(Reply) /\ replies \in [User -> Seq(Reply)]
          /\ input \in [User -> Seq(Request)] /\ <<>> \in Seq(Request)
      BY <1>2, <3>2, AppendElements, EmptySeq DEF UserTypes
    <3>5. /\ replies' \in [User -> Seq(Reply)] /\ input' \in [User -> Seq(Request)]
          /\ replies'[u] = Append(replies[u], reply) /\ input'[u] = <<>>
          /\ \A v \in User \ {u} : input'[v] = input[v] /\ replies'[v] = replies[v]
      BY <3>3, <3>4
    <3>6. UserTypes'
      BY <1>2, <1>9, <2>2, <3>5 DEF UserTypes
    <3>7. UserOk(u)'
      BY <1>2, <1>9, <1>11, <2>1, <2>2, <3>1, <3>5, <3>6, UserAnswered
    <3> QED BY <1>2, <1>9, <1>11, <2>2, <3>5, <3>6, <3>7, OthersKeep
  <2>5. CASE link[u] # "open"
    <3>1. input' = [input EXCEPT ![u] = Marked(buffer, mark)] /\ UNCHANGED <<replies, waits, log>>
      BY <2>1, <2>2, <2>5 DEF Send
    <3>2. UserTypes'
      BY <1>2, <1>9, <2>3, <3>1 DEF UserTypes
    <3>3. /\ input'[u] = Marked(buffer, mark) /\ waits'[u] = NoWait
          /\ \A v \in User \ {u} : input'[v] = input[v] /\ replies'[v] = replies[v] /\ waits'[v] = waits[v]
      BY <1>2, <2>2, <3>1 DEF UserTypes
    <3>4. WaitsForFirst(u)'
      BY <3>3 DEF WaitsForFirst
    <3>5. UserOk(u)'
      BY <1>2, <1>9, <1>11, <2>3, <3>1, <3>2, <3>3, <3>4, UserUnanswered
    <3> QED BY <1>2, <1>9, <1>11, <3>1, <3>2, <3>3, <3>5, OthersKeep
  <2> QED BY <2>4, <2>5
<1>16. CASE Refuse(u, buffer)
  BY <1>12, <1>16 DEF Refuse
<1>17. CASE SetRequest(u, buffer)
  BY <1>12, <1>14, <1>17 DEF SetRequest
<1> QED BY <1>7, <1>13, <1>15, <1>16, <1>17

\* One client of those that the loop of CheckClientApplied answers.
LEMMA AnswerOne ==
  ASSUME UserInv, NEW us \in SUBSET User, Answer(us), NEW u \in us, UserTypes',
         leads, acked' = acked, applied' = acked, UNCHANGED <<term, log, asked>>,
         waits[u] # NoWait, waits[u].expect <= acked
  PROVE  UserOk(u)'
<1> DEFINE same == waits[u].term = term
           buffer == input[u]
<1>1. UserTypes /\ UserOk(u) /\ u \in User
  BY DEF UserInv
<1>2. buffer # <<>> /\ buffer \in Seq(Request) /\ waits[u].expect \in Nat /\ waits[u].term \in Nat
  BY <1>1, UserSeqs DEF UserOk, WaitsForFirst
<1>3. /\ Marked(buffer, "ok") \in Seq(Request)
      /\ DOMAIN Marked(buffer, "ok") = DOMAIN buffer
      /\ \A j \in DOMAIN buffer : Marked(buffer, "ok")[j].id = buffer[j].id
  BY <1>2, MarkedKeeps
<1>4. /\ acked \in Nat /\ applied \in Nat /\ applied' >= applied /\ asked' >= asked
      /\ \A k \in 1..applied : log'[k] = log[k]
  BY <1>1 DEF UserTypes
<1>5. waits'[u] = NoWait
  BY <1>1 DEF Answer
<1>6. /\ \A j \in DOMAIN buffer : buffer[j].id <= asked'
      /\ \A i \in DOMAIN replies[u] : \A j \in DOMAIN buffer : FirstId(replies[u][i]) < buffer[j].id
  BY <1>1 DEF UserOk, AnsweredInOrder
<1>7. CASE link[u] = "open"
  <2>1. input'[u] = <<>> /\ replies'[u] = Append(replies[u], [all |-> Marked(buffer, "ok"), same |-> same])
    BY <1>1, <1>7 DEF Answer
  <2>2. ASSUME same
        PROVE  \E k \in 1..applied' : log'[k] = buffer[1].id
    <3>1. waits[u].expect \in 1..Len(log) /\ log[waits[u].expect] = buffer[1].id
      BY <1>1, <2>2 DEF UserOk, WaitsForFirst
    <3>2. waits[u].expect \in 1..applied'
      BY <1>2, <1>4, <3>1
    <3> QED BY <3>1, <3>2
  <2>3. same \in BOOLEAN
    OBVIOUS
  <2> HIDE DEF same, buffer
  <2> QED BY <1>1, <1>2, <1>4, <1>5, <1>6, <2>1, <2>2, <2>3, UserAnswered
<1>8. CASE link[u] # "open"
  <2>1. input'[u] = Marked(buffer, "ok") /\ replies'[u] = replies[u]
    BY <1>1, <1>8 DEF Answer
  <2>2. WaitsForFirst(u)'
    BY <1>5 DEF WaitsForFirst
  <2> HIDE DEF same, buffer
  <2> QED BY <1>1, <1>3, <1>4, <1>6, <2>1, <2>2, UserUnanswered
<1> QED BY <1>7, <1>8

LEMMA AnswerTypes ==
  ASSUME UserInv, NEW us \in SUBSET User, Answer(us), \A u \in us : waits[u] # NoWait
  PROVE  /\ input' \in [User -> Seq(Request)] /\ replies' \in [User -> Seq(Reply)]
         /\ waits' \in [User -> [expect : Nat, term : Nat]]
         /\ \A v \in User \ us : waits'[v] = waits[v] /\ input'[v] = input[v] /\ replies'[v] = replies[v]
<1>1. ASSUME NEW u \in User
      PROVE  /\ input'[u] \in Seq(Request) /\ replies'[u] \in Seq(Reply)
             /\ waits'[u] \in [expect : Nat, term : Nat]
  <2>1. /\ input[u] \in Seq(Request) /\ replies[u] \in Seq(Reply) /\ waits[u] \in [expect : Nat, term : Nat]
        /\ NoWait \in [expect : Nat, term : Nat] /\ <<>> \in Seq(Request)
    BY EmptySeq DEF UserInv, UserTypes, NoWait
  <2>2. CASE u \notin us
    BY <2>1, <2>2 DEF Answer
  <2>3. CASE u \in us
    <3>1. input[u] # <<>>
      BY <2>3 DEF UserInv, UserOk, WaitsForFirst
    <3>2. Marked(input[u], "ok") \in Seq(Request)
      BY <2>1, <3>1, MarkedKeeps
    <3>3. PICK reply : reply = [all |-> Marked(input[u], "ok"), same |-> waits[u].term = term]
      OBVIOUS
    <3>4. reply \in Reply
      BY <3>2, <3>3 DEF Reply
    <3>5. Append(replies[u], reply) \in Seq(Reply)
      BY <2>1, <3>4, AppendElements
    <3>6. /\ input'[u] \in {<<>>, Marked(input[u], "ok")} /\ waits'[u] = NoWait
          /\ replies'[u] \in {replies[u], Append(replies[u], reply)}
      BY <2>3, <3>3 DEF Answer
    <3> QED BY <2>1, <3>2, <3>5, <3>6
  <2> QED BY <2>2, <2>3
<1>2. /\ input' = [u \in User |-> input'[u]] /\ replies' = [u \in User |-> replies'[u]]
      /\ waits' = [u \in User |-> waits'[u]]
  BY DEF Answer
<1>3. \A v \in User \ us : waits'[v] = waits[v] /\ input'[v] = input[v] /\ replies'[v] = replies[v]
  BY DEF Answer
<1> QED BY <1>1, <1>2, <1>3

LEMMA TickInv ==
  ASSUME UserInv, Tick
  PROVE  UserInv'
<1>1. /\ applied' = acked /\ leads' \in {leads, FALSE} /\ UNCHANGED <<term, log, acked, asked>>
      /\ UserTypes /\ leads \in BOOLEAN /\ applied \in Nat /\ acked \in Nat /\ applied <= acked
      /\ acked <= Len(log) /\ Len(log) \in Nat /\ term \in Nat /\ asked \in Nat
  BY LenProperties DEF Tick, UserInv, UserTypes
<1>a. leads' \in BOOLEAN /\ (leads' => leads)
  <2>1. CASE leads' = leads
    BY <1>1, <2>1
  <2>2. CASE leads' = FALSE
    BY <2>2
  <2> QED BY <1>1, <2>1, <2>2
<1>2. /\ applied' >= applied /\ term' >= term /\ asked' >= asked
      /\ \A k \in 1..applied : log'[k] = log[k]
      /\ leads' => leads /\ Len(log') >= Len(log) /\ \A k \in 1..Len(log) : log'[k] = log[k]
  BY <1>1, <1>a
<1>b. /\ leads' \in BOOLEAN /\ term' \in Nat /\ log' \in Seq(Nat) /\ asked' \in Nat
      /\ acked' \in Nat /\ acked' <= Len(log') /\ applied' \in Nat /\ applied' <= acked'
  BY <1>1, <1>a DEF UserTypes
<1>3. CASE UNCHANGED <<input, waits, replies>>
  <2>1. UserTypes'
    BY <1>1, <1>b, <1>3 DEF UserTypes
  <2>2. ASSUME NEW u \in User
        PROVE  UserOk(u)'
    <3>1. UserOk(u)
      BY DEF UserInv
    <3> QED BY <1>1, <1>2, <1>3, <2>1, <3>1, UserKeeps
  <2> QED BY <2>1, <2>2 DEF UserInv
<1>4. CASE leads' /\ \E us \in SUBSET {u \in User : waits[u] # NoWait /\ IsApplied(waits[u].expect)} : Answer(us)
  <2>1. PICK us \in SUBSET User : /\ Answer(us)
                                  /\ \A u \in us : waits[u] # NoWait /\ waits[u].expect <= acked
    BY <1>4 DEF IsApplied
  <2>2. /\ input' \in [User -> Seq(Request)] /\ replies' \in [User -> Seq(Reply)]
        /\ waits' \in [User -> [expect : Nat, term : Nat]]
        /\ \A v \in User \ us : waits'[v] = waits[v] /\ input'[v] = input[v] /\ replies'[v] = replies[v]
    BY <2>1, AnswerTypes
  <2>3. UserTypes'
    BY <1>b, <2>2 DEF UserTypes
  <2>4. ASSUME NEW u \in us
        PROVE  UserOk(u)'
    BY <1>1, <1>a, <1>4, <2>1, <2>3, AnswerOne
  <2>5. ASSUME NEW v \in User \ us
        PROVE  UserOk(v)'
    <3>1. UserOk(v)
      BY DEF UserInv
    <3> QED BY <1>1, <1>2, <2>2, <2>3, <3>1, UserKeeps
  <2> QED BY <2>3, <2>4, <2>5 DEF UserInv
<1>5. UNCHANGED <<input, waits, replies>> \/
      (leads' /\ \E us \in SUBSET {u \in User : waits[u] # NoWait /\ IsApplied(waits[u].expect)} : Answer(us))
  <2> DEFINE ready == {u \in {v \in User : waits[v] # NoWait} : IsApplied(waits[u].expect)}
  <2>1. ready = {u \in User : waits[u] # NoWait /\ IsApplied(waits[u].expect)}
    OBVIOUS
  <2>2. UNCHANGED <<input, waits, replies>> \/ (leads' /\ \E us \in SUBSET ready : Answer(us))
    BY DEF Tick
  <2> QED BY <2>1, <2>2
<1> QED BY <1>3, <1>4, <1>5

\* A client gets an OK for a write only when the write is applied, of the request
\* it asked first, and once: as long as the leader that took it leads, for any
\* number of clients, terms and requests (raftserver.cpp:201, :233).
THEOREM AnsweredIsApplied == SpecUsers => []OkIsApplied
<1>1. InitUsers => UserInv
  <2> SUFFICES ASSUME InitUsers PROVE UserInv
    OBVIOUS
  <2>1. /\ <<>> \in Seq(Nat) /\ <<>> \in Seq(Request) /\ <<>> \in Seq(Reply) /\ Len(<<>>) = 0
        /\ NoWait \in [expect : Nat, term : Nat]
    BY EmptySeq DEF NoWait
  <2>2. UserTypes
    <3>1. leads \in BOOLEAN /\ term \in Nat /\ asked \in Nat /\ acked = 0 /\ applied = 0
      BY DEF InitUsers
    <3>2. log \in Seq(Nat) /\ Len(log) = 0
      BY <2>1 DEF InitUsers
    <3>3. /\ input \in [User -> Seq(Request)] /\ replies \in [User -> Seq(Reply)]
          /\ waits \in [User -> [expect : Nat, term : Nat]]
      BY <2>1 DEF InitUsers
    <3> QED BY <3>1, <3>2, <3>3 DEF UserTypes
  <2>3. ASSUME NEW u \in User
        PROVE  /\ waits[u] = NoWait /\ input[u] = <<>> /\ replies[u] = <<>>
               /\ DOMAIN input[u] = {} /\ DOMAIN replies[u] = {}
    BY DEF InitUsers
  <2> QED BY <2>2, <2>3 DEF UserInv, UserOk, WaitsForFirst, AnsweredInOrder, ShowsApplied, SentOnce
<1>2. UserInv /\ [NextUsers]_userVars => UserInv'
  <2> SUFFICES ASSUME UserInv, [NextUsers]_userVars PROVE UserInv'
    OBVIOUS
  <2>1. CASE UNCHANGED userVars
    BY <2>1 DEF userVars, raftOnly, UserInv, UserTypes, UserOk, WaitsForFirst, AnsweredInOrder, ShowsApplied, SentOnce
  <2>2. CASE NextUsers
    BY <2>2, RaftStepInv, LinkStepInv, OnMessageInv, TickInv DEF NextUsers
  <2> QED BY <2>1, <2>2
<1>3. UserInv => OkIsApplied
  <2> SUFFICES ASSUME UserInv PROVE OkIsApplied
    OBVIOUS
  <2>1. \A u \in User : ShowsApplied(u) /\ SentOnce(u)
    BY DEF UserInv, UserOk
  <2> QED BY <2>1 DEF OkIsApplied, OkShowsApplied, OkIsSentOnce, ShowsApplied, SentOnce, Shows, FirstId
<1> QED BY <1>1, <1>2, <1>3, PTL DEF SpecUsers

(***************************************************************************)
(* The append-only file of memcached, until it is rewritten.               *)
(***************************************************************************)
Cell == [id : Int, op : {"set", "delete"}, key : Key, value : Data \cup {0}, flag : Flag \cup {0}]
            \cup {Zeros, Junk}

\* The file begins with n commands in the order of their ids, and has zeros behind
\* them; while the server runs it has its full length, and seek is n.
Follows(file, n) ==
    /\ file \in Seq(Cell) /\ Len(file) \in {0, AofLength} /\ n \in 0..Len(file)
    /\ \A i \in 1..n : file[i].id \in 0..commands - 1
    /\ \A i \in 1..n - 1 : file[i].id < file[i + 1].id
    /\ \A i \in n + 1..Len(file) : file[i] = Zeros
    /\ up => seek = n /\ Len(file) = AofLength

\* No child has been forked: there is one file, and no signal of a child.
NoChildYet ==
    /\ aof = 1 /\ rewritten = None /\ children = {} /\ signalled = FALSE /\ aofState # "ReWrittened"
    /\ commands \in Nat /\ up \in BOOLEAN /\ DOMAIN files = Inode
    /\ \E n \in Nat : Follows(files[1], n)

MemInv == forks \in Nat /\ (forks = 0 => NoChildYet)

\* The replay reads the commands that lie before the zeros, and no more.
LEMMA ReadableIs ==
  ASSUME NEW file, Len(file) \in Nat, NEW n \in 0..Len(file),
         \A i \in 1..n : file[i].id \in Nat,
         \A i \in n + 1..Len(file) : file[i] = Zeros
  PROVE  Readable(file) = n
<1> DEFINE P(m) == /\ \A i \in 1..m : IsCommand(file[i])
                   /\ m < Len(file) => ~IsCommand(file[m + 1])
<1>1. \A i \in 1..n : IsCommand(file[i])
  BY DEF IsCommand
<1>2. \A i \in n + 1..Len(file) : ~IsCommand(file[i])
  BY DEF IsCommand, Zeros
<1>3. P(n)
  BY <1>1, <1>2
<1>4. ASSUME NEW m \in 0..Len(file), P(m)
      PROVE  m = n
  <2>1. ~ m < n
    <3>1. SUFFICES ASSUME m < n PROVE FALSE
      OBVIOUS
    <3>2. m + 1 \in 1..n /\ m < Len(file)
      BY <3>1
    <3> QED BY <1>1, <1>4, <3>2
  <2>2. ~ n < m
    <3>1. SUFFICES ASSUME n < m PROVE FALSE
      OBVIOUS
    <3>2. n + 1 \in 1..m /\ n + 1 \in n + 1..Len(file)
      BY <3>1
    <3> QED BY <1>2, <1>4, <3>2
  <2> QED BY <2>1, <2>2
<1>5. Readable(file) = CHOOSE m \in 0..Len(file) : P(m)
  BY DEF Readable
<1> HIDE DEF P
<1> QED BY <1>3, <1>4, <1>5

\* A file that is new, or has its full length, is extended by zeros.
LEMMA FilledFollows ==
  ASSUME NEW file, NEW n \in Nat, Follows(file, n)
  PROVE  /\ Filled(file) \in Seq(Cell) /\ Len(Filled(file)) = AofLength /\ n \in 0..AofLength
         /\ \A i \in 1..n : Filled(file)[i] = file[i]
         /\ \A i \in n + 1..AofLength : Filled(file)[i] = Zeros
<1>1. file \in Seq(Cell) /\ Len(file) \in Nat /\ AofLength \in Nat /\ AofLength - Len(file) \in Nat
      /\ Len(file) \in {0, AofLength} /\ n \in 0..Len(file)
      /\ \A i \in n + 1..Len(file) : file[i] = Zeros
  BY FileAssumption, LenProperties DEF Follows
<1>2. PICK tail \in [1..(AofLength - Len(file)) -> Cell] : tail = [i \in 1..(AofLength - Len(file)) |-> Zeros]
  BY DEF Cell
<1>3. tail \in Seq(Cell) /\ Len(tail) = AofLength - Len(file) /\ \A i \in 1..AofLength - Len(file) : tail[i] = Zeros
  BY <1>1, <1>2, FunctionIsSeq
<1>4. Filled(file) = file \o tail
  BY <1>2 DEF Filled
<1>5. /\ file \o tail \in Seq(Cell) /\ Len(file \o tail) = Len(file) + (AofLength - Len(file))
      /\ \A i \in 1..Len(file) + (AofLength - Len(file)) :
            (file \o tail)[i] = IF i <= Len(file) THEN file[i] ELSE tail[i - Len(file)]
  BY <1>1, <1>3, ConcatProperties
<1>6. PICK full : full = file \o tail
  OBVIOUS
<1>7. /\ full \in Seq(Cell) /\ Len(full) = AofLength /\ n \in 0..AofLength
      /\ \A i \in 1..n : full[i] = file[i]
      /\ \A i \in n + 1..AofLength : full[i] = Zeros
  BY <1>1, <1>3, <1>5, <1>6
<1> QED BY <1>4, <1>6, <1>7

LEMMA RunInv ==
  ASSUME MemInv, Run
  PROVE  MemInv'
<1>1. forks \in Nat /\ forks' = forks
  BY DEF MemInv, Run
<1>2. CASE forks = 0
  <2>1. NoChildYet
    BY <1>2 DEF MemInv
  <2>2. PICK n \in Nat : Follows(files[1], n)
    BY <2>1 DEF NoChildYet
  <2>3. PICK file : file = Filled(files[1])
    OBVIOUS
  <2>4. /\ file \in Seq(Cell) /\ Len(file) = AofLength /\ n \in 0..AofLength
        /\ \A i \in 1..n : file[i] = files[1][i]
        /\ \A i \in n + 1..AofLength : file[i] = Zeros
    BY <2>2, <2>3, FilledFollows
  <2>5. /\ \A i \in 1..n : file[i].id \in 0..commands - 1 /\ file[i].id \in Nat
        /\ \A i \in 1..n - 1 : file[i].id < file[i + 1].id
    <3>1. \A i \in 1..n - 1 : i \in 1..n /\ i + 1 \in 1..n
      OBVIOUS
    <3>2. commands \in Nat /\ n \in Nat
      BY <2>1 DEF NoChildYet
    <3>3. \A i \in 1..n : file[i].id \in 0..commands - 1
      BY <2>2, <2>4 DEF Follows
    <3>4. \A i \in 1..n - 1 : file[i].id < file[i + 1].id
      BY <2>2, <2>4, <3>1, <3>2 DEF Follows
    <3> QED BY <3>2, <3>3, <3>4
  <2>6. Readable(file) = n
    BY <2>4, <2>5, ReadableIs, FileAssumption
  <2>7. files' = [files EXCEPT ![1] = file] /\ seek' = n /\ up' = TRUE /\ aofState' = "Append"
        /\ UNCHANGED <<aof, rewritten, children, signalled, commands>>
    BY <2>1, <2>3, <2>6 DEF Run, NoChildYet
  <2>8. 1 \in Inode
    BY FileAssumption DEF Inode
  <2>9. files'[1] = file /\ DOMAIN files' = Inode
    BY <2>1, <2>7, <2>8 DEF NoChildYet
  <2>10. Follows(file, n)'
    BY <2>4, <2>5, <2>7 DEF Follows
  <2>11. NoChildYet'
    BY <2>1, <2>7, <2>9, <2>10 DEF NoChildYet
  <2> QED BY <1>1, <2>11 DEF MemInv
<1>3. CASE forks # 0
  BY <1>1, <1>3 DEF MemInv
<1> QED BY <1>2, <1>3

LEMMA Below ==
  ASSUME NEW a \in Nat, NEW b \in Nat, b >= a, NEW m \in 0..a - 1
  PROVE  m \in 0..b - 1
  OBVIOUS

\* The server stops, or a step leaves its file and its place in it alone.
LEMMA FileStaysInv ==
  ASSUME MemInv, forks = 0, forks' = 0, UNCHANGED fileVars, commands' \in Nat, commands' >= commands,
         up' \in BOOLEAN, up' => up /\ seek' = seek,
         children' = {}, signalled' = FALSE, aofState' # "ReWrittened"
  PROVE  MemInv'
<1>1. NoChildYet
  BY DEF MemInv
<1>2. PICK n \in Nat : Follows(files[1], n)
  BY <1>1 DEF NoChildYet
<1>3. ASSUME NEW m \in 0..commands - 1 PROVE m \in 0..commands' - 1
  <2>1. commands \in Nat /\ commands' \in Nat /\ commands' >= commands
    BY <1>1 DEF NoChildYet
  <2> QED BY <2>1, Below
<1>4. Follows(files[1], n)'
  BY <1>2, <1>3 DEF Follows, fileVars
<1> QED BY <1>1, <1>4 DEF MemInv, NoChildYet, fileVars

\* A command goes behind those that are there.
LEMMA PutInv ==
  ASSUME MemInv, forks = 0, forks' = 0, up, up' = up, NEW c \in Cell, c.id = commands,
         Room, Put(c), commands' = commands + 1, children' = {}
  PROVE  MemInv'
<1>1. NoChildYet
  BY DEF MemInv
<1>2. PICK n \in Nat : Follows(files[1], n)
  BY <1>1 DEF NoChildYet
<1>3. seek = n /\ commands \in Nat /\ 1 \in Inode /\ DOMAIN files = Inode /\ AofLength \in Nat
  BY <1>1, <1>2, FileAssumption DEF Follows, NoChildYet, Inode
<1>4. PICK file : file = files[1]
  OBVIOUS
<1>5. /\ file \in Seq(Cell) /\ Len(file) = AofLength /\ n + 1 \in 1..Len(file)
      /\ \A i \in 1..n : file[i].id \in 0..commands - 1
      /\ \A i \in 1..n - 1 : file[i].id < file[i + 1].id
      /\ \A i \in n + 1..Len(file) : file[i] = Zeros
  BY <1>2, <1>3, <1>4 DEF Follows, Room
<1>6. PICK new : new = [file EXCEPT ![n + 1] = c]
  OBVIOUS
<1>7. /\ new \in Seq(Cell) /\ Len(new) = AofLength
      /\ \A i \in 1..Len(file) : new[i] = IF i = n + 1 THEN c ELSE file[i]
  BY <1>5, <1>6, ExceptSeq
<1>8. /\ files' = [files EXCEPT ![1] = new] /\ seek' = n + 1
      /\ aofState' = "Sync" /\ UNCHANGED <<aof, rewritten>> /\ signalled' = FALSE
  BY <1>1, <1>3, <1>4, <1>6 DEF Put, NoChildYet, MayBeMissed
<1>9. files'[1] = new /\ DOMAIN files' = Inode
  BY <1>3, <1>8
<1>10. \A i \in 1..n + 1 : new[i].id \in 0..commands' - 1
  <2>1. ASSUME NEW i \in 1..n + 1
        PROVE  new[i].id \in 0..commands' - 1
    <3>1. CASE i = n + 1
      BY <1>3, <1>5, <1>7, <3>1
    <3>2. CASE i # n + 1
      BY <1>3, <1>5, <1>7, <3>2
    <3> QED BY <3>1, <3>2
  <2> QED BY <2>1
<1>11. \A i \in 1..(n + 1) - 1 : new[i].id < new[i + 1].id
  <2>1. ASSUME NEW i \in 1..n
        PROVE  new[i].id < new[i + 1].id
    <3>1. new[i] = file[i] /\ file[i].id \in 0..commands - 1
      BY <1>5, <1>7
    <3>2. CASE i = n
      BY <1>3, <1>5, <1>7, <3>1, <3>2
    <3>3. CASE i # n
      BY <1>5, <1>7, <3>1, <3>3
    <3> QED BY <3>2, <3>3
  <2> QED BY <2>1
<1>12. \A i \in (n + 1) + 1..Len(new) : new[i] = Zeros
  BY <1>3, <1>5, <1>7
<1>13. Follows(new, n + 1)'
  BY <1>3, <1>5, <1>7, <1>8, <1>10, <1>11, <1>12 DEF Follows
<1>14. n + 1 \in Nat /\ commands' \in Nat /\ up' \in BOOLEAN
  BY <1>1, <1>3 DEF NoChildYet
<1> QED BY <1>1, <1>8, <1>9, <1>13, <1>14 DEF MemInv, NoChildYet

LEMMA CommandInv ==
  ASSUME MemInv, NEW c \in Cell, c.id = commands, Command(c)
  PROVE  MemInv'
<1>1. PICK m : AppendAof(c, m)
  BY DEF Command
<1>2. up /\ commands' = commands + 1 /\ forks \in Nat /\ forks' \in {forks, forks + 1}
  BY <1>1 DEF Command, MemInv, AppendAof
<1>3. CASE forks' # 0
  BY <1>2, <1>3 DEF MemInv
<1>4. CASE forks' = 0
  <2>1. forks = 0 /\ NoChildYet /\ ~Rewrites
    BY <1>1, <1>2, <1>4 DEF MemInv, AppendAof
  <2>2. commands \in Nat /\ commands' \in Nat /\ commands' >= commands
    BY <1>2, <2>1 DEF NoChildYet
  <2>3. CASE Takes(c) /\ up' = up /\ children' = children
    <3>1. children' = {} /\ up' \in BOOLEAN
      BY <2>1, <2>3 DEF NoChildYet
    <3>2. CASE Room /\ Put(c)
      BY <1>2, <1>4, <2>1, <2>3, <3>1, <3>2, PutInv
    <3>3. CASE UNCHANGED <<fileVars, seek, aofState, signalled>>
      BY <1>2, <1>4, <2>1, <2>2, <2>3, <3>1, <3>3, FileStaysInv DEF NoChildYet
    <3> QED BY <2>1, <2>3, <3>2, <3>3 DEF Takes, NoChildYet
  <2>4. CASE End /\ children' = Orphaned(children)
    <3>1. children' = {} /\ up' = FALSE /\ signalled' = FALSE /\ aofState' # "ReWrittened" /\ UNCHANGED fileVars
      BY <2>1, <2>4 DEF End, Orphaned, NoChildYet
    <3> QED BY <1>4, <2>1, <2>2, <3>1, FileStaysInv
  <2> QED BY <1>1, <2>1, <2>3, <2>4 DEF AppendAof
<1> QED BY <1>3, <1>4

\* Until the first rewrite the file holds the commands in the order in which they
\* were carried out, and the next goes behind them, over any number of crashes and
\* restarts, for files of any length (memcachedserver.cpp:86, :144, :167).
THEOREM FileKeepsCommands == SpecMem => []FileFollowsCommands
<1>1. InitMem => MemInv
  <2> SUFFICES ASSUME InitMem PROVE MemInv
    OBVIOUS
  <2>1. 1 \in Inode /\ files[1] = <<>> /\ DOMAIN files = Inode /\ up = FALSE /\ commands = 0
    BY FileAssumption DEF InitMem, Inode
  <2>2. Follows(files[1], 0)
    BY <2>1, EmptySeq DEF Follows
  <2>3. \E n \in Nat : Follows(files[1], n)
    BY <2>2
  <2>4. NoChildYet
    <3>1. /\ aof = 1 /\ rewritten = None /\ children = {} /\ signalled = FALSE
          /\ aofState = "Init"
      BY DEF InitMem
    <3>2. up \in BOOLEAN /\ commands \in Nat
      BY <2>1
    <3> QED BY <2>1, <2>3, <3>1, <3>2 DEF NoChildYet
  <2> QED BY <2>4 DEF InitMem, MemInv
<1>2. MemInv /\ [NextMem]_memVars => MemInv'
  <2> SUFFICES ASSUME MemInv, [NextMem]_memVars PROVE MemInv'
    OBVIOUS
  <2>1. CASE UNCHANGED memVars
    BY <2>1 DEF memVars, fileVars, MemInv, NoChildYet, Follows
  <2>2. CASE Run
    BY <2>2, RunInv
  <2>3. CASE Crash \/ AofSync \/ SetReWrittened
    <3>1. forks' = forks /\ commands' = commands /\ UNCHANGED fileVars
      BY <2>3 DEF Crash, AofSync, SetReWrittened, End
    <3>2. CASE forks = 0
      <4>1. NoChildYet /\ commands \in Nat
        BY <3>2 DEF MemInv, NoChildYet
      <4>2. /\ up' \in BOOLEAN /\ (up' => up /\ seek' = seek)
            /\ children' = {} /\ signalled' = FALSE /\ aofState' # "ReWrittened"
        BY <2>3, <4>1 DEF NoChildYet, Crash, AofSync, SetReWrittened, End, Orphaned, MayBeMissed
      <4>3. commands' \in Nat /\ commands' >= commands /\ forks' = 0
        BY <3>1, <3>2, <4>1
      <4> QED BY <3>1, <3>2, <4>2, <4>3, FileStaysInv
    <3>3. CASE forks # 0
      BY <3>1, <3>3 DEF MemInv
    <3> QED BY <3>2, <3>3
  <2>4. ASSUME NEW k \in Key, Delete(k)
        PROVE  MemInv'
    <3>1. PICK c : c = [id |-> commands, op |-> "delete", key |-> k, value |-> 0, flag |-> 0]
      OBVIOUS
    <3>2. Command(c) /\ c.id = commands
      BY <2>4, <3>1 DEF Delete
    <3>3. CASE forks = 0
      <4>1. c \in Cell
        BY <3>1, <3>3 DEF Cell, MemInv, NoChildYet
      <4> QED BY <3>2, <4>1, CommandInv
    <3>4. CASE forks # 0
      BY <3>2, <3>4 DEF MemInv, Command, AppendAof
    <3> QED BY <3>3, <3>4
  <2>5. ASSUME NEW k \in Key, NEW v \in Data, NEW f \in Flag, Set(k, v, f)
        PROVE  MemInv'
    <3>1. PICK c : c = [id |-> commands, op |-> "set", key |-> k, value |-> v, flag |-> f]
      OBVIOUS
    <3>2. Command(c) /\ c.id = commands
      BY <2>5, <3>1 DEF Set
    <3>3. CASE forks = 0
      <4>1. c \in Cell
        BY <3>1, <3>3 DEF Cell, MemInv, NoChildYet
      <4> QED BY <3>2, <4>1, CommandInv
    <3>4. CASE forks # 0
      BY <3>2, <3>4 DEF MemInv, Command, AppendAof
    <3> QED BY <3>3, <3>4
  <2>6. ASSUME NEW ch \in children, ChildOpen(ch) \/ ChildWrite(ch) \/ ChildExit(ch)
        PROVE  MemInv'
    <3>1. forks # 0 /\ forks' = forks
      BY <2>6 DEF MemInv, NoChildYet, ChildOpen, ChildWrite, ChildExit
    <3> QED BY <3>1 DEF MemInv
  <2> QED BY <2>1, <2>2, <2>3, <2>4, <2>5, <2>6 DEF NextMem
<1>3. MemInv => FileFollowsCommands
  <2> SUFFICES ASSUME MemInv, forks = 0 PROVE FileFollowsCommands
    BY DEF FileFollowsCommands
  <2>1. NoChildYet
    BY DEF MemInv
  <2>2. PICK n \in Nat : Follows(files[1], n)
    BY <2>1 DEF NoChildYet
  <2>3. PICK file : file = files[1] /\ file = files[aof]
    BY <2>1 DEF NoChildYet
  <2>4. Len(file) \in Nat /\ n \in 0..Len(file) /\ (\A i \in 1..n : file[i].id \in Nat)
        /\ \A i \in n + 1..Len(file) : file[i] = Zeros
    BY <2>1, <2>2, <2>3, LenProperties DEF Follows, NoChildYet
  <2>5. Readable(file) = n
    BY <2>4, ReadableIs
  <2> QED BY <2>1, <2>2, <2>3, <2>4, <2>5 DEF FileFollowsCommands, Follows
<1> QED BY <1>1, <1>2, <1>3, PTL DEF SpecMem
=============================================================================
