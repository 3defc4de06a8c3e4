-------------------------- MODULE EventLoopProofs --------------------------
(***************************************************************************)
(* Proofs about the event loop and its timers: no wake-up is lost, the     *)
(* descriptor is armed whenever the loop waits, no timer runs too often,   *)
(* and functors run once and in the order in which they were queued, for   *)
(* any threads, timers, functors and bound of the clock.                   *)
(***************************************************************************)
EXTENDS TimerQueue, FiniteSetTheorems, WellFoundedInduction, TLAPS

LEMMA InitWakeupInv == Init => WakeupInv
  BY DEF Init, InitLoop, WakeupInv, WakeupNotLost

\* A call from within a callback wakes the loop if functors are running, and
\* queues nothing that others than the loop would have to take.
LEMMA CallWakes ==
  ASSUME Call, at' = at, waking' = waking, at # "poll", WakeupInv
  PROVE  WakeupInv'
<1>1. CASE CallQueue
  BY <1>1 DEF CallQueue, QueueHere, WakesItself, WakeupInv, WakeupNotLost
<1>2. CASE CallNothing \/ CallAdd \/ CallCancel \/ CallQuit
  <2>1. pending' = pending /\ wakeupfd' = wakeupfd
    BY <1>2 DEF CallNothing, CallAdd, CallCancel, CallQuit
  <2> QED BY <2>1 DEF WakeupInv, WakeupNotLost
<1> QED BY <1>1, <1>2 DEF Call

LEMMA LoopStepWakeupInv == WakeupInv /\ LoopStep => WakeupInv'
<1> SUFFICES ASSUME WakeupInv, LoopStep PROVE WakeupInv'
  OBVIOUS
<1> USE DEF WakeupInv, WakeupNotLost
<1>1. CASE PollTimers
  BY <1>1 DEF PollTimers, Poll
<1>2. CASE HandleIo
  BY <1>2, CallWakes DEF HandleIo, Handle
<1>3. CASE ReadTimers
  BY <1>3 DEF ReadTimers
<1>4. CASE \E t \in Timer : RunTimer(t)
  BY <1>4, CallWakes DEF RunTimer
<1>5. CASE ResetTimers
  BY <1>5 DEF ResetTimers
<1>6. CASE RunFunctor
  <2>1. at = "functors" /\ at' = at /\ waking' = waking
    BY <1>6 DEF RunFunctor
  <2>2. Call \/ (pending' = pending /\ wakeupfd' = wakeupfd)
    BY <1>6 DEF RunFunctor
  <2> QED BY <2>1, <2>2, CallWakes
<1>7. CASE HandleWakeup \/ TakeFunctors \/ EndRound
  BY <1>7 DEF HandleWakeup, Handle, TakeFunctors, EndRound, Again
<1> QED BY <1>1, <1>2, <1>3, <1>4, <1>5, <1>6, <1>7 DEF LoopStep

LEMMA CallFromWakeupInv ==
  ASSUME NEW c \in Thread, WakeupInv, AddFrom(c) \/ CancelFrom(c) \/ CallFrom(c)
  PROVE  WakeupInv'
<1> USE DEF WakeupInv, WakeupNotLost
<1>1. CASE \E f : Push(c, f)
  BY <1>1 DEF Push
<1>2. CASE QuitFrom(c)
  BY <1>2 DEF QuitFrom
<1>3. CASE Wakeup(c)
  BY <1>3 DEF Wakeup
<1> QED BY <1>1, <1>2, <1>3 DEF AddFrom, CancelFrom, CallFrom

\* No wake-up is lost (queueInLoop and quit, eventloop.cc:132-166): the loop
\* never waits beside a queued functor or a quit that nobody wakes it for.
THEOREM WakeupsAreNotLost == Spec => []WakeupNotLost
<1>1. WakeupInv /\ [Next]_vars => WakeupInv'
  <2> SUFFICES ASSUME WakeupInv, [Next]_vars PROVE WakeupInv'
    OBVIOUS
  <2>1. CASE LoopStep
    BY <2>1, LoopStepWakeupInv
  <2>2. CASE \E c \in Thread : AddFrom(c) \/ CancelFrom(c) \/ CallFrom(c)
    BY <2>2, CallFromWakeupInv
  <2>3. CASE Tick \/ UNCHANGED vars
    BY <2>3 DEF Tick, vars, loopVars, WakeupInv, WakeupNotLost
  <2> QED BY <2>1, <2>2, <2>3 DEF Next
<1>2. WakeupInv => WakeupNotLost
  BY DEF WakeupInv
<1> QED BY InitWakeupInv, <1>1, <1>2, PTL DEF Spec
-----------------------------------------------------------------------------
(* The timers.                                                             *)

\* Every set of numbers that has an element has a least one.
LEMMA NatHasMin ==
  ASSUME NEW T, T \subseteq Nat, T # {}
  PROVE  \E x \in T : \A y \in T : x <= y
<1> DEFINE Below(x) == {y \in T : y < x}
           F == {Below(x) : x \in T}
           R == StrictSubsetOrdering(T)
<1>1. ASSUME NEW x \in T PROVE IsFiniteSet(Below(x))
  <2>1. x \in Nat /\ Below(x) \in SUBSET Nat
    OBVIOUS
  <2>2. \A s \in Below(x) : s <= x
    BY <2>1
  <2> HIDE DEF Below
  <2> QED BY <2>1, <2>2, FS_BoundedSetOfNaturals
<1>2. F \subseteq FiniteSubsetsOf(T) /\ F # {}
  BY <1>1 DEF FiniteSubsetsOf
<1>3. IsWellFoundedOn(R, FiniteSubsetsOf(T))
  BY FS_StrictSubsetOrderingWellFounded
<1>4. PICK D \in F : \A E \in F : <<E, D>> \notin R
  <2> HIDE DEF F, R
  <2> QED BY <1>2, <1>3, WFMin
<1>5. PICK x \in T : D = Below(x)
  OBVIOUS
<1>6. ASSUME NEW y \in T, y < x PROVE FALSE
  <2>1. Below(y) \in F
    OBVIOUS
  <2>2. x \in Nat /\ y \in Nat
    OBVIOUS
  <2>3. ASSUME NEW z \in Below(y) PROVE z \in Below(x)
    <3>1. z \in T /\ z \in Nat /\ z < y
      OBVIOUS
    <3> QED BY <1>6, <2>2, <3>1
  <2>4. y \in Below(x) /\ y \notin Below(y)
    BY <1>6, <2>2
  <2>5. Below(x) \in SUBSET T /\ Below(y) \in SUBSET T
    OBVIOUS
  <2>6. <<Below(y), Below(x)>> \in R
    <3> HIDE DEF Below
    <3> QED BY <2>3, <2>4, <2>5 DEF StrictSubsetOrdering
  <2> QED BY <2>1, <2>6, <1>4, <1>5
<1> QED BY <1>6

\* What a functor in the queue may be.
Functor == [do : {"user"}, id : Task] \cup [do : {"add", "cancel"}, id : Timer]

TimerTypes ==
    /\ taken \in Seq(Functor) /\ pending \in Seq(Functor)
    /\ clock \in Nat /\ clock >= 1
    /\ readAt \in 0 .. clock
    /\ timerfd \in Nat
    /\ life \in [Timer -> Lives]
    /\ expiration \in [Timer -> Nat]
    /\ interval \in [Timer -> Nat]
    /\ fired \in [Timer -> Nat]
    /\ torun \subseteq Timer

\* A timer that was made is never set for time 0, which disarms the descriptor.
MadeForLater == \A t \in Timer : life[t] # "none" => expiration[t] >= 1

\* A queued functor adds a timer that nothing has added yet.
Adds(q, i) == i \in DOMAIN q /\ q[i].do = "add"
AddedOnce ==
    /\ \A i \in Nat : Adds(taken, i) => life[taken[i].id] = "new"
    /\ \A i \in Nat : Adds(pending, i) => life[pending[i].id] = "new"
    /\ \A i, j \in Nat : Adds(taken, i) /\ Adds(taken, j) /\ taken[i].id = taken[j].id => i = j
    /\ \A i, j \in Nat :
          Adds(pending, i) /\ Adds(pending, j) /\ pending[i].id = pending[j].id => i = j
    /\ \A i, j \in Nat : Adds(taken, i) /\ Adds(pending, j) => taken[i].id # pending[j].id

\* Why TimersAreArmed holds: the descriptor is disarmed only while the timers
\* that expired are out of the queue.
Armed ==
    /\ at = "expired" => readAt >= 1
    /\ at # "expired" => \A t \in Active : timerfd # 0 /\ timerfd <= expiration[t]

\* Why NotTooOften holds: a timer in the queue is set for a time by which one
\* more of its intervals has passed.
Due(t) ==
    /\ fired[t] * interval[t] + interval[t] <= expiration[t] - 1
    /\ interval[t] = 0 => fired[t] = 0
Paced ==
    /\ torun \subseteq Expired
    /\ at # "expired" => Expired = {}
    /\ \A t \in Timer :
          /\ life[t] = "none" => fired[t] = 0
          /\ life[t] \in {"new", "active"} \/ t \in torun => Due(t)
          /\ t \in torun => expiration[t] <= readAt
          /\ t \in Expired \ torun => fired[t] * interval[t] <= readAt - 1

TimerInv == TimerTypes /\ MadeForLater /\ AddedOnce /\ Armed /\ Paced /\ NotTooOften

\* What a step does to a timer outside of getExpired and reset: nothing, or
\* it is made, added to the queue or cancelled.
Untouched(t) == life'[t] = life[t] /\ expiration'[t] = expiration[t] /\ interval'[t] = interval[t]
Made(t) ==
    /\ life[t] = "none" /\ life'[t] \in {"new", "active"}
    /\ expiration'[t] >= clock
    /\ interval'[t] = 0 \/ expiration'[t] = clock + interval'[t]
Moved(t) ==
    /\ <<life[t], life'[t]>> \in {<<"new", "active">>, <<"active", "deleted">>}
    /\ expiration'[t] = expiration[t] /\ interval'[t] = interval[t]
Aging ==
    /\ timerfd' \in Nat
    /\ life' \in [Timer -> Lives]
    /\ expiration' \in [Timer -> Nat]
    /\ interval' \in [Timer -> Nat]
    /\ \A t \in Timer : Untouched(t) \/ Made(t) \/ Moved(t)

AllArmed == \A t \in Active : timerfd # 0 /\ timerfd <= expiration[t]

LEMMA MakeEffect ==
  ASSUME TimerTypes, NEW t \in Timer, NEW w \in Whens, Make(t, w[1], w[2])
  PROVE  /\ w[1] \in Nat /\ w[1] >= clock
         /\ life[t] = "none"
         /\ expiration' \in [Timer -> Nat] /\ interval' \in [Timer -> Nat]
         /\ expiration'[t] = w[1] /\ interval'[t] = w[2]
         /\ w[2] = 0 \/ w[1] = clock + w[2]
         /\ \A u \in Timer \ {t} : expiration'[u] = expiration[u] /\ interval'[u] = interval[u]
<1>1. /\ w[1] \in Nat /\ w[2] \in Nat /\ w[1] >= clock
      /\ w[2] = 0 \/ w[1] = clock + w[2]
  BY DEF Whens, Make, TimerTypes
<1> QED BY <1>1 DEF Make, TimerTypes

\* A timer that is put into the queue is armed for, with the ones before it.
LEMMA InsertEffect ==
  ASSUME TimerTypes, NEW t \in Timer, Insert(t, expiration'[t]), expiration' \in [Timer -> Nat],
         expiration'[t] >= 1, life[t] \in {"none", "new"},
         \A u \in Timer \ {t} : expiration'[u] = expiration[u]
  PROVE  /\ timerfd' \in Nat
         /\ life' \in [Timer -> Lives]
         /\ life'[t] = "active"
         /\ \A u \in Timer \ {t} : life'[u] = life[u]
         /\ AllArmed => AllArmed'
<1>1. /\ timerfd' \in Nat
      /\ life' \in [Timer -> Lives]
      /\ life'[t] = "active"
      /\ \A u \in Timer \ {t} : life'[u] = life[u]
  BY DEF Insert, TimerTypes, Lives
<1>2. ASSUME AllArmed, NEW u \in Active' PROVE timerfd' # 0 /\ timerfd' <= expiration'[u]
  <2>1. u \in Timer /\ (u = t \/ u \in Active)
    BY <1>1, <1>2 DEF Active
  <2>2. CASE IsEarliest(expiration'[t])
    <3>1. timerfd' = expiration'[t]
      BY <2>2 DEF Insert
    <3>2. CASE u = t
      BY <3>1, <3>2
    <3>3. CASE u # t
      BY <2>1, <2>2, <3>1, <3>3 DEF IsEarliest, TimerTypes
    <3> QED BY <3>2, <3>3
  <2>3. CASE ~ IsEarliest(expiration'[t])
    <3>1. timerfd' = timerfd
      BY <2>3 DEF Insert
    <3>2. PICK x \in Active : ~ (expiration'[t] < expiration[x])
      BY <2>3 DEF IsEarliest
    <3>3. /\ timerfd # 0 /\ timerfd <= expiration[x] /\ expiration[x] <= expiration'[t]
          /\ timerfd \in Nat /\ expiration[x] \in Nat
      BY <1>2, <3>2 DEF AllArmed, Active, TimerTypes
    <3>4. CASE u = t
      BY <3>1, <3>3, <3>4
    <3>5. CASE u # t
      <4>1. u \in Active /\ expiration'[u] = expiration[u]
        BY <2>1, <3>5
      <4> QED BY <1>2, <3>1, <4>1 DEF AllArmed
    <3> QED BY <3>4, <3>5
  <2> QED BY <2>2, <2>3
<1> QED BY <1>1, <1>2 DEF AllArmed

\* Cancelling takes at most one timer out of the queue.
LEMMA CancelEffect ==
  ASSUME TimerTypes, NEW t, Cancel(Timerid(t))
  PROVE  /\ life' \in [Timer -> Lives]
         /\ \A u \in Timer : \/ life'[u] = life[u]
                             \/ life[u] = "active" /\ life'[u] = "deleted"
<1>1. CASE \E u \in Active : ActiveTimer(u) = Timerid(t)
  <2>1. PICK u \in Active : ActiveTimer(u) = Timerid(t)
    BY <1>1
  <2>2. Timerid(t).timer = u
    BY <2>1 DEF ActiveTimer, Timerid
  <2>3. life' = [life EXCEPT ![u] = "deleted"]
    BY <1>1, <2>2 DEF Cancel
  <2> QED BY <2>3 DEF Active, TimerTypes, Lives
<1>2. CASE ~ \E u \in Active : ActiveTimer(u) = Timerid(t)
  BY <1>2 DEF Cancel, TimerTypes
<1> QED BY <1>1, <1>2

\* A call from within a callback.
LEMMA CallEffect ==
  ASSUME TimerTypes, Call
  PROVE  /\ Aging
         /\ AllArmed => AllArmed'
         /\ \A t \in Timer : life[t] = "new" => life'[t] = "new"
<1> USE DEF Aging, Untouched, Made, Moved
<1>1. CASE CallNothing \/ CallQueue \/ CallQuit
  BY <1>1 DEF CallNothing, CallQueue, CallQuit, timerVars, TimerTypes, AllArmed, Active
<1>2. CASE CallAdd
  <2>1. PICK t \in Timer, w \in Whens : Make(t, w[1], w[2]) /\ Insert(t, w[1])
    BY <1>2 DEF CallAdd
  <2>2. /\ w[1] \in Nat /\ w[1] >= clock
        /\ life[t] = "none"
        /\ expiration' \in [Timer -> Nat] /\ interval' \in [Timer -> Nat]
        /\ expiration'[t] = w[1] /\ interval'[t] = w[2]
        /\ w[2] = 0 \/ w[1] = clock + w[2]
        /\ \A u \in Timer \ {t} : expiration'[u] = expiration[u] /\ interval'[u] = interval[u]
    BY <2>1, MakeEffect
  <2>3. /\ timerfd' \in Nat
        /\ life' \in [Timer -> Lives]
        /\ life'[t] = "active"
        /\ \A u \in Timer \ {t} : life'[u] = life[u]
        /\ AllArmed => AllArmed'
    <3>1. Insert(t, expiration'[t]) /\ expiration'[t] >= 1
      BY <2>1, <2>2 DEF TimerTypes
    <3> QED BY <2>2, <3>1, InsertEffect
  <2>4. Made(t)
    BY <2>2, <2>3
  <2> QED BY <2>2, <2>3, <2>4
<1>3. CASE CallCancel
  <2>1. PICK t \in Timer : Cancel(Timerid(t))
    BY <1>3 DEF CallCancel
  <2>2. /\ life' \in [Timer -> Lives]
        /\ \A u \in Timer : \/ life'[u] = life[u]
                            \/ life[u] = "active" /\ life'[u] = "deleted"
    BY <2>1, CancelEffect
  <2>3. timerfd' = timerfd /\ expiration' = expiration /\ interval' = interval
    BY <1>3 DEF CallCancel
  <2>4. AllArmed => AllArmed'
    BY <2>2, <2>3 DEF AllArmed, Active
  <2> QED BY <2>2, <2>3, <2>4 DEF TimerTypes
<1> QED BY <1>1, <1>2, <1>3 DEF Call

LEMMA OneMore ==
  ASSUME NEW n \in Nat, NEW step \in Nat
  PROVE  (n + 1) * step = n * step + step
OBVIOUS

LEMMA StillBelow ==
  ASSUME NEW x \in Nat, NEW y \in Nat, NEW e \in Nat, NEW r \in Nat, NEW c \in Nat,
         x + y <= e - 1, e <= r, r <= c
  PROVE  x + y <= r - 1 /\ x + y <= c - 1
OBVIOUS

\* Timers keep their pace in a step that runs the callbacks of the set R.
LEMMA PaceKept ==
  ASSUME TimerInv, Aging, at' # "expired" => at # "expired", readAt' = readAt,
         clock' \in {clock, clock + 1},
         NEW R \in SUBSET torun, torun' = torun \ R,
         fired' = [t \in Timer |-> IF t \in R THEN fired[t] + 1 ELSE fired[t]]
  PROVE  /\ MadeForLater' /\ Paced' /\ NotTooOften'
         /\ fired' \in [Timer -> Nat] /\ torun' \subseteq Timer
         /\ clock' \in Nat /\ clock' >= 1 /\ readAt' \in 0 .. clock'
<1> USE DEF TimerInv, TimerTypes
<1>1. /\ clock' \in Nat /\ clock' >= clock /\ clock' >= 1 /\ readAt' \in 0 .. clock'
      /\ readAt \in Nat
      /\ fired' \in [Timer -> Nat] /\ torun' \subseteq Timer /\ torun \subseteq Expired
  BY DEF Paced
<1>2. ASSUME NEW t \in Timer
      PROVE  /\ life'[t] # "none" => expiration'[t] >= 1
             /\ t \in Expired <=> t \in Expired'
             /\ life'[t] = "none" => fired'[t] = 0
             /\ life'[t] \in {"new", "active"} \/ t \in torun' => Due(t)'
             /\ t \in torun' => expiration'[t] <= readAt
             /\ t \in Expired' \ torun' => fired'[t] * interval'[t] <= readAt - 1
             /\ IF interval'[t] = 0 THEN fired'[t] <= 1
                ELSE fired'[t] * interval'[t] <= clock' - 1
  <2>1. /\ fired[t] \in Nat /\ interval[t] \in Nat /\ expiration[t] \in Nat
        /\ fired'[t] \in Nat /\ interval'[t] \in Nat /\ expiration'[t] \in Nat
        /\ fired[t] * interval[t] \in Nat
    BY <1>1 DEF Aging
  <2>2. /\ life[t] = "none" => fired[t] = 0
        /\ life[t] # "none" => expiration[t] >= 1
        /\ life[t] \in {"new", "active"} \/ t \in torun =>
              /\ fired[t] * interval[t] + interval[t] <= expiration[t] - 1
              /\ interval[t] = 0 => fired[t] = 0
        /\ t \in torun => expiration[t] <= readAt
        /\ t \in Expired \ torun => fired[t] * interval[t] <= readAt - 1
        /\ IF interval[t] = 0 THEN fired[t] <= 1 ELSE fired[t] * interval[t] <= clock - 1
    BY DEF Paced, Due, MadeForLater, NotTooOften
  <2>3. CASE Untouched(t) /\ t \notin R
    <3>1. life'[t] = life[t] /\ expiration'[t] = expiration[t] /\ interval'[t] = interval[t]
          /\ fired'[t] = fired[t] /\ (t \in torun' <=> t \in torun)
      BY <2>3 DEF Untouched
    <3> DEFINE x == fired[t] * interval[t]
    <3>2. fired'[t] * interval'[t] = x /\ x \in Nat
      BY <2>1, <3>1
    <3> HIDE DEF x
    <3>3. IF interval'[t] = 0 THEN fired'[t] <= 1 ELSE x <= clock' - 1
      BY <1>1, <2>1, <2>2, <3>1 DEF x
    <3> QED BY <1>1, <2>2, <3>1, <3>2, <3>3 DEF Expired, Due, x
  <2>4. CASE Untouched(t) /\ t \in R
    <3>1. /\ life'[t] = life[t] /\ expiration'[t] = expiration[t] /\ interval'[t] = interval[t]
          /\ fired'[t] = fired[t] + 1 /\ t \in torun /\ t \notin torun' /\ life[t] = "expired"
      BY <1>1, <2>4 DEF Untouched, Expired
    <3>2. (fired[t] + 1) * interval[t] = fired[t] * interval[t] + interval[t]
      BY <2>1, OneMore
    <3>3. PICK x \in Nat, y \in Nat : x = fired[t] * interval[t] /\ y = interval[t]
      BY <2>1
    <3>4. fired'[t] * interval'[t] = x + y
      BY <3>1, <3>2, <3>3
    <3>5. x + y <= expiration[t] - 1 /\ expiration[t] <= readAt /\ expiration[t] \in Nat
      BY <2>1, <2>2, <3>1, <3>3
    <3>6. PICK e \in Nat, r \in Nat, c \in Nat : e = expiration[t] /\ r = readAt /\ c = clock' /\ r <= c
      BY <1>1, <2>1
    <3>7. x + y <= r - 1 /\ x + y <= c - 1
      <4>1. x + y <= e - 1 /\ e <= r /\ r <= c
        BY <3>5, <3>6
      <4> QED BY <4>1, StillBelow
    <3>8. interval'[t] = 0 => fired'[t] <= 1
      BY <2>1, <2>2, <3>1
    <3> QED BY <2>2, <3>1, <3>4, <3>6, <3>7, <3>8 DEF Expired
  <2>5. CASE Made(t)
    <3>1. t \notin R /\ t \notin torun' /\ fired'[t] = 0 /\ t \notin Expired /\ t \notin Expired'
      BY <1>1, <2>2, <2>5 DEF Made, Expired
    <3>2. fired'[t] * interval'[t] = 0
      BY <2>1, <3>1
    <3>3. Due(t)'
      BY <2>1, <2>5, <3>1, <3>2 DEF Due, Made
    <3> QED BY <1>1, <2>1, <2>5, <3>1, <3>2, <3>3 DEF Made
  <2>6. CASE Moved(t)
    <3>1. /\ t \notin R /\ t \notin torun' /\ t \notin Expired /\ t \notin Expired'
          /\ fired'[t] = fired[t] /\ life[t] \in {"new", "active"}
          /\ life'[t] # "none"
          /\ expiration'[t] = expiration[t] /\ interval'[t] = interval[t]
      BY <1>1, <2>6 DEF Moved, Expired
    <3> DEFINE x == fired[t] * interval[t]
    <3>2. fired'[t] * interval'[t] = x /\ x \in Nat
      BY <2>1, <3>1
    <3> HIDE DEF x
    <3>3. IF interval'[t] = 0 THEN fired'[t] <= 1 ELSE x <= clock' - 1
      BY <1>1, <2>1, <2>2, <3>1 DEF x
    <3> QED BY <1>1, <2>2, <3>1, <3>2, <3>3 DEF Due, x
  <2> QED BY <2>3, <2>4, <2>5, <2>6 DEF Aging
<1> QED BY <1>1, <1>2 DEF MadeForLater, Paced, NotTooOften, Expired

\* Whoever calls, the timers that a functor is still to add stay as they are.
LEMMA QueueKept ==
  ASSUME TimerTypes, AddedOnce, taken' = taken,
         \/ pending' = pending
         \/ \E f \in Functor : f.do # "add" /\ pending' = Append(pending, f),
         \A t \in Timer : life[t] = "new" => life'[t] = "new"
  PROVE  AddedOnce' /\ pending' \in Seq(Functor)
<1>1. taken \in Seq(Functor) /\ pending \in Seq(Functor)
  BY DEF TimerTypes
<1> USE DEF Adds
<1>2. /\ pending' \in Seq(Functor)
      /\ \A i \in Nat : Adds(pending', i) => Adds(pending, i) /\ pending'[i] = pending[i]
  <2>1. ASSUME NEW f \in Functor, f.do # "add", pending' = Append(pending, f)
        PROVE  /\ pending' \in Seq(Functor)
               /\ \A i \in Nat : Adds(pending', i) => Adds(pending, i) /\ pending'[i] = pending[i]
    <3>1. /\ pending' \in Seq(Functor) /\ Len(pending') = Len(pending) + 1
          /\ \A i \in 1 .. Len(pending) : pending'[i] = pending[i]
          /\ pending'[Len(pending) + 1] = f
      BY <1>1, <2>1
    <3> QED BY <1>1, <2>1, <3>1
  <2> QED BY <1>1, <2>1
<1>3. ASSUME NEW q \in {taken, pending}, NEW i \in Nat, Adds(q, i) PROVE q[i].id \in Timer
  <2>1. q[i] \in Functor
    BY <1>1, <1>3
  <2> QED BY <1>3, <2>1 DEF Functor
<1> HIDE DEF Adds
<1>4. \A i \in Nat : Adds(taken', i) <=> Adds(taken, i)
  OBVIOUS
<1> QED BY <1>2, <1>3, <1>4 DEF AddedOnce

LEMMA CallQueueEffect ==
  ASSUME TimerTypes, Call
  PROVE  \/ pending' = pending
         \/ \E f \in Functor : f.do # "add" /\ pending' = Append(pending, f)
<1>1. CASE CallQueue
  <2>1. PICK k \in Task : pending' = Append(pending, User(k))
    BY <1>1 DEF CallQueue, QueueHere
  <2>2. User(k) \in Functor /\ User(k).do # "add"
    BY DEF User, Functor
  <2> QED BY <2>1, <2>2
<1> QED BY <1>1 DEF Call, CallNothing, CallAdd, CallCancel, CallQuit

LEMMA InitTimerInv == Init => TimerInv
<1> SUFFICES ASSUME Init PROVE TimerInv
  OBVIOUS
<1> USE DEF Init, InitLoop
<1>1. TimerTypes
  BY DEF TimerTypes, Lives
<1>2. MadeForLater /\ Armed /\ Paced /\ NotTooOften
  BY DEF MadeForLater, Armed, Paced, NotTooOften, Active, Expired, Due
<1>3. AddedOnce
  BY DEF AddedOnce, Adds
<1> QED BY <1>1, <1>2, <1>3 DEF TimerInv

\* The steps that run callbacks outside of doPendingFunctors.
LEMMA CallbackInv ==
  ASSUME TimerInv, HandleIo \/ \E t \in Timer : RunTimer(t)
  PROVE  TimerInv'
<1>1. /\ TimerTypes /\ AddedOnce /\ Armed /\ Call
      /\ taken' = taken /\ at' = at /\ readAt' = readAt /\ clock' = clock
  BY DEF TimerInv, HandleIo, RunTimer
<1>2. Aging /\ (AllArmed => AllArmed') /\ \A t \in Timer : life[t] = "new" => life'[t] = "new"
  BY <1>1, CallEffect
<1>3. AddedOnce' /\ pending' \in Seq(Functor)
  BY <1>1, <1>2, CallQueueEffect, QueueKept
<1>4. /\ MadeForLater' /\ Paced' /\ NotTooOften'
      /\ fired' \in [Timer -> Nat] /\ torun' \subseteq Timer
      /\ clock' \in Nat /\ clock' >= 1 /\ readAt' \in 0 .. clock'
  <2>1. PICK R \in SUBSET torun :
            /\ torun' = torun \ R
            /\ fired' = [t \in Timer |-> IF t \in R THEN fired[t] + 1 ELSE fired[t]]
    <3>1. CASE HandleIo
      <4>1. fired' = [t \in Timer |-> IF t \in {} THEN fired[t] + 1 ELSE fired[t]]
        BY <1>1, <3>1 DEF HandleIo, TimerTypes
      <4>2. torun' = torun \ {}
        BY <3>1 DEF HandleIo
      <4> {} \in SUBSET torun
        OBVIOUS
      <4> WITNESS {} \in SUBSET torun
      <4> QED BY <4>1, <4>2
    <3>2. ASSUME NEW t \in Timer, RunTimer(t)
          PROVE \E R \in SUBSET torun :
                   /\ torun' = torun \ R
                   /\ fired' = [u \in Timer |-> IF u \in R THEN fired[u] + 1 ELSE fired[u]]
      <4>1. t \in torun /\ torun' = torun \ {t} /\ fired' = [fired EXCEPT ![t] = @ + 1]
        BY <3>2 DEF RunTimer
      <4>2. fired' = [u \in Timer |-> IF u \in {t} THEN fired[u] + 1 ELSE fired[u]]
        BY <1>1, <4>1 DEF TimerTypes
      <4>3. {t} \in SUBSET torun
        BY <4>1
      <4> QED BY <4>1, <4>2, <4>3
    <3> QED BY <3>1, <3>2
  <2> QED BY <1>1, <1>2, <2>1, PaceKept
<1>5. Armed'
  BY <1>1, <1>2 DEF Armed, AllArmed
<1>6. TimerTypes'
  BY <1>1, <1>2, <1>3, <1>4 DEF TimerTypes, Aging
<1> QED BY <1>3, <1>4, <1>5, <1>6 DEF TimerInv

\* getExpired takes the timers that are due out of the queue.
LEMMA ReadTimersInv ==
  ASSUME TimerInv, ReadTimers
  PROVE  TimerInv'
<1> USE DEF TimerInv, ReadTimers
<1>1. TimerTypes'
  BY DEF TimerTypes, Active, Lives
<1>2. MadeForLater' /\ AddedOnce'
  <2>1. \A t \in Timer : \/ life'[t] = life[t]
                         \/ life[t] = "active" /\ life'[t] = "expired"
    BY DEF TimerTypes, Active
  <2>2. MadeForLater'
    BY <2>1 DEF MadeForLater
  <2>3. AddedOnce'
    BY <2>1, QueueKept, TimerTypes
  <2> QED BY <2>2, <2>3
<1>3. Armed'
  <2>1. readAt' = clock /\ clock >= 1 /\ at' = "expired"
    BY DEF TimerTypes
  <2> QED BY <2>1 DEF Armed
<1>4. Paced'
  <2>1. Expired = {} /\ torun = {}
    BY DEF Paced, Handle
  <2>2. torun' \subseteq Active /\ Expired' = torun'
    BY <2>1 DEF Expired, Active, TimerTypes
  <2>3. ASSUME NEW t \in Timer
        PROVE /\ life'[t] = "none" => fired'[t] = 0
              /\ life'[t] \in {"new", "active"} \/ t \in torun' => Due(t)'
              /\ t \in torun' => expiration'[t] <= readAt'
    <3>1. life'[t] \in {"none", "new", "active"} => life'[t] = life[t]
      BY DEF TimerTypes
    <3>2. life[t] \in {"new", "active"} => Due(t)
      BY DEF Paced
    <3>3. Due(t) => Due(t)'
      BY DEF Due
    <3>4. t \in torun' => life[t] = "active" /\ expiration[t] <= clock
      BY DEF Active
    <3> QED BY <3>1, <3>2, <3>3, <3>4 DEF Paced
  <2> QED BY <2>2, <2>3 DEF Paced
<1>5. NotTooOften'
  BY DEF NotTooOften
<1> QED BY <1>1, <1>2, <1>3, <1>4, <1>5

LEMMA MinIsLeast ==
  ASSUME NEW T, T \subseteq Nat, T # {}
  PROVE  Min(T) \in T /\ \A y \in T : Min(T) <= y
  BY NatHasMin DEF Min

\* reset puts the timers that repeat back, an interval after now.
LEMMA ResetTimersInv ==
  ASSUME TimerInv, ResetTimers
  PROVE  TimerInv'
<1> USE DEF TimerInv
<1>1. /\ torun = {} /\ torun' = {} /\ at = "expired" /\ at' = "events"
      /\ clock' = clock /\ readAt' = readAt /\ interval' = interval /\ fired' = fired
      /\ taken' = taken /\ pending' = pending
      /\ readAt \in Nat /\ readAt >= 1 /\ readAt <= clock /\ clock \in Nat
  BY DEF ResetTimers, TimerTypes, Armed
<1>2. /\ life' \in [Timer -> Lives] /\ expiration' \in [Timer -> Nat]
      /\ \A t \in Timer :
            \/ /\ t \notin Expired /\ life'[t] = life[t] /\ expiration'[t] = expiration[t]
            \/ /\ t \in Expired /\ life'[t] = "deleted" /\ expiration'[t] = expiration[t]
            \/ /\ t \in Expired /\ life'[t] = "active" /\ expiration'[t] = readAt + interval[t]
               /\ interval[t] > 0
  <2>1. life' = [t \in Timer |-> IF t \in Expired THEN AfterRun(t) ELSE life[t]]
    BY DEF ResetTimers
  <2>2. expiration' = [t \in Timer |-> IF t \in Expired /\ Repeats(t)
                                       THEN readAt + interval[t] ELSE expiration[t]]
    BY DEF ResetTimers, NextExpiration
  <2>3. /\ \A t \in Timer : Repeats(t) => AfterRun(t) = "active" /\ interval[t] > 0
        /\ \A t \in Timer : ~ Repeats(t) => AfterRun(t) = "deleted"
    BY DEF Repeats, AfterRun
  <2>4. life' \in [Timer -> Lives] /\ expiration' \in [Timer -> Nat]
    BY <1>1, <2>1, <2>2, <2>3 DEF TimerTypes, Lives
  <2> QED BY <2>1, <2>2, <2>3, <2>4
<1>3. MadeForLater'
  <2>1. \A t \in Timer : interval[t] \in Nat /\ t \in Expired => life[t] # "none"
    BY DEF Expired
  <2>2. \A t \in Timer : interval[t] \in Nat
    BY DEF TimerTypes
  <2> QED BY <1>1, <1>2, <2>1, <2>2 DEF MadeForLater
<1>4. timerfd' \in Nat /\ AllArmed'
  <2>1. CASE Active' = {}
    BY <2>1 DEF ResetTimers, Rearmed, TimerTypes, AllArmed
  <2>2. CASE Active' # {}
    <3> DEFINE T == {expiration'[t] : t \in Active'}
    <3>1. T \subseteq Nat /\ T # {}
      BY <1>2, <2>2 DEF Active
    <3>2. timerfd' = Min(T)
      BY <2>2 DEF ResetTimers, Rearmed
    <3>3. \A t \in Active' : expiration'[t] \in T /\ expiration'[t] >= 1
      BY <1>3 DEF MadeForLater, Active
    <3>4. \A y \in T : y \in Nat /\ y >= 1
      BY <3>1, <3>3
    <3> HIDE DEF T
    <3>5. Min(T) \in T /\ \A y \in T : Min(T) <= y
      BY <3>1, MinIsLeast
    <3> QED BY <3>2, <3>3, <3>4, <3>5 DEF AllArmed
  <2> QED BY <2>1, <2>2
<1>5. TimerTypes'
  BY <1>1, <1>2, <1>4 DEF TimerTypes
<1>6. AddedOnce'
  <2>1. \A t \in Timer : life[t] = "new" => life'[t] = "new"
    BY <1>2 DEF Expired
  <2> QED BY <1>1, <2>1, QueueKept
<1>7. Armed'
  BY <1>1, <1>4 DEF Armed, AllArmed
<1>8. Paced'
  <2>1. Expired' = {}
    BY <1>2 DEF Expired
  <2>2. ASSUME NEW t \in Timer
        PROVE /\ life'[t] = "none" => fired[t] = 0
              /\ life'[t] \in {"new", "active"} => Due(t)'
    <3>1. CASE t \notin Expired
      BY <1>1, <1>2, <3>1 DEF Paced, Due
    <3>2. CASE t \in Expired /\ life'[t] = "active"
      <4>1. expiration'[t] = readAt + interval[t] /\ interval[t] > 0 /\ interval[t] \in Nat
        BY <1>2, <3>2 DEF TimerTypes
      <4>2. fired[t] * interval[t] <= readAt - 1 /\ fired[t] * interval[t] \in Nat
        BY <1>1, <3>2 DEF Paced, TimerTypes
      <4> DEFINE x == fired[t] * interval[t]
      <4>3. x <= readAt - 1 /\ x \in Nat
        BY <4>2
      <4>4. fired'[t] * interval'[t] = x /\ interval'[t] = interval[t]
        BY <1>1
      <4> HIDE DEF x
      <4>5. x + interval[t] <= expiration'[t] - 1
        BY <1>1, <4>1, <4>3
      <4> QED BY <3>2, <4>1, <4>4, <4>5 DEF Due
    <3> QED BY <1>2, <3>1, <3>2
  <2> QED BY <1>1, <2>1, <2>2 DEF Paced
<1>9. NotTooOften'
  BY <1>1 DEF NotTooOften
<1> QED BY <1>3, <1>5, <1>6, <1>7, <1>8, <1>9

\* What is left of the functors that were taken once the first of them has run.
LEMMA TailKept ==
  ASSUME TimerTypes, AddedOnce, taken # <<>>, taken' = Tail(taken),
         \/ pending' = pending
         \/ \E f \in Functor : f.do # "add" /\ pending' = Append(pending, f),
         \A t \in Timer : life[t] = "new" /\ ~ (Head(taken).do = "add" /\ Head(taken).id = t)
                             => life'[t] = "new"
  PROVE  AddedOnce' /\ taken' \in Seq(Functor) /\ pending' \in Seq(Functor)
<1>1. taken \in Seq(Functor) /\ pending \in Seq(Functor)
  BY DEF TimerTypes
<1>2. /\ pending' \in Seq(Functor)
      /\ \A i \in Nat : Adds(pending', i) => Adds(pending, i) /\ pending'[i] = pending[i]
  <2>1. ASSUME NEW f \in Functor, f.do # "add", pending' = Append(pending, f)
        PROVE  /\ pending' \in Seq(Functor)
               /\ \A i \in Nat : Adds(pending', i) => Adds(pending, i) /\ pending'[i] = pending[i]
    <3>1. /\ pending' \in Seq(Functor) /\ Len(pending') = Len(pending) + 1
          /\ \A i \in 1 .. Len(pending) : pending'[i] = pending[i]
          /\ pending'[Len(pending) + 1] = f
      BY <1>1, <2>1
    <3> QED BY <1>1, <2>1, <3>1 DEF Adds
  <2> QED BY <1>1, <2>1
<1>3. ASSUME NEW q \in {taken, pending}, NEW i \in Nat, Adds(q, i) PROVE q[i].id \in Timer
  <2>1. q[i] \in Functor
    BY <1>1, <1>3 DEF Adds
  <2> QED BY <1>3, <2>1 DEF Functor, Adds
<1>4. /\ taken' \in Seq(Functor) /\ Len(taken') = Len(taken) - 1 /\ Len(taken) >= 1
      /\ \A i \in 1 .. Len(taken') : taken'[i] = taken[i + 1]
      /\ Head(taken) = taken[1]
  BY <1>1
<1>5. ASSUME NEW i \in Nat, Adds(taken', i)
      PROVE  \E k \in Nat : k = i + 1 /\ k # 1 /\ Adds(taken, k) /\ taken'[i] = taken[k]
  <2>1. i + 1 \in Nat /\ i + 1 # 1 /\ Adds(taken, i + 1) /\ taken'[i] = taken[i + 1]
    BY <1>1, <1>4, <1>5 DEF Adds
  <2> QED BY <2>1
<1>6. Head(taken).do = "add" => Adds(taken, 1)
  BY <1>1, <1>4 DEF Adds
<1>7. ASSUME NEW i \in Nat, Adds(taken', i) PROVE life'[taken'[i].id] = "new"
  <2>1. PICK k \in Nat : k # 1 /\ Adds(taken, k) /\ taken'[i] = taken[k]
    BY <1>5, <1>7
  <2>2. taken[k].id \in Timer /\ life[taken[k].id] = "new"
    BY <1>3, <2>1 DEF AddedOnce
  <2>3. ~ (Head(taken).do = "add" /\ Head(taken).id = taken[k].id)
    BY <1>4, <1>6, <2>1 DEF AddedOnce
  <2> QED BY <2>1, <2>2, <2>3
<1>8. ASSUME NEW i \in Nat, Adds(pending', i) PROVE life'[pending'[i].id] = "new"
  <2>1. Adds(pending, i) /\ pending'[i] = pending[i]
    BY <1>2, <1>8
  <2>2. pending[i].id \in Timer /\ life[pending[i].id] = "new"
    BY <1>3, <2>1 DEF AddedOnce
  <2>3. ~ (Head(taken).do = "add" /\ Head(taken).id = pending[i].id)
    BY <1>4, <1>6, <2>1 DEF AddedOnce
  <2> QED BY <2>1, <2>2, <2>3
<1>9. ASSUME NEW i \in Nat, NEW j \in Nat, Adds(taken', i), Adds(taken', j),
             taken'[i].id = taken'[j].id
      PROVE i = j
  <2>1. PICK k \in Nat : k = i + 1 /\ Adds(taken, k) /\ taken'[i] = taken[k]
    BY <1>5, <1>9
  <2>2. PICK m \in Nat : m = j + 1 /\ Adds(taken, m) /\ taken'[j] = taken[m]
    BY <1>5, <1>9
  <2>3. k = m
    BY <1>9, <2>1, <2>2 DEF AddedOnce
  <2> QED BY <2>1, <2>2, <2>3
<1>10. ASSUME NEW i \in Nat, NEW j \in Nat, Adds(taken', i), Adds(pending', j)
       PROVE taken'[i].id # pending'[j].id
  <2>1. PICK k \in Nat : Adds(taken, k) /\ taken'[i] = taken[k]
    BY <1>5, <1>10
  <2>2. Adds(pending, j) /\ pending'[j] = pending[j]
    BY <1>2, <1>10
  <2>3. taken[k].id # pending[j].id
    BY <2>1, <2>2 DEF AddedOnce
  <2> QED BY <2>1, <2>2, <2>3
<1>11. ASSUME NEW i \in Nat, NEW j \in Nat, Adds(pending', i), Adds(pending', j),
              pending'[i].id = pending'[j].id
       PROVE i = j
  BY <1>2, <1>11 DEF AddedOnce
<1> QED BY <1>2, <1>4, <1>7, <1>8, <1>9, <1>10, <1>11 DEF AddedOnce

\* The next functor that was taken runs.
LEMMA RunFunctorInv ==
  ASSUME TimerInv, RunFunctor
  PROVE  TimerInv'
<1> DEFINE f == Head(taken)
<1>1. /\ TimerTypes /\ AddedOnce /\ Armed /\ at = "functors" /\ taken # <<>>
      /\ at' = at /\ taken' = Tail(taken) /\ clock' = clock /\ torun' = torun
      /\ readAt' = readAt /\ fired' = fired
  BY DEF TimerInv, RunFunctor
<1>2. f \in Functor /\ (f.do = "add" => f.id \in Timer /\ life[f.id] = "new")
  <2>1. f \in Functor /\ f = taken[1] /\ 1 \in DOMAIN taken /\ 1 \in Nat
    BY <1>1 DEF TimerTypes
  <2>2. f.do = "add" => Adds(taken, 1)
    BY <2>1 DEF Adds
  <2> HIDE DEF f
  <2> QED BY <1>1, <2>1, <2>2 DEF AddedOnce, Functor
<1>3. /\ Aging
      /\ AllArmed => AllArmed'
      /\ \A t \in Timer : life[t] = "new" /\ ~ (f.do = "add" /\ f.id = t) => life'[t] = "new"
      /\ \/ pending' = pending
         \/ \E g \in Functor : g.do # "add" /\ pending' = Append(pending, g)
  <2>1. CASE f.do = "user" /\ Call
    BY <1>1, <2>1, CallEffect, CallQueueEffect
  <2>2. CASE /\ f.do = "add" /\ Insert(f.id, expiration[f.id])
             /\ UNCHANGED <<pending, expiration, interval>>
    <3> DEFINE t == f.id
    <3>1. t \in Timer /\ life[t] = "new" /\ expiration'[t] >= 1
      BY <1>2, <2>2 DEF TimerInv, MadeForLater
    <3>2. Insert(t, expiration'[t]) /\ expiration' \in [Timer -> Nat]
          /\ \A u \in Timer \ {t} : expiration'[u] = expiration[u]
      BY <1>1, <2>2 DEF TimerTypes
    <3> HIDE DEF t
    <3>3. /\ timerfd' \in Nat
          /\ life' \in [Timer -> Lives]
          /\ life'[t] = "active"
          /\ \A u \in Timer \ {t} : life'[u] = life[u]
          /\ AllArmed => AllArmed'
      BY <1>1, <3>1, <3>2, InsertEffect
    <3>4. Moved(t)
      BY <2>2, <3>1, <3>3 DEF Moved
    <3>5. \A u \in Timer \ {t} : Untouched(u)
      BY <2>2, <3>3 DEF Untouched
    <3>6. Aging
      BY <1>1, <2>2, <3>3, <3>4, <3>5 DEF Aging, TimerTypes
    <3> QED BY <2>2, <3>3, <3>6 DEF t
  <2>3. CASE f.do = "cancel" /\ Cancel(Timerid(f.id)) /\ UNCHANGED <<pending, timerfd, expiration, interval>>
    <3>1. /\ life' \in [Timer -> Lives]
          /\ \A u \in Timer : \/ life'[u] = life[u]
                              \/ life[u] = "active" /\ life'[u] = "deleted"
      BY <1>1, <2>3, CancelEffect
    <3>2. Aging
      BY <1>1, <2>3, <3>1 DEF Aging, Untouched, Moved, TimerTypes
    <3>3. AllArmed => AllArmed'
      BY <2>3, <3>1 DEF AllArmed, Active
    <3> QED BY <2>3, <3>1, <3>2, <3>3
  <2> QED BY <2>1, <2>2, <2>3 DEF RunFunctor
<1>4. AddedOnce' /\ taken' \in Seq(Functor) /\ pending' \in Seq(Functor)
  BY <1>1, <1>3, TailKept
<1>5. /\ MadeForLater' /\ Paced' /\ NotTooOften'
      /\ clock' \in Nat /\ clock' >= 1 /\ readAt' \in 0 .. clock'
  <2>1. fired' = [t \in Timer |-> IF t \in {} THEN fired[t] + 1 ELSE fired[t]]
    BY <1>1 DEF TimerTypes
  <2>2. torun' = torun \ {} /\ {} \in SUBSET torun
    BY <1>1
  <2> QED BY <1>1, <1>3, <2>1, <2>2, PaceKept
<1>6. Armed'
  BY <1>1, <1>3 DEF Armed, AllArmed
<1>7. TimerTypes'
  BY <1>1, <1>3, <1>4, <1>5 DEF TimerTypes, Aging
<1> QED BY <1>4, <1>5, <1>6, <1>7 DEF TimerInv

\* A thread adds a timer: the functor that it queues is the only one to do so.
LEMMA AddFromInv ==
  ASSUME TimerInv, NEW c \in Thread, AddFrom(c)
  PROVE  TimerInv'
<1>1. PICK t \in Timer, w \in Whens :
          /\ Make(t, w[1], w[2])
          /\ Push(c, [do |-> "add", id |-> t])
          /\ life' = [life EXCEPT ![t] = "new"]
  BY DEF AddFrom
<1> DEFINE f == [do |-> "add", id |-> t]
<1>2. /\ TimerTypes /\ AddedOnce /\ Armed
      /\ pending \in Seq(Functor) /\ taken \in Seq(Functor)
      /\ at' = at /\ taken' = taken /\ pending' = Append(pending, f) /\ f \in Functor
      /\ clock' = clock /\ torun' = torun /\ readAt' = readAt /\ fired' = fired
      /\ timerfd' = timerfd
  BY <1>1 DEF TimerInv, TimerTypes, AddFrom, Push, Functor
<1>3. /\ life[t] = "none" /\ life'[t] = "new" /\ life' \in [Timer -> Lives]
      /\ \A u \in Timer \ {t} : life'[u] = life[u]
  BY <1>1, <1>2 DEF TimerTypes, Make, Lives
<1>4. Aging
  <2>1. Made(t)
    BY <1>1, <1>2, <1>3, MakeEffect DEF Made
  <2>2. \A u \in Timer \ {t} : Untouched(u)
    BY <1>1, <1>2, <1>3, MakeEffect DEF Untouched
  <2>3. expiration' \in [Timer -> Nat] /\ interval' \in [Timer -> Nat]
    BY <1>1, <1>2, MakeEffect
  <2> QED BY <1>2, <1>3, <2>1, <2>2, <2>3 DEF Aging, TimerTypes
<1>5. AddedOnce' /\ pending' \in Seq(Functor)
  <2> DEFINE n == Len(pending) + 1
  <2>1. /\ pending' \in Seq(Functor) /\ Len(pending') = n /\ n \in Nat
        /\ \A i \in 1 .. Len(pending) : pending'[i] = pending[i]
        /\ pending'[n] = f
    BY <1>2
  <2>2. \A i \in Nat : Adds(pending', i) =>
           \/ i # n /\ Adds(pending, i) /\ pending'[i] = pending[i]
           \/ i = n /\ pending'[i].id = t
    BY <1>2, <2>1 DEF Adds
  <2> HIDE DEF n, f
  <2>3. ASSUME NEW q \in {taken, pending}, NEW i \in Nat, Adds(q, i)
        PROVE  q[i].id # t /\ life'[q[i].id] = "new"
    <3>1. q[i] \in Functor
      BY <1>2, <2>3 DEF Adds
    <3>2. q[i].id \in Timer
      BY <2>3, <3>1 DEF Functor, Adds
    <3> QED BY <1>2, <1>3, <2>3, <3>2 DEF AddedOnce
  <2>4. \A i \in Nat : Adds(taken', i) <=> Adds(taken, i)
    BY <1>2 DEF Adds
  <2>5. \A i \in Nat : Adds(pending', i) => life'[pending'[i].id] = "new"
    BY <1>3, <2>2, <2>3
  <2>6. \A i, j \in Nat :
           Adds(pending', i) /\ Adds(pending', j) /\ pending'[i].id = pending'[j].id => i = j
    BY <1>2, <2>2, <2>3 DEF AddedOnce
  <2>7. ASSUME NEW i \in Nat, NEW j \in Nat, Adds(taken', i), Adds(pending', j)
        PROVE  taken'[i].id # pending'[j].id
    <3>1. Adds(taken, i) /\ taken'[i] = taken[i]
      BY <1>2, <2>4, <2>7
    <3>2. CASE Adds(pending, j) /\ pending'[j] = pending[j]
      <4>1. taken[i].id # pending[j].id
        BY <1>2, <3>1, <3>2 DEF AddedOnce
      <4> QED BY <3>1, <3>2, <4>1
    <3>3. CASE pending'[j].id = t
      BY <2>3, <3>1, <3>3
    <3> QED BY <2>2, <2>7, <3>2, <3>3
  <2>8. /\ \A i \in Nat : Adds(taken', i) => life'[taken'[i].id] = "new"
        /\ \A i, j \in Nat :
              Adds(taken', i) /\ Adds(taken', j) /\ taken'[i].id = taken'[j].id => i = j
    BY <1>2, <2>3, <2>4 DEF AddedOnce
  <2> QED BY <2>1, <2>5, <2>6, <2>7, <2>8 DEF AddedOnce
<1>6. /\ MadeForLater' /\ Paced' /\ NotTooOften'
      /\ clock' \in Nat /\ clock' >= 1 /\ readAt' \in 0 .. clock'
  <2>1. fired' = [u \in Timer |-> IF u \in {} THEN fired[u] + 1 ELSE fired[u]]
    BY <1>2 DEF TimerTypes
  <2>2. torun' = torun \ {} /\ {} \in SUBSET torun
    BY <1>2
  <2> QED BY <1>2, <1>4, <2>1, <2>2, PaceKept
<1>7. Armed'
  <2>1. \A u \in Active' : u \in Active /\ expiration'[u] = expiration[u]
    BY <1>1, <1>2, <1>3, MakeEffect DEF Active
  <2> QED BY <1>2, <2>1 DEF Armed
<1>8. TimerTypes'
  BY <1>2, <1>4, <1>5, <1>6 DEF TimerTypes, Aging
<1> QED BY <1>5, <1>6, <1>7, <1>8 DEF TimerInv

\* Steps that change no timer: the queues stay, are taken or grow by a functor
\* that adds no timer, and the clock may advance.
LEMMA OtherInv ==
  ASSUME TimerInv,
         \/ PollTimers
         \/ /\ HandleWakeup \/ TakeFunctors \/ EndRound
            /\ UNCHANGED <<clock, timerVars, torun, readAt, fired, ran>>
         \/ \E c \in Thread : CancelFrom(c) \/ CallFrom(c)
         \/ Tick \/ UNCHANGED vars
  PROVE  TimerInv'
<1>1. /\ TimerTypes /\ AddedOnce /\ Armed
      /\ pending \in Seq(Functor) /\ taken \in Seq(Functor)
      /\ clock \in Nat
  BY DEF TimerInv, TimerTypes
<1>2. /\ life' = life /\ expiration' = expiration /\ interval' = interval
      /\ timerfd' = timerfd /\ torun' = torun /\ readAt' = readAt /\ fired' = fired
      /\ clock' \in {clock, clock + 1}
  BY DEF PollTimers, CancelFrom, CallFrom, Tick, vars, timerVars
<1>3. /\ at' = "expired" <=> at = "expired"
      /\ \/ at' = at
         \/ at # "expired" /\ at' # "expired"
  BY DEF PollTimers, Poll, HandleWakeup, Handle, TakeFunctors, EndRound, Again, CancelFrom,
         CallFrom, Push, QuitFrom, Wakeup, Tick, vars, loopVars
<1>4. \/ taken' = pending /\ pending' = <<>>
      \/ taken' = taken /\ pending' = pending
      \/ taken' = taken /\ \E f \in Functor : f.do # "add" /\ pending' = Append(pending, f)
  <2>1. ASSUME NEW c \in Thread, CancelFrom(c)
        PROVE  taken' = taken /\ \E f \in Functor : f.do # "add" /\ pending' = Append(pending, f)
    <3>1. PICK t \in Timer : Push(c, [do |-> "cancel", id |-> t])
      BY <2>1 DEF CancelFrom
    <3>2. [do |-> "cancel", id |-> t] \in Functor
      BY DEF Functor
    <3> QED BY <3>1, <3>2 DEF Push
  <2>2. ASSUME NEW c \in Thread, NEW k \in Task, Push(c, User(k))
        PROVE  taken' = taken /\ \E f \in Functor : f.do # "add" /\ pending' = Append(pending, f)
    <3>1. User(k) \in Functor /\ User(k).do # "add"
      BY DEF User, Functor
    <3> QED BY <2>2, <3>1 DEF Push
  <2> QED BY <2>1, <2>2 DEF PollTimers, Poll, HandleWakeup, TakeFunctors, EndRound,
                            CallFrom, QuitFrom, Wakeup, Tick, vars, loopVars
<1>5. AddedOnce' /\ taken' \in Seq(Functor) /\ pending' \in Seq(Functor)
  <2>1. CASE taken' = pending /\ pending' = <<>>
    BY <1>1, <1>2, <2>1 DEF AddedOnce, Adds
  <2>2. CASE taken' = taken /\ (\/ pending' = pending
                                \/ \E f \in Functor : f.do # "add" /\ pending' = Append(pending, f))
    <3>1. \A t \in Timer : life[t] = "new" => life'[t] = "new"
      BY <1>2
    <3>2. AddedOnce' /\ pending' \in Seq(Functor)
      BY <1>1, <2>2, <3>1, QueueKept
    <3> QED BY <1>1, <2>2, <3>2
  <2> QED BY <1>4, <2>1, <2>2
<1>6. /\ MadeForLater' /\ Paced' /\ NotTooOften'
      /\ clock' \in Nat /\ clock' >= 1 /\ readAt' \in 0 .. clock'
  <2>1. fired' = [t \in Timer |-> IF t \in {} THEN fired[t] + 1 ELSE fired[t]]
    BY <1>1, <1>2 DEF TimerTypes
  <2>2. torun' = torun \ {} /\ {} \in SUBSET torun
    BY <1>2
  <2>3. Aging
    BY <1>1, <1>2 DEF Aging, Untouched, TimerTypes
  <2> QED BY <1>2, <1>3, <2>1, <2>2, <2>3, PaceKept
<1>7. Armed'
  BY <1>1, <1>2, <1>3 DEF Armed, Active
<1>8. TimerTypes'
  BY <1>1, <1>2, <1>5, <1>6 DEF TimerTypes
<1> QED BY <1>5, <1>6, <1>7, <1>8 DEF TimerInv

LEMMA SpecTimerInv == Spec => []TimerInv
<1>1. TimerInv /\ [Next]_vars => TimerInv'
  <2> SUFFICES ASSUME TimerInv, [Next]_vars PROVE TimerInv'
    OBVIOUS
  <2>1. CASE LoopStep
    BY <2>1, CallbackInv, ReadTimersInv, ResetTimersInv, RunFunctorInv, OtherInv DEF LoopStep
  <2>2. CASE \E c \in Thread : AddFrom(c) \/ CancelFrom(c) \/ CallFrom(c)
    BY <2>2, AddFromInv, OtherInv
  <2>3. CASE Tick \/ UNCHANGED vars
    BY <2>3, OtherInv
  <2> QED BY <2>1, <2>2, <2>3 DEF Next
<1> QED BY InitTimerInv, <1>1, PTL DEF Spec

\* Whenever the loop waits, its descriptor is armed for the timer that expires
\* first or for an earlier time (insert timerqueue.cc:85, reset 125), for any
\* timers, whichever thread or callback adds and cancels them.
THEOREM LoopWaitsArmed == Spec => []TimersAreArmed
<1>1. TimerInv => TimersAreArmed
  BY DEF TimerInv, Armed, TimersAreArmed
<1> QED BY SpecTimerInv, <1>1, PTL

\* A timer never runs more often than its intervals have passed, and only once
\* if it has none (reset timerqueue.cc:125-137).
THEOREM TimersKeepPace == Spec => []NotTooOften
<1>1. TimerInv => NotTooOften
  BY DEF TimerInv
<1> QED BY SpecTimerInv, <1>1, PTL
-----------------------------------------------------------------------------
(* The order of the functors.                                              *)

LEMMA UsersToFinite ==
  ASSUME NEW q, NEW i \in Nat
  PROVE  IsFiniteSet({j \in 1..i : q[j].do = "user"})
<1>1. IsFiniteSet(1..i) /\ {j \in 1..i : q[j].do = "user"} \subseteq 1..i
  BY FS_Interval
<1> QED BY <1>1, FS_Subset

LEMMA UsersToType ==
  ASSUME NEW q, NEW i \in Nat
  PROVE  UsersTo(q, i) \in Nat
BY UsersToFinite, FS_CardinalityType DEF UsersTo

LEMMA UsersToNext ==
  ASSUME NEW q, NEW i \in Nat
  PROVE  /\ UsersTo(q, 0) = 0
         /\ q[i + 1].do = "user" => UsersTo(q, i + 1) = UsersTo(q, i) + 1
         /\ q[i + 1].do # "user" => UsersTo(q, i + 1) = UsersTo(q, i)
<1> DEFINE S(k) == {j \in 1..k : q[j].do = "user"}
<1>1. S(0) = {}
  OBVIOUS
<1>2. q[i + 1].do = "user" => S(i + 1) = S(i) \cup {i + 1}
  OBVIOUS
<1>3. q[i + 1].do # "user" => S(i + 1) = S(i)
  OBVIOUS
<1>4. IsFiniteSet(S(i)) /\ i + 1 \notin S(i)
  BY UsersToFinite
<1>5. UsersTo(q, 0) = Cardinality(S(0)) /\ UsersTo(q, i) = Cardinality(S(i))
      /\ UsersTo(q, i + 1) = Cardinality(S(i + 1))
  BY DEF UsersTo
<1>6. UsersTo(q, 0) = 0
  BY <1>1, <1>5, FS_EmptySet
<1>7. \A T, n : IsFiniteSet(T) /\ n \notin T => Cardinality(T \cup {n}) = Cardinality(T) + 1
  BY FS_AddElement
<1> HIDE DEF S
<1> QED BY <1>2, <1>3, <1>4, <1>5, <1>6, <1>7

LEMMA UsersToGrows ==
  ASSUME NEW q, NEW i \in Nat, NEW j \in Nat, i <= j
  PROVE  UsersTo(q, i) <= UsersTo(q, j)
<1>1. {k \in 1..i : q[k].do = "user"} \subseteq {k \in 1..j : q[k].do = "user"}
  OBVIOUS
<1> QED BY <1>1, UsersToFinite, FS_Subset DEF UsersTo

\* Each functor of the user is at one place of the queue.
LEMMA UserIsFound ==
  ASSUME NEW q \in Seq(Functor), NEW k \in 1 .. UsersTo(q, Len(q))
  PROVE  \E i \in DOMAIN q : IsUser(q, k, i)
<1> DEFINE T == {i \in 1 .. Len(q) : UsersTo(q, i) >= k}
<1>1. Len(q) \in Nat /\ UsersTo(q, Len(q)) \in Nat /\ UsersTo(q, 0) = 0
  BY UsersToType, UsersToNext
<1>2. k \in Nat /\ k >= 1 /\ Len(q) # 0
  BY <1>1
<1>3. Len(q) \in T /\ T \subseteq Nat
  BY <1>1, <1>2
<1>4. PICK i \in T : \A j \in T : i <= j
  <2> HIDE DEF T
  <2> QED BY <1>3, NatHasMin
<1>5. PICK h \in Nat : i = h + 1 /\ h < Len(q)
  <2>1. i \in 1 .. Len(q)
    BY <1>4
  <2>2. i - 1 \in Nat /\ i = (i - 1) + 1 /\ i - 1 < Len(q)
    BY <1>1, <2>1
  <2> QED BY <2>2
<1>6. UsersTo(q, h) \in Nat /\ UsersTo(q, i) \in Nat /\ UsersTo(q, i) >= k
  BY <1>4, <1>5, UsersToType
<1>7. UsersTo(q, h) < k
  <2>1. CASE h = 0
    BY <1>1, <1>2, <2>1
  <2>2. CASE h # 0
    <3>1. h \in 1 .. Len(q) /\ ~ (i <= h)
      BY <1>1, <1>5, <2>2
    <3> QED BY <1>2, <1>4, <1>6, <3>1
  <2> QED BY <2>1, <2>2
<1>8. q[i].do = "user" /\ UsersTo(q, i) = k
  BY <1>2, <1>5, <1>6, <1>7, UsersToNext
<1> QED BY <1>4, <1>8 DEF IsUser

LEMMA UserIsAlone ==
  ASSUME NEW q, NEW k, NEW i \in Nat, NEW j \in Nat, i < j, IsUser(q, k, i), IsUser(q, k, j)
  PROVE  FALSE
<1>1. PICK h \in Nat : j = h + 1 /\ i <= h
  <2>1. j - 1 \in Nat /\ j = (j - 1) + 1 /\ i <= j - 1
    OBVIOUS
  <2> QED BY <2>1
<1>2. UsersTo(q, j) = UsersTo(q, h) + 1
  BY <1>1, UsersToNext DEF IsUser
<1>3. UsersTo(q, i) <= UsersTo(q, h) /\ UsersTo(q, i) \in Nat /\ UsersTo(q, h) \in Nat
  BY <1>1, UsersToGrows, UsersToType
<1>4. UsersTo(q, i) = UsersTo(q, j)
  BY DEF IsUser
<1> QED BY <1>2, <1>3, <1>4

LEMMA UsersAt ==
  ASSUME NEW q \in Seq(Functor), NEW k \in 1 .. UsersTo(q, Len(q)),
         NEW i \in DOMAIN q, IsUser(q, k, i)
  PROVE  Users(q)[k] = q[i].id
<1> DEFINE c == CHOOSE j \in DOMAIN q : IsUser(q, k, j)
<1>1. c \in DOMAIN q /\ IsUser(q, k, c)
  OBVIOUS
<1>2. Users(q)[k] = q[c].id
  BY DEF Users
<1> HIDE DEF c
<1>3. c \in Nat /\ i \in Nat
  BY <1>1
<1>4. c = i
  BY <1>1, <1>3, UserIsAlone
<1> QED BY <1>2, <1>4

LEMMA UsersType ==
  ASSUME NEW q \in Seq(Functor)
  PROVE  /\ UsersTo(q, Len(q)) \in Nat
         /\ Users(q) \in Seq(Task)
         /\ Len(Users(q)) = UsersTo(q, Len(q))
         /\ DOMAIN Users(q) = 1 .. UsersTo(q, Len(q))
<1>1. UsersTo(q, Len(q)) \in Nat
  BY UsersToType
<1>2. ASSUME NEW k \in 1 .. UsersTo(q, Len(q)) PROVE Users(q)[k] \in Task
  <2>1. PICK i \in DOMAIN q : IsUser(q, k, i)
    BY UserIsFound
  <2>2. q[i] \in Functor /\ q[i].do = "user"
    BY <2>1 DEF IsUser
  <2>3. q[i].id \in Task
    BY <2>2 DEF Functor
  <2> QED BY <2>1, <2>3, UsersAt
<1>3. DOMAIN Users(q) = 1 .. UsersTo(q, Len(q)) /\ Users(q) = [k \in DOMAIN Users(q) |-> Users(q)[k]]
  BY DEF Users
<1>4. PICK n \in Nat : n = UsersTo(q, Len(q))
  BY <1>1
<1>5. PICK u : u = Users(q)
  OBVIOUS
<1>6. u \in [1..n -> Task]
  BY <1>2, <1>3, <1>4, <1>5
<1>7. u \in Seq(Task) /\ Len(u) = n
  BY <1>6
<1> QED BY <1>3, <1>4, <1>5, <1>7

\* A functor queued at the end comes last.
LEMMA UsersOfAppend ==
  ASSUME NEW q \in Seq(Functor), NEW f \in Functor
  PROVE  Users(Append(q, f)) = IF f.do = "user" THEN Append(Users(q), f.id) ELSE Users(q)
<1> PICK p : p = Append(q, f)
  OBVIOUS
<1> PICK n \in Nat : n = UsersTo(q, Len(q))
  BY UsersToType
<1>1. /\ p \in Seq(Functor) /\ Len(p) = Len(q) + 1 /\ Len(q) \in Nat
      /\ DOMAIN q = 1 .. Len(q) /\ DOMAIN p = 1 .. Len(q) + 1
      /\ \A i \in DOMAIN q : i \in DOMAIN p /\ p[i] = q[i]
      /\ p[Len(q) + 1] = f
  OBVIOUS
<1>2. ASSUME NEW i \in 0 .. Len(q) PROVE UsersTo(p, i) = UsersTo(q, i)
  <2>1. {j \in 1..i : p[j].do = "user"} = {j \in 1..i : q[j].do = "user"}
    BY <1>1
  <2> QED BY <2>1 DEF UsersTo
<1>3. UsersTo(p, Len(p)) = IF f.do = "user" THEN n + 1 ELSE n
  <2>1. UsersTo(p, Len(q)) = n
    BY <1>1, <1>2
  <2> QED BY <1>1, <2>1, UsersToNext
<1>4. ASSUME NEW k \in 1..n PROVE Users(p)[k] = Users(q)[k]
  <2>1. PICK i \in DOMAIN q : IsUser(q, k, i)
    BY UserIsFound
  <2>2. i \in DOMAIN p /\ IsUser(p, k, i) /\ p[i] = q[i]
    BY <1>1, <1>2, <2>1 DEF IsUser
  <2>3. k \in 1 .. UsersTo(p, Len(p)) /\ k \in 1 .. UsersTo(q, Len(q))
    BY <1>3
  <2>4. Users(p)[k] = p[i].id
    BY <1>1, <2>2, <2>3, UsersAt
  <2>5. Users(q)[k] = q[i].id
    BY <2>1, <2>3, UsersAt
  <2> QED BY <2>2, <2>4, <2>5
<1>5. /\ Users(q) \in Seq(Task) /\ Len(Users(q)) = n
      /\ Users(p) \in Seq(Task) /\ Len(Users(p)) = UsersTo(p, Len(p))
  BY <1>1, UsersType
<1>6. CASE f.do = "user"
  <2>1. IsUser(p, n + 1, Len(q) + 1) /\ Len(q) + 1 \in DOMAIN p /\ n + 1 \in 1 .. UsersTo(p, Len(p))
    BY <1>1, <1>3, <1>6 DEF IsUser
  <2>2. Users(p)[n + 1] = f.id
    <3>1. PICK k \in 1 .. UsersTo(p, Len(p)), i \in DOMAIN p : k = n + 1 /\ i = Len(q) + 1 /\ IsUser(p, k, i)
      BY <2>1
    <3>2. Users(p)[k] = p[i].id
      BY <1>1, <3>1, UsersAt
    <3> QED BY <1>1, <3>1, <3>2
  <2>3. f.id \in Task
    BY <1>6 DEF Functor
  <2>4. PICK a \in Seq(Task), b \in Seq(Task) : a = Users(q) /\ b = Users(p)
    BY <1>5
  <2>5. Len(a) = n /\ Len(b) = n + 1 /\ b[n + 1] = f.id /\ \A k \in 1..n : b[k] = a[k]
    BY <1>3, <1>4, <1>5, <1>6, <2>2, <2>4
  <2>6. b = Append(a, f.id)
    BY <2>3, <2>5
  <2> QED BY <1>6, <2>4, <2>6
<1>7. CASE f.do # "user"
  <2>1. PICK a \in Seq(Task), b \in Seq(Task) : a = Users(q) /\ b = Users(p)
    BY <1>5
  <2>2. Len(a) = n /\ Len(b) = n /\ \A k \in 1..n : b[k] = a[k]
    BY <1>3, <1>4, <1>5, <1>7, <2>1
  <2>3. b = a
    BY <2>2
  <2> QED BY <1>7, <2>1, <2>3
<1> QED BY <1>6, <1>7

\* The first functor that is taken is the first of the user, or none of his.
LEMMA UsersOfTail ==
  ASSUME NEW q \in Seq(Functor), q # <<>>
  PROVE  /\ Head(q).do = "user" =>
               Users(q) # <<>> /\ Head(Users(q)) = Head(q).id /\ Tail(Users(q)) = Users(Tail(q))
         /\ Head(q).do # "user" => Users(Tail(q)) = Users(q)
<1>0. Tail(q) \in Seq(Functor)
  OBVIOUS
<1> PICK p \in Seq(Functor) : p = Tail(q)
  BY <1>0
<1> PICK d \in {0, 1} : d = IF q[1].do = "user" THEN 1 ELSE 0
  OBVIOUS
<1> PICK n \in Nat : n = UsersTo(p, Len(p))
  BY UsersToType
<1>1. /\ Len(p) \in Nat /\ Len(q) = Len(p) + 1
      /\ DOMAIN p = 1 .. Len(p) /\ DOMAIN q = 1 .. Len(p) + 1
      /\ \A i \in DOMAIN p : i + 1 \in DOMAIN q /\ p[i] = q[i + 1]
      /\ Head(q) = q[1]
  OBVIOUS
<1>2. ASSUME NEW i \in 0 .. Len(p) PROVE UsersTo(q, i + 1) = UsersTo(p, i) + d
  <2> DEFINE S == {j \in 1..i : p[j].do = "user"}
             T == {j \in 2..i+1 : q[j].do = "user"}
             U == {j \in 1..i+1 : q[j].do = "user"}
             g == [j \in S |-> j + 1]
  <2>1. g \in Bijection(S, T)
    <3>1. \A j \in S : j + 1 \in T
      BY <1>1
    <3>2. \A k \in T : k - 1 \in S /\ (k - 1) + 1 = k
      BY <1>1
    <3>3. \A k \in T : \E j \in S : g[j] = k
      <4> TAKE k \in T
      <4>1. k - 1 \in S /\ g[k - 1] = k
        BY <3>2
      <4> QED BY <4>1
    <3>4. \A j, k \in S : g[j] = g[k] => j = k
      OBVIOUS
    <3> QED BY <3>1, <3>3, <3>4 DEF Bijection, Injection, IsInjective, Surjection
  <2>2. IsFiniteSet(S) /\ i \in Nat
    <3>1. i \in Nat
      BY <1>1
    <3> QED BY <3>1, UsersToFinite, Zenon
  <2>3. IsFiniteSet(T) /\ Cardinality(T) = Cardinality(S)
    <3> HIDE DEF S, T, g
    <3> QED BY <2>1, <2>2, FS_Bijection DEF ExistsBijection
  <2>4. U = IF q[1].do = "user" THEN T \cup {1} ELSE T
    BY <2>2
  <2>5. 1 \notin T
    OBVIOUS
  <2>6. UsersTo(q, i + 1) = Cardinality(U) /\ UsersTo(p, i) = Cardinality(S)
        /\ Cardinality(S) \in Nat
    BY <2>2, FS_CardinalityType DEF UsersTo
  <2>7. IsFiniteSet(T) /\ 1 \notin T => Cardinality(T \cup {1}) = Cardinality(T) + 1
    BY FS_AddElement
  <2> HIDE DEF S, T, U
  <2> QED BY <2>3, <2>4, <2>5, <2>6, <2>7
<1>3. UsersTo(q, Len(q)) = n + d
  BY <1>1, <1>2
<1>4. ASSUME NEW k \in 1..n PROVE Users(q)[k + d] = Users(p)[k]
  <2>1. PICK i \in DOMAIN p : IsUser(p, k, i)
    BY UserIsFound
  <2>2. i + 1 \in DOMAIN q /\ IsUser(q, k + d, i + 1) /\ q[i + 1] = p[i]
    BY <1>1, <1>2, <2>1 DEF IsUser
  <2>3. k + d \in 1 .. UsersTo(q, Len(q)) /\ k \in 1 .. UsersTo(p, Len(p))
    BY <1>3
  <2>4. Users(q)[k + d] = q[i + 1].id
    BY <2>2, <2>3, UsersAt
  <2>5. Users(p)[k] = p[i].id
    BY <2>1, <2>3, UsersAt
  <2> QED BY <2>2, <2>4, <2>5
<1>5. /\ Users(p) \in Seq(Task) /\ Len(Users(p)) = n
      /\ Users(q) \in Seq(Task) /\ Len(Users(q)) = n + d
  BY <1>3, UsersType
<1>6. PICK a \in Seq(Task), b \in Seq(Task) : a = Users(p) /\ b = Users(q)
  BY <1>5
<1>7. Len(a) = n /\ Len(b) = n + d /\ \A k \in 1..n : b[k + d] = a[k]
  BY <1>4, <1>5, <1>6
<1>8. CASE q[1].do = "user"
  <2>1. UsersTo(q, 1) = 1
    BY <1>8, UsersToNext
  <2>2. IsUser(q, 1, 1) /\ 1 \in DOMAIN q /\ 1 \in 1 .. UsersTo(q, Len(q))
    BY <1>1, <1>3, <1>8, <2>1 DEF IsUser
  <2>3. b[1] = q[1].id
    BY <1>6, <2>2, UsersAt
  <2>4. Len(b) = n + 1 /\ \A k \in 1..n : b[k + 1] = a[k]
    BY <1>7, <1>8
  <2>5. b # <<>> /\ Head(b) = b[1] /\ Tail(b) = a
    BY <1>7, <2>4
  <2> QED BY <1>1, <1>6, <1>8, <2>3, <2>5
<1>9. CASE q[1].do # "user"
  <2>1. Len(b) = n /\ \A k \in 1..n : b[k] = a[k]
    BY <1>7, <1>9
  <2>2. b = a
    BY <1>7, <2>1
  <2> QED BY <1>1, <1>6, <1>9, <2>2
<1> QED BY <1>8, <1>9

\* Functors were taken only while they run.
TakenInv == at # "functors" => taken = <<>>

LEMMA SpecTakenInv == Spec => []TakenInv
<1>1. Init => TakenInv
  BY DEF Init, InitLoop, TakenInv
<1>2. TakenInv /\ [Next]_vars => TakenInv'
  <2> SUFFICES ASSUME TakenInv, [Next]_vars PROVE TakenInv'
    OBVIOUS
  <2> USE DEF TakenInv
  <2>1. CASE LoopStep
    <3>1. CASE PollTimers \/ HandleIo \/ ReadTimers \/ ResetTimers \/ HandleWakeup
      BY <3>1 DEF PollTimers, Poll, HandleIo, Handle, ReadTimers, ResetTimers, HandleWakeup
    <3>2. CASE \E t \in Timer : RunTimer(t)
      BY <3>2 DEF RunTimer
    <3>3. CASE RunFunctor \/ TakeFunctors \/ EndRound
      BY <3>3 DEF RunFunctor, TakeFunctors, EndRound
    <3> QED BY <2>1, <3>1, <3>2, <3>3 DEF LoopStep
  <2>2. CASE \E c \in Thread : AddFrom(c) \/ CancelFrom(c) \/ CallFrom(c)
    BY <2>2 DEF AddFrom, CancelFrom, CallFrom, Push, QuitFrom, Wakeup
  <2>3. CASE Tick \/ UNCHANGED vars
    BY <2>3 DEF Tick, vars, loopVars
  <2> QED BY <2>1, <2>2, <2>3 DEF Next
<1> QED BY <1>1, <1>2, PTL DEF Spec

\* A step that queues no functor and runs none.
LEMMA SameFunctors ==
  ASSUME taken' = taken, pending' = pending, ran' = ran
  PROVE  UNCHANGED <<Users(taken \o pending), ran>>
OBVIOUS

\* One more functor is queued: the user's is the last to run.
LEMMA QueuesFunctor ==
  ASSUME TimerTypes, NEW f \in Functor, taken' = taken, pending' = Append(pending, f), ran' = ran
  PROVE  Promise!Next \/ UNCHANGED <<Users(taken \o pending), ran>>
<1>1. taken \in Seq(Functor) /\ pending \in Seq(Functor)
  BY DEF TimerTypes
<1>2. taken \o pending \in Seq(Functor) /\ (taken \o pending)' = Append(taken \o pending, f)
  BY <1>1
<1>3. Users(taken \o pending)' = Users((taken \o pending)')
  OBVIOUS
<1>4. CASE f.do = "user"
  <2>1. Users(taken \o pending)' = Append(Users(taken \o pending), f.id) /\ f.id \in Task
    BY <1>2, <1>3, <1>4, UsersOfAppend DEF Functor
  <2> QED BY <2>1 DEF Promise!Next, Promise!Queue
<1>5. CASE f.do # "user"
  BY <1>2, <1>3, <1>5, UsersOfAppend
<1> QED BY <1>4, <1>5

\* A callback queues one functor or none.
LEMMA CallKeepsPromise ==
  ASSUME TimerTypes, Call, taken' = taken, ran' = ran
  PROVE  Promise!Next \/ UNCHANGED <<Users(taken \o pending), ran>>
BY CallQueueEffect, QueuesFunctor, SameFunctors

LEMMA ConcatAppend ==
  ASSUME NEW p \in Seq(Functor), NEW q \in Seq(Functor), NEW f \in Functor, p # <<>>
  PROVE  Tail(p) \o Append(q, f) = Append(Tail(p) \o q, f)
OBVIOUS

LEMMA RunFunctorKeepsPromise ==
  ASSUME TimerTypes, RunFunctor
  PROVE  Promise!Next \/ UNCHANGED <<Users(taken \o pending), ran>>
<1>0. taken \o pending \in Seq(Functor)
  BY DEF TimerTypes
<1> PICK q \in Seq(Functor) : q = taken \o pending
  BY <1>0
<1>1. taken \in Seq(Functor) /\ pending \in Seq(Functor) /\ taken # <<>> /\ taken' = Tail(taken)
  BY DEF TimerTypes, RunFunctor
<1>2. /\ q # <<>> /\ Head(q) = Head(taken) /\ Tail(q) = Tail(taken) \o pending
      /\ Tail(q) \in Seq(Functor)
  BY <1>1
<1>3. CASE Head(taken).do = "user"
  <2>1. ran' = Append(ran, Head(taken).id) /\ Call
    BY <1>3 DEF RunFunctor
  <2>2. /\ Users(q) # <<>> /\ Head(Users(q)) = Head(taken).id
        /\ Tail(Users(q)) = Users(Tail(q)) /\ Users(Tail(q)) \in Seq(Task)
    BY <1>2, <1>3, UsersOfTail, UsersType
  <2>3. CASE pending' = pending
    <3>0. (taken \o pending)' = Tail(q)
      BY <1>1, <1>2, <2>3
    <3>1. Users(taken \o pending)' = Tail(Users(q)) \o <<>>
      BY <2>2, <3>0
    <3> QED BY <2>1, <2>2, <3>1 DEF Promise!Next, Promise!Run
  <2>4. ASSUME NEW f \in Functor, pending' = Append(pending, f)
        PROVE  Promise!Next
    <3>0. (taken \o pending)' = Tail(taken) \o Append(pending, f)
      BY <1>1, <2>4
    <3>6. Tail(taken) \o Append(pending, f) = Append(Tail(taken) \o pending, f)
      BY <1>1, ConcatAppend
    <3>1. (taken \o pending)' = Append(Tail(q), f)
      BY <1>2, <3>0, <3>6
    <3>2. Users(taken \o pending)' = Users(Append(Tail(q), f))
      BY <3>1
    <3>3. Users(taken \o pending)' =
             IF f.do = "user" THEN Append(Users(Tail(q)), f.id) ELSE Users(Tail(q))
      BY <1>2, <3>2, UsersOfAppend
    <3>4. f.do = "user" => f.id \in Task
      BY DEF Functor
    <3>5. \E more \in {<<>>} \cup {<<k>> : k \in Task} :
             Users(taken \o pending)' = Users(Tail(q)) \o more
      <4>1. CASE f.do = "user"
        <5>1. Users(taken \o pending)' = Users(Tail(q)) \o <<f.id>>
          BY <2>2, <3>3, <3>4, <4>1
        <5> QED BY <3>4, <4>1, <5>1
      <4>2. CASE f.do # "user"
        <5>1. Users(taken \o pending)' = Users(Tail(q)) \o <<>>
          BY <2>2, <3>3, <4>2
        <5> QED BY <5>1
      <4> QED BY <4>1, <4>2
    <3> QED BY <2>1, <2>2, <3>5 DEF Promise!Next, Promise!Run
  <2> QED BY <2>1, <2>3, <2>4, CallQueueEffect
<1>4. CASE Head(taken).do # "user"
  <2>1. ran' = ran /\ pending' = pending
    BY <1>4 DEF RunFunctor
  <2>2. (taken \o pending)' = Tail(q)
    BY <1>1, <1>2, <2>1
  <2>3. Users(taken \o pending)' = Users(Tail(q))
    BY <2>2
  <2> QED BY <1>2, <1>4, <2>1, <2>3, UsersOfTail
<1> QED BY <1>3, <1>4

LEMMA NextKeepsPromise ==
  ASSUME TimerTypes, TakenInv, [Next]_vars
  PROVE  Promise!Next \/ UNCHANGED <<Users(taken \o pending), ran>>
<1>1. CASE LoopStep
  <2>1. CASE PollTimers \/ ReadTimers \/ ResetTimers
    BY <2>1, SameFunctors DEF PollTimers, Poll, ReadTimers, ResetTimers
  <2>2. CASE HandleIo \/ \E t \in Timer : RunTimer(t)
    BY <2>2, CallKeepsPromise DEF HandleIo, RunTimer
  <2>3. CASE RunFunctor
    BY <2>3, RunFunctorKeepsPromise
  <2>4. CASE (HandleWakeup \/ EndRound) /\ ran' = ran
    BY <2>4, SameFunctors DEF HandleWakeup, EndRound
  <2>5. CASE TakeFunctors /\ ran' = ran
    <3>1. taken = <<>> /\ taken' = pending /\ pending' = <<>> /\ pending \in Seq(Functor)
      BY <2>5 DEF TakeFunctors, TakenInv, TimerTypes
    <3>2. (taken \o pending)' = taken \o pending
      BY <3>1
    <3> QED BY <2>5, <3>2
  <2> QED BY <1>1, <2>1, <2>2, <2>3, <2>4, <2>5 DEF LoopStep
<1>2. CASE \E c \in Thread : AddFrom(c) \/ CancelFrom(c) \/ CallFrom(c)
  <2>1. PICK c \in Thread : AddFrom(c) \/ CancelFrom(c) \/ CallFrom(c)
    BY <1>2
  <2>2. ran' = ran
    BY <2>1 DEF AddFrom, CancelFrom, CallFrom
  <2>3. CASE \E f \in Functor : Push(c, f)
    BY <2>2, <2>3, QueuesFunctor DEF Push
  <2>4. CASE QuitFrom(c) \/ Wakeup(c)
    BY <2>2, <2>4, SameFunctors DEF QuitFrom, Wakeup
  <2>5. \A k \in Task : User(k) \in Functor
    BY DEF User, Functor
  <2>6. \A t \in Timer : [do |-> "add", id |-> t] \in Functor /\ [do |-> "cancel", id |-> t] \in Functor
    BY DEF Functor
  <2> QED BY <2>1, <2>3, <2>4, <2>5, <2>6 DEF AddFrom, CancelFrom, CallFrom
<1>3. CASE Tick \/ UNCHANGED vars
  BY <1>3, SameFunctors DEF Tick, vars, loopVars
<1> QED BY <1>1, <1>2, <1>3 DEF Next

\* The loop implements FunctorQueue (queueInLoop eventloop.cc:132,
\* doPendingFunctors 82): the functors of the user run once each, in the order
\* they were queued, whoever queues them and however the loop swaps its queue.
THEOREM FunctorsKeepOrder == Spec => KeepsPromise
<1>1. Init => Promise!Init
  <2> SUFFICES ASSUME Init PROVE Promise!Init
    OBVIOUS
  <2>1. PICK none \in Seq(Functor) : none = <<>>
    <3>1. <<>> \in Seq(Functor)
      OBVIOUS
    <3> QED BY <3>1
  <2>2. taken \o pending = none /\ ran = <<>> /\ Len(none) = 0
    BY <2>1 DEF Init, InitLoop
  <2>3. Len(Users(none)) = 0 /\ Users(none) \in Seq(Task)
    BY <2>2, UsersType, UsersToNext
  <2>4. Users(none) = <<>>
    BY <2>3
  <2> QED BY <2>2, <2>4 DEF Promise!Init
<1>2. TimerInv /\ TakenInv /\ [Next]_vars => [Promise!Next]_<<Users(taken \o pending), ran>>
  BY NextKeepsPromise DEF TimerInv
<1> QED BY <1>1, <1>2, SpecTimerInv, SpecTakenInv, PTL DEF Spec, KeepsPromise, Promise!Spec
=============================================================================
