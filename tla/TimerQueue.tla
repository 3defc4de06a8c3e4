----------------------------- MODULE TimerQueue -----------------------------
(***************************************************************************)
(* The timers of an event loop (timerqueue.cc) and the functors that add   *)
(* and cancel them, on top of EventLoop.                                   *)
(*                                                                         *)
(* A callback - of a timer, of a descriptor or a functor of the user - is  *)
(* one step and makes one call of the loop's interface, or none.  `clock'  *)
(* is the time of Timestamp::now; it may advance between any two steps.    *)
(***************************************************************************)
EXTENDS EventLoop, FiniteSets, FiniteSetsExt, SequencesExt

CONSTANTS
    Timer,      \* the Timer objects, allocated in any order
    NULL,       \* the null pointer
    Task,       \* the functors of the user, each queued once
    MaxTime     \* bound: the clock stops here, and no timer is set for later

VARIABLES
    clock,          \* Timestamp::now
    timerfd,        \* when m_timerfd becomes readable, 0 if it is not armed
    life,           \* what became of each Timer object
    expiration,     \* m_expiration
    interval,       \* m_interval, 0 for a timer that runs once
    cancelTimers,   \* m_cancelTimers
    torun,          \* the expired timers whose callback has not run yet
    readAt,         \* `now' of handleRead
    asked,          \* history: the timers that somebody asked to cancel
    fired,          \* history: how often each timer has run
    ran             \* history: the functors of the user that have run

timerVars == <<timerfd, life, expiration, interval, cancelTimers, asked>>
vars == <<loopVars, clock, timerVars, torun, readAt, fired, ran>>

Lives == {"none", "new", "active", "expired", "deleted"}

\* m_timers and m_activerTimers, which hold the same timers.
Active == {t \in Timer : life[t] = "active"}
Expired == {t \in Timer : life[t] = "expired"}

User(k) == [do |-> "user", id |-> k]
Queued  == {f.id : f \in {g \in Range(taken \o pending) : g.do = "user"}}

Init ==
    /\ InitLoop
    /\ clock \in 1 .. MaxTime
    /\ timerfd = 0
    /\ life = [t \in Timer |-> "none"]
    /\ expiration = [t \in Timer |-> 0]
    /\ interval = [t \in Timer |-> 0]
    /\ cancelTimers = {}
    /\ torun = {}
    /\ readAt = 0
    /\ asked = {}
    /\ fired = [t \in Timer |-> 0]
    /\ ran = <<>>

-----------------------------------------------------------------------------
(* addTimer, cancelTimer                                                   *)

\* new Timer(cb, when, interval)
Make(t, when, every) ==
    /\ life[t] = "none"
    /\ when \in clock .. MaxTime
    /\ expiration' = [expiration EXCEPT ![t] = when]
    /\ interval' = [interval EXCEPT ![t] = every]

\* runAt and runAfter make a timer that runs once, runEvery one whose first
\* expiration is an interval away.
Whens == {<<w, 0>> : w \in clock .. MaxTime} \cup {<<clock + e, e>> : e \in 1 .. MaxTime}

\* Mutant: the descriptor is armed for the first timer only.
ArmsIfAlone(when) == Active = {}

\* insert: is this the first timer to expire?
IsEarliest(when) == \A t \in Active : when < expiration[t]

\* addTimerInLoop
Insert(t, when) ==
    /\ life' = [life EXCEPT ![t] = "active"]
    /\ timerfd' = IF IsEarliest(when) THEN when ELSE timerfd

\* The pair that m_activerTimers holds, and the one that addTimer returns: the
\* constructor of Timerid drops the pointer (timerid.h:15).
ActiveTimer(t) == [timer |-> t, sequence |-> t]
Timerid(t)     == [timer |-> NULL, sequence |-> t]

\* cancelTimerInLoop
Cancel(id) ==
    IF \E t \in Active : ActiveTimer(t) = id
    THEN /\ life' = [life EXCEPT ![id.timer] = "deleted"]
         /\ UNCHANGED cancelTimers
    ELSE /\ cancelTimers' = IF at = "expired" THEN cancelTimers \cup {id} ELSE cancelTimers
         /\ UNCHANGED life

-----------------------------------------------------------------------------
(* The interface, called by the thread of the loop from within a callback. *)

CallNothing == UNCHANGED <<pending, wakeupfd, isQuit, timerVars>>

CallAdd ==
    /\ \E t \in Timer, w \in Whens : Make(t, w[1], w[2]) /\ Insert(t, w[1])
    /\ UNCHANGED <<pending, wakeupfd, isQuit, cancelTimers, asked>>

CallCancel ==
    /\ \E t \in Timer \ asked :
          /\ life[t] # "none"
          /\ Cancel(Timerid(t))
          /\ asked' = asked \cup {t}
    /\ UNCHANGED <<pending, wakeupfd, isQuit, timerfd, expiration, interval>>

CallQueue ==
    /\ \E k \in Task \ (Queued \cup Range(ran)) : QueueHere(User(k))
    /\ UNCHANGED <<isQuit, timerVars>>

CallQuit ==
    /\ isQuit' = TRUE
    /\ UNCHANGED <<pending, wakeupfd, timerVars>>

Call == CallNothing \/ CallAdd \/ CallCancel \/ CallQueue \/ CallQuit

-----------------------------------------------------------------------------
(* The steps of the loop.                                                  *)

TimerReady == timerfd # 0 /\ timerfd <= clock

\* Other descriptors may be ready too.
PollTimers ==
    /\ \E io \in {{}, {"io"}} :
          Poll(io \cup (IF TimerReady THEN {"timer"} ELSE {}))
    /\ UNCHANGED <<clock, timerVars, torun, readAt, fired, ran>>

\* The read callback of some other channel.
HandleIo ==
    /\ Handle("io")
    /\ Call
    /\ UNCHANGED <<taken, at, waking, clock, torun, readAt, fired, ran>>

\* handleRead, to the end of getExpired.
ReadTimers ==
    /\ Handle("timer")
    /\ at' = "expired"
    /\ readAt' = clock
    /\ timerfd' = IF TimerReady THEN 0 ELSE timerfd
    /\ torun' = {t \in Active : expiration[t] <= clock}
    /\ life' = [t \in Timer |-> IF t \in torun' THEN "expired" ELSE life[t]]
    /\ UNCHANGED <<pending, taken, wakeupfd, isQuit, waking, clock, expiration, interval,
                   cancelTimers, asked, fired, ran>>

\* The expired timers run in the order of their expiration.
RunTimer(t) ==
    /\ at = "expired"
    /\ t \in torun
    /\ \A u \in torun : expiration[t] <= expiration[u]
    /\ torun' = torun \ {t}
    /\ fired' = [fired EXCEPT ![t] = @ + 1]
    /\ Call
    /\ UNCHANGED <<taken, active, at, waking, clock, readAt, ran>>

\* Mutants: a timer is put back with its old expiration; the descriptor is not
\* armed again.
SameExpiration(t) == expiration[t]
NeverRearms == timerfd

Repeats(t) == interval[t] > 0 /\ ActiveTimer(t) \notin cancelTimers
NextExpiration(t) == readAt + interval[t]
AfterRun(t) == IF Repeats(t) THEN "active" ELSE "deleted"
Rearmed == IF Active' = {} THEN timerfd ELSE Min({expiration'[t] : t \in Active'})

\* reset: timers that repeat are put back, others deleted; the descriptor is
\* armed for the earliest one there is.
ResetTimers ==
    /\ at = "expired"
    /\ torun = {}
    /\ at' = "events"
    /\ life' = [t \in Timer |-> IF t \in Expired THEN AfterRun(t) ELSE life[t]]
    /\ expiration' = [t \in Timer |-> IF t \in Expired /\ Repeats(t)
                                      THEN NextExpiration(t) ELSE expiration[t]]
    /\ timerfd' = Rearmed
    /\ UNCHANGED <<pending, taken, wakeupfd, isQuit, active, waking, clock, interval,
                   cancelTimers, torun, readAt, asked, fired, ran>>

\* The next functor that was taken runs.
RunFunctor ==
    /\ at = "functors"
    /\ taken # <<>>
    /\ taken' = Tail(taken)
    /\ LET f == Head(taken)
       IN  \/ /\ f.do = "user"
              /\ ran' = Append(ran, f.id)
              /\ Call
           \/ /\ f.do = "add"
              /\ Insert(f.id, expiration[f.id])
              /\ UNCHANGED <<pending, wakeupfd, isQuit, expiration, interval, cancelTimers,
                             asked, ran>>
           \/ /\ f.do = "cancel"
              /\ Cancel(Timerid(f.id))
              /\ UNCHANGED <<pending, wakeupfd, isQuit, timerfd, expiration, interval, asked,
                             ran>>
    /\ UNCHANGED <<active, at, waking, clock, torun, readAt, fired>>

LoopStep ==
    \/ PollTimers
    \/ HandleIo
    \/ ReadTimers
    \/ \E t \in Timer : RunTimer(t)
    \/ ResetTimers
    \/ RunFunctor
    \/ /\ HandleWakeup \/ TakeFunctors \/ EndRound
       /\ UNCHANGED <<clock, timerVars, torun, readAt, fired, ran>>

-----------------------------------------------------------------------------
(* The interface, called by another thread c.                              *)

\* addTimer allocates the timer in the calling thread.  The sequence that it
\* reads from the timer at last may be that of a deleted one; nothing depends
\* on it, since no identifier finds its timer.
AddFrom(c) ==
    /\ \E t \in Timer, w \in Whens :
          /\ Make(t, w[1], w[2])
          /\ Push(c, [do |-> "add", id |-> t])
          /\ life' = [life EXCEPT ![t] = "new"]
    /\ UNCHANGED <<clock, timerfd, cancelTimers, torun, readAt, asked, fired, ran>>

CancelFrom(c) ==
    /\ \E t \in Timer \ asked :
          /\ life[t] # "none"
          /\ Push(c, [do |-> "cancel", id |-> t])
          /\ asked' = asked \cup {t}
    /\ UNCHANGED <<clock, timerfd, life, expiration, interval, cancelTimers, torun, readAt,
                   fired, ran>>

CallFrom(c) ==
    /\ \/ \E k \in Task \ (Queued \cup Range(ran)) : Push(c, User(k))
       \/ ~ isQuit /\ QuitFrom(c)
       \/ Wakeup(c)
    /\ UNCHANGED <<clock, timerVars, torun, readAt, fired, ran>>

Tick ==
    /\ clock < MaxTime
    /\ clock' = clock + 1
    /\ UNCHANGED <<loopVars, timerVars, torun, readAt, fired, ran>>

Next ==
    \/ LoopStep
    \/ \E c \in Thread : AddFrom(c) \/ CancelFrom(c) \/ CallFrom(c)
    \/ Tick

\* The loop's thread and the clock go on, and so does a call that was begun.
Fairness ==
    /\ WF_vars(LoopStep)
    /\ WF_vars(Tick)
    /\ \A c \in Thread : WF_vars(Wakeup(c) /\ UNCHANGED <<clock, timerVars, torun, readAt, fired, ran>>)

Spec == Init /\ [][Next]_vars /\ Fairness

-----------------------------------------------------------------------------
(* Properties.                                                             *)

\* Whenever the loop waits, its descriptor is armed for the timer that expires
\* first, or for an earlier time (insert timerqueue.cc:85, reset 125).
TimersAreArmed ==
    at = "poll" => \A t \in Active : timerfd # 0 /\ timerfd <= expiration[t]

\* A timer that runs once runs at most once, and one that repeats never more
\* often than its intervals have passed (reset timerqueue.cc:125-137).
NotTooOften ==
    \A t \in Timer :
        IF interval[t] = 0 THEN fired[t] <= 1
        ELSE fired[t] * interval[t] <= clock - 1

\* Every functor that was queued runs, unless the loop is told to quit.
FunctorsRun == \A k \in Task : k \in Queued ~> k \in Range(ran) \/ isQuit

\* Every timer that was made runs, unless the loop is told to quit.
TimersRun == \A t \in Timer : life[t] = "new" \/ life[t] = "active" ~> fired[t] > 0 \/ isQuit

\* The loop ends after quit, whoever calls it.
QuitEnds == isQuit ~> at = "ended"

\* The functors of the user in q, in order: the k-th is where k of them were met.
UsersTo(q, i) == Cardinality({j \in 1..i : q[j].do = "user"})
IsUser(q, k, i) == q[i].do = "user" /\ UsersTo(q, i) = k
Users(q) == [k \in 1 .. UsersTo(q, Len(q)) |-> q[CHOOSE i \in DOMAIN q : IsUser(q, k, i)].id]

\* The functors of the user run once each, in the order they were queued, by
\* whichever thread (queueInLoop eventloop.cc:132, doPendingFunctors 82).
Promise == INSTANCE FunctorQueue WITH queue <- Users(taken \o pending)
KeepsPromise == Promise!Spec
=============================================================================
