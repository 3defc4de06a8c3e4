------------------------------ MODULE EventLoop ------------------------------
(***************************************************************************)
(* The event loop of skylu/net (eventloop.cc): one thread that waits for   *)
(* events, handles them and then runs the functors that were queued for    *)
(* it, by itself or by other threads.  What a functor does is left to the  *)
(* modules that extend this one.                                           *)
(***************************************************************************)
EXTENDS Integers, Sequences

CONSTANT Thread     \* the threads other than the one of the loop

VARIABLES
    pending,    \* m_pendingFunctors
    taken,      \* the functors doPendingFunctors took and has not run yet
    wakeupfd,   \* whether the counter of the eventfd m_wakeupfd is above 0
    isQuit,     \* isQuit
    active,     \* m_activeChannels, those still to be handled
    at,         \* where the thread of the loop is
    waking      \* the threads that still have to call wakeup

loopVars == <<pending, taken, wakeupfd, isQuit, active, at, waking>>

Places == {"poll", "events", "functors", "ended"}

InitLoop ==
    /\ pending = <<>>
    /\ taken = <<>>
    /\ wakeupfd = FALSE
    /\ isQuit = FALSE
    /\ active = {}
    /\ at = "poll"
    /\ waking = {}

-----------------------------------------------------------------------------
(* loop                                                                    *)

\* poll returns with the channels that are ready, after its timeout with none.
Poll(ready) ==
    /\ at = "poll"
    /\ at' = "events"
    /\ active' = ready \cup (IF wakeupfd THEN {"wakeup"} ELSE {})
    /\ UNCHANGED <<pending, taken, wakeupfd, isQuit, waking>>

\* The channel c is handled.
Handle(c) ==
    /\ at = "events"
    /\ c \in active
    /\ active' = active \ {c}

\* handleRead of the eventfd: its counter is read, which sets it to 0.
HandleWakeup ==
    /\ Handle("wakeup")
    /\ wakeupfd' = FALSE
    /\ UNCHANGED <<pending, taken, isQuit, at, waking>>

\* doPendingFunctors: the queue is swapped with an empty one, under the lock.
TakeFunctors ==
    /\ at = "events"
    /\ active = {}
    /\ at' = "functors"
    /\ taken' = pending
    /\ pending' = <<>>
    /\ UNCHANGED <<wakeupfd, isQuit, active, waking>>

\* Mutant: the loop does not look at isQuit again.
GoOn == "poll"

\* while(!isQuit)
Again == IF isQuit THEN "ended" ELSE "poll"

\* Mutant: the queue is cleared once its functors have run.
ClearQueue ==
    /\ at = "functors"
    /\ taken = <<>>
    /\ at' = Again
    /\ pending' = <<>>
    /\ UNCHANGED <<taken, wakeupfd, isQuit, active, waking>>

EndRound ==
    /\ at = "functors"
    /\ taken = <<>>
    /\ at' = Again
    /\ UNCHANGED <<pending, taken, wakeupfd, isQuit, active, waking>>

-----------------------------------------------------------------------------
(* The interface.  A call from another thread is two steps, between which  *)
(* the loop runs: the change, and the wake-up.                             *)

\* Mutant: the functor is put at the head.
PushFront(c, f) ==
    /\ c \notin waking
    /\ waking' = waking \cup {c}
    /\ pending' = <<f>> \o pending
    /\ UNCHANGED <<taken, wakeupfd, isQuit, active, at>>

\* queueInLoop, or runInLoop from another thread.
Push(c, f) ==
    /\ c \notin waking
    /\ waking' = waking \cup {c}
    /\ pending' = Append(pending, f)
    /\ UNCHANGED <<taken, wakeupfd, isQuit, active, at>>

QuitFrom(c) ==
    /\ c \notin waking
    /\ waking' = waking \cup {c}
    /\ isQuit' = TRUE
    /\ UNCHANGED <<pending, taken, wakeupfd, active, at>>

Wakeup(c) ==
    /\ c \in waking
    /\ waking' = waking \ {c}
    /\ wakeupfd' = TRUE
    /\ UNCHANGED <<pending, taken, isQuit, active, at>>

\* Mutant: a functor queued by a functor needs no wake-up.
NeverWakes == FALSE

\* queueInLoop in the thread of the loop wakes it only while functors run.
WakesItself == at = "functors"
QueueHere(f) ==
    /\ pending' = Append(pending, f)
    /\ wakeupfd' = (wakeupfd \/ WakesItself)

-----------------------------------------------------------------------------
(* Properties.                                                             *)

\* The loop never waits beside work: if a functor is queued or quit was called
\* while it is in poll, the eventfd is readable or a thread is about to make
\* it so (queueInLoop eventloop.cc:132-142, quit eventloop.cc:161-166).
WakeupNotLost ==
    at = "poll" /\ (pending # <<>> \/ isQuit) => wakeupfd \/ waking # {}

\* Why: the same must hold of what is queued while functors run, since the
\* loop waits next (queueInLoop eventloop.cc:138).
WakeupInv ==
    /\ WakeupNotLost
    /\ at = "functors" /\ pending # <<>> => wakeupfd \/ waking # {}
=============================================================================
