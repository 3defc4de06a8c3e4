----------------------------- MODULE LoopThread -----------------------------
(* skylu::EventLoopThread over skylu::Thread (net/eventloopthread.cc,       *)
(* base/thread.cc), as EventLoopThreadPool::start uses it: a thread is made,*)
(* started, handed its work through a semaphore, and answers with the       *)
(* address of the loop on its own stack.  The owner destroys the object at  *)
(* the end, which tells the loop to quit and joins the thread.               *)
EXTENDS Integers

VARIABLES
    owner,       \* where the thread that owns the object is
    thread,      \* where the thread of the loop is
    semaphore,   \* m_semaphore of Thread, 1 at the start
    isStart,     \* m_isStart of Thread
    m_loop,      \* the loop's address is set
    loop,        \* "none", "alive", "quitting", "dead": the loop on the stack
    got          \* what startLoop returned

threadVars == <<owner, thread, semaphore, isStart, m_loop, loop, got>>

InitThread ==
    /\ owner = "construct" /\ thread = "none"
    /\ semaphore = 1 /\ isStart = FALSE
    /\ m_loop = FALSE /\ loop = "none" /\ got = FALSE
-----------------------------------------------------------------------------
(* The owner: Thread::Thread, startLoop, ~EventLoopThread.                  *)
Create ==
    /\ owner = "construct"
    /\ owner' = "constructWait" /\ thread' = "begin"
    /\ UNCHANGED <<semaphore, isStart, m_loop, loop, got>>

\* The constructor waits for the semaphore, whose count of 1 lets it through.
Constructed ==
    /\ owner = "constructWait" /\ semaphore > 0
    /\ owner' = "constructed" /\ semaphore' = semaphore - 1
    /\ UNCHANGED <<thread, isStart, m_loop, loop, got>>

\* start sets the flag and posts; startLoop asserts that it was not set.
SetStart ==
    /\ owner = "constructed" /\ ~isStart
    /\ owner' = "start" /\ isStart' = TRUE
    /\ UNCHANGED <<thread, semaphore, m_loop, loop, got>>

PostStart ==
    /\ owner = "start"
    /\ owner' = "lockLoop" /\ semaphore' = semaphore + 1
    /\ UNCHANGED <<thread, isStart, m_loop, loop, got>>

\* while(m_loop == NULL) m_cond.wait(), under the mutex.
LoopIsSet == m_loop

WaitLoop ==
    /\ owner \in {"lockLoop", "loopNotified"}
    /\ IF LoopIsSet
       THEN owner' = "started" /\ got' = m_loop
       ELSE owner' = "waitLoop" /\ UNCHANGED got
    /\ UNCHANGED <<thread, semaphore, isStart, m_loop, loop>>

\* The destructor reads m_loop without the lock and then calls quit.
Destroy ==
    /\ owner = "started"
    /\ owner' = IF m_loop THEN "quit" ELSE "destroyed"
    /\ UNCHANGED <<thread, semaphore, isStart, m_loop, loop, got>>

\* quit sets the flag first, and the loop may leave on it of itself, as its poll
\* returns after kPollTimeMS.
Quit ==
    /\ owner = "quit"
    /\ owner' = "wakeup"
    /\ loop' = IF loop = "alive" THEN "quitting" ELSE loop
    /\ UNCHANGED <<thread, semaphore, isStart, m_loop, got>>

\* Only then it asks the loop for its thread and its eventfd and writes to that.
\* If the loop is dead by then, this reads the stack of a thread that is not
\* joined yet, so what was there, and the write fails or meets another's file.
Wakeup ==
    /\ owner = "wakeup"
    /\ owner' = "join"
    /\ UNCHANGED <<thread, semaphore, isStart, m_loop, loop, got>>

Join ==
    /\ owner = "join" /\ thread = "ended"
    /\ owner' = "destroyed"
    /\ UNCHANGED <<thread, semaphore, isStart, m_loop, loop, got>>
-----------------------------------------------------------------------------
(* The thread: Thread::run, EventLoopThread::ThreadFunc.                    *)
Begin ==
    /\ thread = "begin"
    /\ thread' = "await" /\ semaphore' = semaphore + 1
    /\ UNCHANGED <<owner, isStart, m_loop, loop, got>>

\* Mutant: the thread looks at nothing but the semaphore, which it posted itself.
SeenNever == FALSE

\* while(m_isStart == false) m_semaphore.wait();
StartSeen == isStart

Await ==
    /\ thread = "await"
    /\ thread' = IF StartSeen THEN "construct" ELSE "awaitPost"
    /\ UNCHANGED <<owner, semaphore, isStart, m_loop, loop, got>>

AwaitPost ==
    /\ thread = "awaitPost" /\ semaphore > 0
    /\ thread' = "await" /\ semaphore' = semaphore - 1
    /\ UNCHANGED <<owner, isStart, m_loop, loop, got>>

MakeLoop ==
    /\ thread = "construct"
    /\ thread' = "publish" /\ loop' = "alive"
    /\ UNCHANGED <<owner, semaphore, isStart, m_loop, got>>

\* Sets m_loop and notifies, under the mutex.
Publish ==
    /\ thread = "publish"
    /\ thread' = "loop" /\ m_loop' = TRUE
    /\ owner' = IF owner = "waitLoop" THEN "loopNotified" ELSE owner
    /\ UNCHANGED <<semaphore, isStart, loop, got>>

LeaveLoop ==
    /\ thread = "loop" /\ loop = "quitting"
    /\ thread' = "unpublish"
    /\ UNCHANGED <<owner, semaphore, isStart, m_loop, loop, got>>

Unpublish ==
    /\ thread = "unpublish"
    /\ thread' = "leave" /\ m_loop' = FALSE
    /\ UNCHANGED <<owner, semaphore, isStart, loop, got>>

\* The loop ends with the frame of ThreadFunc, after the mutex is released.
EndThread ==
    /\ thread = "leave"
    /\ thread' = "ended" /\ loop' = "dead" /\ isStart' = FALSE
    /\ UNCHANGED <<owner, semaphore, m_loop, got>>

OwnerStep == Constructed \/ SetStart \/ PostStart \/ WaitLoop \/ Quit \/ Wakeup \/ Join
ThreadStep == Begin \/ Await \/ AwaitPost \/ MakeLoop \/ Publish \/ LeaveLoop \/ Unpublish \/ EndThread

NextThread == Create \/ OwnerStep \/ Destroy \/ ThreadStep

FairThread == WF_threadVars(OwnerStep) /\ WF_threadVars(ThreadStep)
-----------------------------------------------------------------------------
\* startLoop returns a loop that lives until the destructor tells it to quit,
\* and the object is not destroyed under its thread (eventloopthread.cc:19-56).
\* What it says of the loop ends with the flag: see WakeupMeetsLoop.
LoopIsThere ==
    /\ owner \in {"started", "quit"} => got /\ loop = "alive"
    /\ owner = "destroyed" => thread = "ended"

\* quit wakes the eventfd of a loop that is still there, as eventloop.h:58 says
\* of a call from another thread (eventloop.cc:161-166).
WakeupMeetsLoop == owner = "wakeup" => loop # "dead"

\* The thread wakes the constructor once it runs, as thread.cc:24 and :66 say.
ConstructorReturns == owner = "constructWait" ~> owner = "constructed"

\* A thread whose constructor returned is started, whatever the order of the
\* posts (thread.cc:29-74), and its owner gets the loop.
ThreadStarts == owner = "constructed" ~> owner = "started"

\* The destructor ends: it waits for a thread that has been told to end.
DestructorEnds == owner = "quit" ~> owner = "destroyed"
=============================================================================
