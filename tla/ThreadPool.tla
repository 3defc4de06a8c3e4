----------------------------- MODULE ThreadPool -----------------------------
(* skylu::ThreadPool over skylu::SafeQueue (base/threadpool.cc,             *)
(* base/safequeue.h): workers wait for tasks under a mutex and a condition  *)
(* variable; other threads add tasks, and one joins the workers.  A step is *)
(* what a thread does while it holds the mutex, which pthread_cond_wait     *)
(* gives up: the signal of a push may wake a worker that finds the queue    *)
(* empty again, taken by a worker that came in between.                     *)
EXTENDS Integers, Sequences, FiniteSets

CONSTANTS
    Worker, Work,    \* the threads of the pool; the tasks that are added
    Capacity         \* m_capacity of the queue, 0: no limit

ASSUME WorkerAssumption == IsFiniteSet(Worker)

VARIABLES
    worker,      \* Worker -> where the thread is in its loop
    tasks,       \* m_tasks, the queue
    ran,         \* the tasks in the order they were begun
    refused,     \* the tasks that push did not take
    isStop,
    joiner       \* "idle", "joining", "done": the thread that calls join

poolVars == <<worker, tasks, ran, refused, isStop, joiner>>

Places == {"check", "lock", "waiting", "woken", "running", "ended"}
WorkersAt(place) == {w \in Worker : worker[w] = place}

InitPool ==
    /\ worker = [w \in Worker |-> "check"]
    /\ tasks = <<>> /\ ran = <<>> /\ refused = {}
    /\ isStop = FALSE /\ joiner = "idle"
-----------------------------------------------------------------------------
\* Mutant: only a task that finds the queue empty wakes a worker.
NotifiedIfEmpty ==
    IF tasks = <<>> /\ WorkersAt("waiting") /= {}
    THEN {[worker EXCEPT ![w] = "woken"] : w \in WorkersAt("waiting")}
    ELSE {worker}

\* push signals the condition for every task.
Notified ==
    IF WorkersAt("waiting") /= {}
    THEN {[worker EXCEPT ![w] = "woken"] : w \in WorkersAt("waiting")}
    ELSE {worker}

Begun == {ran[i] : i \in DOMAIN ran}
Queued == {tasks[i] : i \in DOMAIN tasks}

AddTask(t) ==
    /\ t \notin Begun \cup Queued \cup refused
    /\ IF Capacity > 0 /\ Len(tasks) = Capacity
       THEN refused' = refused \cup {t} /\ UNCHANGED <<worker, tasks>>
       ELSE tasks' = Append(tasks, t) /\ worker' \in Notified /\ UNCHANGED refused
    /\ UNCHANGED <<ran, isStop, joiner>>

\* The loop of a worker reads isStop without a lock.
CheckStop(w) ==
    /\ worker[w] = "check"
    /\ worker' = [worker EXCEPT ![w] = IF isStop THEN "ended" ELSE "lock"]
    /\ UNCHANGED <<tasks, ran, refused, isStop, joiner>>

\* pop_wait: waits while the queue is empty, whoever woke it.
PopWait(w) ==
    /\ worker[w] \in {"lock", "woken"}
    /\ IF tasks = <<>>
       THEN worker' = [worker EXCEPT ![w] = "waiting"] /\ UNCHANGED <<tasks, ran>>
       ELSE /\ worker' = [worker EXCEPT ![w] = "running"]
            /\ tasks' = Tail(tasks) /\ ran' = Append(ran, Head(tasks))
    /\ UNCHANGED <<refused, isStop, joiner>>

\* pthread_cond_wait may return without a signal.
SpuriousWakeup(w) ==
    /\ worker[w] = "waiting"
    /\ worker' = [worker EXCEPT ![w] = "woken"]
    /\ UNCHANGED <<tasks, ran, refused, isStop, joiner>>

EndTask(w) ==
    /\ worker[w] = "running"
    /\ worker' = [worker EXCEPT ![w] = "check"]
    /\ UNCHANGED <<tasks, ran, refused, isStop, joiner>>

Join ==
    /\ joiner = "idle"
    /\ isStop' = TRUE /\ joiner' = "joining"
    /\ UNCHANGED <<worker, tasks, ran, refused>>

Joined ==
    /\ joiner = "joining" /\ WorkersAt("ended") = Worker
    /\ joiner' = "done"
    /\ UNCHANGED <<worker, tasks, ran, refused, isStop>>

WorkerStep(w) == CheckStop(w) \/ PopWait(w) \/ EndTask(w)

NextPool ==
    \/ \E w \in Worker : WorkerStep(w) \/ SpuriousWakeup(w)
    \/ \E t \in Work : AddTask(t)
    \/ Join \/ Joined

SpecPool == InitPool /\ [][NextPool]_poolVars
-----------------------------------------------------------------------------
\* While a worker sleeps, another has been woken for each task in the queue.
EnoughAreWoken ==
    WorkersAt("waiting") /= {} => Len(tasks) <= Cardinality(WorkersAt("woken"))

\* Each task begins at most once, and is in the queue no longer.
TasksBeginOnce ==
    Cardinality(Begun) = Len(ran) /\ Begun \cap Queued = {}

\* No task waits beside a worker that sleeps, however workers overtake the
\* woken ones, and none is begun twice (safequeue.h:48-101).
SleepersAreNotNeeded == EnoughAreWoken /\ TasksBeginOnce
=============================================================================
