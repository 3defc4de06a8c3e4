---------------------------- MODULE FunctorQueue ----------------------------
(***************************************************************************)
(* What an event loop promises of the functors it is given: they run one   *)
(* at a time, each once, in the order they were queued, and none that      *)
(* nobody queued.                                                          *)
(***************************************************************************)
EXTENDS Sequences

CONSTANT Task

VARIABLES
    queue,      \* the functors that were queued and have not run
    ran         \* those that have run, in order

Init == queue = <<>> /\ ran = <<>>

Queue(k) ==
    /\ queue' = Append(queue, k)
    /\ UNCHANGED ran

\* The next functor runs, and may queue others meanwhile.
Run ==
    /\ queue # <<>>
    /\ ran' = Append(ran, Head(queue))
    /\ \E more \in {<<>>} \cup {<<k>> : k \in Task} : queue' = Tail(queue) \o more

Next == Run \/ \E k \in Task : Queue(k)

Spec == Init /\ [][Next]_<<queue, ran>>
=============================================================================
