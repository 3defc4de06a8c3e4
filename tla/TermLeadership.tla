--------------------------- MODULE TermLeadership ---------------------------
(***************************************************************************)
(* What leader election promises to the rest of a raft server: every node  *)
(* lives in a term that never goes back, some nodes lead the term they are *)
(* in, and nobody starts to lead a term that another node leads.           *)
(***************************************************************************)
EXTENDS Integers

CONSTANT Server

VARIABLES
    epoch,      \* the term each node is in
    leads       \* the nodes that act as leader of their term

vars == <<epoch, leads>>

Init ==
    /\ epoch = [i \in Server |-> 0]
    /\ leads = {}

\* Only the term of node i changes, and it does not go back.
Advance(i) ==
    /\ epoch' = [epoch EXCEPT ![i] = epoch'[i]]
    /\ epoch'[i] \in Nat
    /\ epoch'[i] >= epoch[i]

\* Node i starts to lead the term it is in from now on.
Win(i) ==
    /\ Advance(i)
    /\ \A j \in leads \ {i} : epoch[j] # epoch'[i]
    /\ leads' = leads \cup {i}

\* Node i leads nothing from now on.
Follow(i) ==
    /\ Advance(i)
    /\ leads' = leads \ {i}

Next == \E i \in Server : Win(i) \/ Follow(i)

Spec == Init /\ [][Next]_vars
=============================================================================
