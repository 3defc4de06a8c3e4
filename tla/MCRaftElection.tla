--------------------------- MODULE MCRaftElection ---------------------------
(* Interchangeable nodes, of which some are silent: they take part in no    *)
(* election and hear nothing.  The others go through more terms then, and   *)
(* send more updates.                                                       *)
EXTENDS RaftElection, TLC

CONSTANTS
    MaxSilent,              \* how many nodes may be silent
    FullTerm, FullUpdates   \* bounds when none is

VARIABLE silent

InitMC == Init /\ silent \in {S \in SUBSET Server : Cardinality(S) <= MaxSilent}

InScope ==
    /\ \A i \in silent : term[i] = 0
    /\ silent = {} =>
          /\ \A i \in Server : term[i] <= FullTerm
          /\ Cardinality({m \in msgs : m.type = "update"}) <= FullUpdates

NextMC == Next /\ UNCHANGED silent /\ InScope'

SpecMC == InitMC /\ [][NextMC]_<<silent, vars>>

Symmetry == Permutations(Server)
=============================================================================
