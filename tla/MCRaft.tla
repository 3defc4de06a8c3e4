------------------------------- MODULE MCRaft -------------------------------
(* Two or three nodes, interchangeable.                                    *)
EXTENDS Raft, TLC

Symmetry == Permutations(Server)

\* For the runs that look for a counterexample of many steps: before the last
\* write of a client no heartbeat is sent besides the writes themselves.
FewHeartbeats ==
    emitted < MaxEmits =>
        Cardinality({m \in msgs : m.type = "update"}) <= emitted * (peerNum - 1)
NextFew == NextRaft /\ FewHeartbeats'
SpecFew == InitRaft /\ [][NextFew]_raftVars
=============================================================================
