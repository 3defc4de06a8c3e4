---------------------------- MODULE MCStructures ----------------------------
(* The data structures of skylu/base, the items of the key-value server     *)
(* with their file, and the clients that a raft node keeps waiting: one of  *)
(* them in each behaviour.                                                  *)
EXTENDS SharedHash, ShamQueue, Snowflake, ThreadPool, Memcached, RaftServer

CONSTANTS TreeKey, MaxKeys, BTreeTurns, BPlusTurns, Strangers, FewKeys, FewTurns

VARIABLES which, heap, root, keys, round

T == INSTANCE BTree WITH Key <- TreeKey, MaxTurns <- BTreeTurns
P == INSTANCE BPlusTree WITH Key <- TreeKey, MaxTurns <- BPlusTurns
\* The same with fewer keys, filled again after it was emptied.
Q == INSTANCE BPlusTree WITH Key <- FewKeys, MaxTurns <- FewTurns

treeVars == <<heap, root, keys, round>>
vars == <<which, treeVars, hashVars, queueVars, idVars, poolVars, memVars, userVars>>

Init ==
    /\ which \in {"BTree", "BPlusTree", "Refilled", "Shamhash", "ShamQueue", "Snowflake", "ThreadPool", "Memcached",
                 "RaftServer"}
    /\ CASE which = "BPlusTree" -> P!Init
         [] which = "Refilled" -> Q!Init
         [] OTHER -> T!Init
    /\ InitHash /\ InitQueue /\ InitIds /\ InitPool /\ InitMem /\ InitUsers

Next ==
    /\ UNCHANGED which
    /\ \/ which = "BTree" /\ T!Next
          /\ UNCHANGED <<hashVars, queueVars, idVars, poolVars, memVars, userVars>>
       \/ which = "BPlusTree" /\ P!Next
          /\ UNCHANGED <<hashVars, queueVars, idVars, poolVars, memVars, userVars>>
       \/ which = "Refilled" /\ Q!Next
          /\ UNCHANGED <<hashVars, queueVars, idVars, poolVars, memVars, userVars>>
       \/ which = "Shamhash" /\ NextHash
          /\ UNCHANGED <<treeVars, queueVars, idVars, poolVars, memVars, userVars>>
       \/ which = "ShamQueue" /\ NextQueue
          /\ UNCHANGED <<treeVars, hashVars, idVars, poolVars, memVars, userVars>>
       \/ which = "Snowflake" /\ NextIds
          /\ UNCHANGED <<treeVars, hashVars, queueVars, poolVars, memVars, userVars>>
       \/ which = "ThreadPool" /\ NextPool
          /\ UNCHANGED <<treeVars, hashVars, queueVars, idVars, memVars, userVars>>
       \/ which = "Memcached" /\ NextMem
          /\ UNCHANGED <<treeVars, hashVars, queueVars, idVars, poolVars, userVars>>
       \/ which = "RaftServer" /\ NextUsers
          /\ UNCHANGED <<treeVars, hashVars, queueVars, idVars, poolVars, memVars>>

Spec == Init /\ [][Next]_vars
-----------------------------------------------------------------------------
\* The B-tree holds the keys that were put and not deleted, each once, in
\* order, and stays balanced without losing a node: no split, merge or
\* borrowing loses, repeats or misplaces a key (btree.cc:37-342).  The B+ tree
\* stays balanced too, and the ring of its leaves is the leaves from left to
\* right (bplustree.cc:42-314).
TreesAreWhole ==
    /\ which = "BTree" => T!IsBagOfKeys /\ T!Balanced /\ T!NoLeak
    /\ which = "BPlusTree" => P!RingIsLeaves /\ P!Balanced
    /\ which = "Refilled" => Q!RingIsLeaves /\ Q!Balanced

\* An insertion into the B+ tree adds its key to the leaves, and takes nothing
\* away, whatever deletions have left of the tree (bplustree.cc:89).
BPlusTreeAdds ==
    [][/\ which = "BPlusTree" => P!InsertAddsOne
       /\ which = "Refilled" => Q!InsertAddsOne]_vars
=============================================================================
