-------------------------------- MODULE Tree --------------------------------
(* What skylu/base/tree.h gives to BTree and BPlusTree: a node with 2M-1    *)
(* keys and 2M children, and the caller who inserts and deletes.  A node is *)
(* a record of a heap, an address one of its indices.  The arrays have      *)
(* their C++ indices from 0, and what is behind num stays in them, as the   *)
(* search of a leaf may read it.                                            *)
EXTENDS Integers, Sequences, FiniteSets, TLC

CONSTANTS
    Key,        \* the keys a caller inserts, positive numbers
    MaxKeys,    \* bound: how many of them are in the tree at once
    MaxTurns,   \* bound: turns between inserting and deleting
    Strangers   \* keys that a caller may delete without having put them

VARIABLES
    heap,       \* address -> node
    root,       \* Tree::root_
    keys,       \* 1 for each key the caller has put and not deleted, 0 for others
    round       \* how often it has turned between inserting and deleting

vars == <<heap, root, keys, round>>

M == 2
NULL == 0
Slots == 0..2 * M - 2
Children == 0..2 * M - 1

NewNode == [k |-> [i \in Slots |-> 0], p |-> [i \in Children |-> NULL],
            num |-> 0, isLeaf |-> TRUE, prev |-> NULL, next |-> NULL]

\* malloc and free
Fresh(h) == CHOOSE a \in 1..Cardinality(DOMAIN h) + 1 : a \notin DOMAIN h
Freed(h, a) == [b \in DOMAIN h \ {a} |-> h[b]]

\* The loops that move a[lo..hi] one slot up or down, and that copy n slots.
Up(a, lo, hi) == [i \in DOMAIN a |-> IF i - 1 \in lo..hi THEN a[i - 1] ELSE a[i]]
Down(a, lo, hi) == [i \in DOMAIN a |-> IF i + 1 \in lo..hi THEN a[i + 1] ELSE a[i]]
Copy(a, to, b, from, n) ==
    [i \in DOMAIN a |-> IF i \in to..to + n - 1 THEN b[from + i - to] ELSE a[i]]

\* Where a search from the right, for insertion, and from the left end.
PlaceOf(node, t) ==
    CHOOSE i \in 0..node.num :
        /\ \A j \in i..node.num - 1 : t < node.k[j]
        /\ i > 0 => t >= node.k[i - 1]
Find(node, t) ==
    CHOOSE i \in 0..node.num :
        /\ \A j \in 0..i - 1 : t > node.k[j]
        /\ i < node.num => t <= node.k[i]

\* A leaf takes a key; its last slot is free.
Added(node, t) ==
    LET pos == PlaceOf(node, t)
    IN  [node EXCEPT !.k = [Up(@, pos, node.num - 1) EXCEPT ![pos] = t], !.num = @ + 1]

\* A leaf loses a key if slot i holds it.  The code does not look whether i is
\* below num; the slot behind the array is padding, and may hold anything.
Dropped(node, t, padding) ==
    LET i == Find(node, t)
    IN  IF (IF i \in Slots THEN node.k[i] ELSE padding) = t
        THEN [node EXCEPT !.k = Down(@, i + 1, 2 * M - 2), !.num = @ - 1]
        ELSE node

CountIn(s) == [t \in Key |-> Cardinality({i \in DOMAIN s : s[i] = t})]

\* The keys of the leaves from left to right.
RECURSIVE LeafKeys(_, _)
LeafKeys(h, x) ==
    IF h[x].isLeaf
    THEN [i \in 1..h[x].num |-> h[x].k[i - 1]]
    ELSE LET RECURSIVE From(_)
             From(i) == IF i > h[x].num THEN <<>>
                        ELSE LeafKeys(h, h[x].p[i]) \o From(i + 1)
         IN  From(0)

\* The leaves and their depths.
RECURSIVE LeavesAt(_, _, _)
LeavesAt(h, x, depth) ==
    IF h[x].isLeaf THEN <<[leaf |-> x, depth |-> depth]>>
    ELSE LET RECURSIVE From(_)
             From(i) == IF i > h[x].num THEN <<>>
                        ELSE LeavesAt(h, h[x].p[i], depth + 1) \o From(i + 1)
         IN  From(0)

\* The caller inserts for a while, then deletes for a while, MaxTurns times.
InitCaller == keys = [t \in Key |-> 0] /\ round = 0
Turns(odd) == round' = IF round % 2 = odd THEN round ELSE round + 1
Present == {t \in Key : keys[t] > 0}
MayInsert(t) ==
    /\ Turns(0) /\ round' <= MaxTurns
    /\ Cardinality(Present) < MaxKeys
    /\ t \notin Present
    /\ keys' = [keys EXCEPT ![t] = 1]
MayDelete(t) ==
    /\ Turns(1) /\ round' <= MaxTurns
    /\ t \in Present \cup Strangers
    /\ keys' = [keys EXCEPT ![t] = 0]

Sorted(s) == \A i \in 1..Len(s) - 1 : s[i] <= s[i + 1]

\* Every leaf is equally deep, and every node but the root at least half full,
\* however splits, merges and borrowing follow each other.
Balanced ==
    LET leaves == LeavesAt(heap, root, 0)
    IN  /\ \A i, j \in DOMAIN leaves : leaves[i].depth = leaves[j].depth
        /\ \A a \in DOMAIN heap \ {root} : heap[a].num \in M - 1..2 * M - 1
=============================================================================
