------------------------------- MODULE BTree -------------------------------
(* skylu/base/btree.cc: the B-tree, one pass down per operation.           *)
EXTENDS Tree

Init ==
    /\ heap = (1 :> NewNode)
    /\ root = 1
    /\ InitCaller

\* The full child c of x at pos gives its upper half to a new right sibling.
SplitChild(h, x, pos, c) ==
    LET new   == Fresh(h)
        child == h[c]
        right == [NewNode EXCEPT !.isLeaf = child.isLeaf, !.num = M - 1,
                                 !.k = Copy(@, 0, child.k, M, M - 1),
                                 !.p = IF child.isLeaf THEN @ ELSE Copy(@, 0, child.p, M, M)]
    IN  (new :> right) @@
        [h EXCEPT ![c].num = M - 1,
                  ![x].p = [Up(@, pos + 1, h[x].num) EXCEPT ![pos + 1] = new],
                  ![x].k = [Up(@, pos, h[x].num - 1) EXCEPT ![pos] = child.k[M - 1]],
                  ![x].num = @ + 1]

RECURSIVE InsertNonfull(_, _, _)
InsertNonfull(h, x, t) ==
    IF h[x].isLeaf THEN [h EXCEPT ![x] = Added(@, t)]
    ELSE LET pos  == PlaceOf(h[x], t)
             full == h[h[x].p[pos]].num = 2 * M - 1
             g    == IF full THEN SplitChild(h, x, pos, h[x].p[pos]) ELSE h
             down == IF full /\ t > g[x].k[pos] THEN pos + 1 ELSE pos
         IN  InsertNonfull(g, g[x].p[down], t)

Insert(t) ==
    /\ MayInsert(t)
    /\ IF heap[root].num = 2 * M - 1
       THEN LET new == Fresh(heap)
                h   == (new :> [NewNode EXCEPT !.isLeaf = FALSE, !.p[0] = root]) @@ heap
            IN  /\ root' = new
                /\ heap' = InsertNonfull(SplitChild(h, new, 0, root), new, t)
       ELSE /\ root' = root
            /\ heap' = InsertNonfull(heap, root, t)

\* The middle key of a merged node is the key of the parent between the two.
MiddleIsLast(h, x, pos, y) == h[y].k[h[y].num - 1]   \* mutant
Middle(h, x, pos, y) == h[x].k[pos]

\* y takes the key of x at pos and all of z.
MergeChild(h, x, pos, y, z) ==
    Freed([h EXCEPT ![y].num = 2 * M - 1,
                    ![y].k = [Copy(@, M, h[z].k, 0, M - 1) EXCEPT ![M - 1] = Middle(h, x, pos, y)],
                    ![y].p = IF h[z].isLeaf THEN @ ELSE Copy(@, M, h[z].p, 0, M),
                    ![x].k = Down(@, pos + 1, h[x].num - 1),
                    ![x].p = Down(@, pos + 2, h[x].num),
                    ![x].num = @ - 1], z)

RECURSIVE SearchPredecessor(_, _)
SearchPredecessor(h, x) ==
    IF h[x].isLeaf THEN h[x].k[h[x].num - 1] ELSE SearchPredecessor(h, h[x].p[h[x].num])
RECURSIVE SearchSuccessor(_, _)
SearchSuccessor(h, x) ==
    IF h[x].isLeaf THEN h[x].k[0] ELSE SearchSuccessor(h, h[x].p[0])

\* z borrows from its left sibling y, or y from its right sibling z.
ShiftToRightChild(h, x, pos, y, z) ==
    [h EXCEPT ![z].num = @ + 1,
              ![z].k = [Up(@, 0, h[z].num - 1) EXCEPT ![0] = h[x].k[pos]],
              ![z].p = IF h[z].isLeaf THEN @
                       ELSE [Up(@, 0, h[z].num) EXCEPT ![0] = h[y].p[h[y].num]],
              ![x].k[pos] = h[y].k[h[y].num - 1],
              ![y].num = @ - 1]
ShiftToLeftChild(h, x, pos, y, z) ==
    [h EXCEPT ![y].num = @ + 1,
              ![y].k[h[y].num] = h[x].k[pos],
              ![y].p = IF h[z].isLeaf THEN @ ELSE [@ EXCEPT ![h[y].num + 1] = h[z].p[0]],
              ![x].k[pos] = h[z].k[0],
              ![z].k = Down(@, 1, h[z].num - 1),
              ![z].p = IF h[z].isLeaf THEN @ ELSE Down(@, 1, h[z].num),
              ![z].num = @ - 1]

\* Before the search goes down into child i of x, that child gets a key more
\* than half, borrowed from a sibling or by merging with one.  The heap, and
\* the child to go on with.
Filled(h, x, i) ==
    LET y == h[x].p[i]
    IN  CASE h[y].num # M - 1 -> <<h, y>>
          [] h[y].num = M - 1 /\ i > 0 /\ h[h[x].p[i - 1]].num > M - 1 ->
                <<ShiftToRightChild(h, x, i - 1, h[x].p[i - 1], y), y>>
          [] OTHER ->
                IF i < h[x].num /\ h[h[x].p[i + 1]].num > M - 1
                THEN <<ShiftToLeftChild(h, x, i, y, h[x].p[i + 1]), y>>
                ELSE IF i > 0
                THEN <<MergeChild(h, x, i - 1, h[x].p[i - 1], y), h[x].p[i - 1]>>
                ELSE <<MergeChild(h, x, i, y, h[x].p[i + 1]), y>>

RECURSIVE DeleteNonone(_, _, _, _)
DeleteNonone(h, x, t, padding) ==
    IF h[x].isLeaf THEN [h EXCEPT ![x] = Dropped(@, t, padding)]
    ELSE LET i == Find(h[x], t)
         IN  IF i < h[x].num /\ h[x].k[i] = t
             THEN LET y == h[x].p[i]
                      z == h[x].p[i + 1]
                  IN  IF h[y].num > M - 1
                      THEN LET pre == SearchPredecessor(h, y)
                           IN  DeleteNonone([h EXCEPT ![x].k[i] = pre], y, pre, padding)
                      ELSE IF h[z].num > M - 1
                      THEN LET next == SearchSuccessor(h, z)
                           IN  DeleteNonone([h EXCEPT ![x].k[i] = next], z, next, padding)
                      ELSE DeleteNonone(MergeChild(h, x, i, y, z), y, t, padding)
             ELSE LET f == Filled(h, x, i) IN DeleteNonone(f[1], f[2], t, padding)

\* The root of one key whose two children are minimal is merged with them.
Shrinks(h, x) ==
    /\ h[x].num = 1
    /\ \A i \in {0, 1} : h[x].p[i] # NULL
    /\ \A i \in {0, 1} : h[h[x].p[i]].num = M - 1

\* The caller deletes a key that it has put, or one that need not be there.
Del(t) ==
    /\ MayDelete(t)
    /\ \E padding \in {0, t} :
          IF Shrinks(heap, root)
          THEN LET y == heap[root].p[0]
                   h == MergeChild(heap, root, 0, y, heap[root].p[1])
               IN  /\ root' = y
                   /\ heap' = DeleteNonone(Freed(h, root), y, t, padding)
          ELSE /\ root' = root
               /\ heap' = DeleteNonone(heap, root, t, padding)

Next == \E t \in Key : Insert(t) \/ Del(t)
Spec == Init /\ [][Next]_vars
-----------------------------------------------------------------------------
\* What InorderPrint and LevelPrint print.
RECURSIVE InOrder(_, _)
InOrder(h, x) ==
    IF x = NULL THEN <<>>
    ELSE LET RECURSIVE From(_)
             From(i) == IF i = h[x].num THEN <<>>
                        ELSE <<h[x].k[i]>> \o InOrder(h, h[x].p[i + 1]) \o From(i + 1)
         IN  InOrder(h, h[x].p[0]) \o From(0)

RECURSIVE LevelOrder(_, _)
LevelOrder(h, queue) ==
    IF queue = <<>> THEN <<>>
    ELSE LET node == h[Head(queue)]
             below == SelectSeq([i \in 1..node.num + 1 |-> node.p[i - 1]], LAMBDA a : a # NULL)
         IN  [i \in 1..node.num |-> node.k[i - 1]] \o LevelOrder(h, Tail(queue) \o below)

\* The tree holds the keys that were put and not deleted, each as often, in
\* order: no split, merge or borrowing loses, repeats or misplaces one.
IsBagOfKeys ==
    /\ CountIn(InOrder(heap, root)) = keys
    /\ CountIn(LevelOrder(heap, <<root>>)) = keys
    /\ Sorted(InOrder(heap, root))

\* What btree.cc:217 prints of a key that is not there: not found, so nothing is
\* taken.  A leaf is searched up to num and then compared at num, where a key
\* that has left it may still be (btree.cc:209), also where no leaf is full and
\* the comparison stays within the array.
NotFoundTakesNothing ==
    [][keys' = keys /\ (\A a \in DOMAIN heap : heap[a].num < 2 * M - 1) =>
          CountIn(InOrder(heap', root')) = CountIn(InOrder(heap, root))]_vars

\* Every node that was allocated hangs in the tree, and none that was freed.
NoLeak == Len(LeavesAt(heap, root, 0)) = Cardinality({a \in DOMAIN heap : heap[a].isLeaf})
=============================================================================
