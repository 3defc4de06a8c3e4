----------------------------- MODULE BPlusTree -----------------------------
(* skylu/base/bplustree.cc: all keys are in the leaves, which are linked    *)
(* in a ring; the key of an inner node is the largest on its left.          *)
EXTENDS Tree

Init ==
    /\ heap = (1 :> [NewNode EXCEPT !.next = 1, !.prev = 1])
    /\ root = 1
    /\ InitCaller

\* What the left half keeps: a leaf the middle key too.
KeptByInner(child) == M - 1   \* mutant
Kept(child) == IF child.isLeaf THEN M ELSE M - 1

\* The full child c of x at pos gives its upper half to a new right sibling;
\* a leaf keeps the middle key, and the new leaf enters the ring behind it.
SplitChild(h, x, pos, c) ==
    LET new   == Fresh(h)
        child == h[c]
        right == [NewNode EXCEPT !.isLeaf = child.isLeaf, !.num = M - 1,
                                 !.k = Copy(@, 0, child.k, M, M - 1),
                                 !.p = IF child.isLeaf THEN @ ELSE Copy(@, 0, child.p, M, M)]
        split == [h EXCEPT ![c].num = Kept(child),
                           ![x].p = [Up(@, pos + 1, h[x].num) EXCEPT ![pos + 1] = new],
                           ![x].k = [Up(@, pos, h[x].num - 1) EXCEPT ![pos] = child.k[M - 1]],
                           ![x].num = @ + 1]
    IN  IF child.isLeaf
        THEN (new :> [right EXCEPT !.next = child.next, !.prev = c]) @@
             [split EXCEPT ![child.next].prev = new, ![c].next = new]
        ELSE (new :> right) @@ split

RECURSIVE InsertNonfull(_, _, _)
InsertNonfull(h, x, t) ==
    IF h[x].isLeaf THEN [h EXCEPT ![x] = Added(@, t)]
    ELSE LET pos  == PlaceOf(h[x], t)
             full == h[h[x].p[pos]].num = 2 * M - 1
             g    == IF full THEN SplitChild(h, x, pos, h[x].p[pos]) ELSE h
             down == IF full /\ t > g[x].k[pos] THEN pos + 1 ELSE pos
         IN  InsertNonfull(g, g[x].p[down], t)

Insert(t) ==
    /\ MayInsert(t)
    /\ IF heap[root].num = 2 * M - 1
       THEN LET new == Fresh(heap)
                h   == (new :> [NewNode EXCEPT !.isLeaf = FALSE, !.p[0] = root]) @@ heap
            IN  /\ root' = new
                /\ heap' = InsertNonfull(SplitChild(h, new, 0, root), new, t)
       ELSE /\ root' = root
            /\ heap' = InsertNonfull(heap, root, t)

\* Leaf z leaves the ring.
HalfUnlinked(h, y, z) == [h EXCEPT ![y].next = h[z].next]   \* mutant
Unlinked(h, y, z) == [h EXCEPT ![y].next = h[z].next, ![h[z].next].prev = y]

\* y takes all of z, and as an inner node the key of x at pos.
MergeChild(h, x, pos, y, z) ==
    LET merged ==
            IF h[y].isLeaf
            THEN [h EXCEPT ![y].num = 2 * M - 2,
                           ![y].k = Copy(@, M - 1, h[z].k, 0, M - 1)]
            ELSE [h EXCEPT ![y].num = 2 * M - 1,
                           ![y].k = [Copy(@, M, h[z].k, 0, M - 1) EXCEPT ![M - 1] = h[x].k[pos]],
                           ![y].p = Copy(@, M, h[z].p, 0, M)]
        cut == [merged EXCEPT ![x].k = Down(@, pos + 1, h[x].num - 1),
                              ![x].p = Down(@, pos + 2, h[x].num),
                              ![x].num = @ - 1]
    IN  Freed(IF h[y].isLeaf THEN Unlinked(cut, y, z) ELSE cut, z)

\* z borrows from its left sibling y.  The borrowed key is written over z's
\* first one before z's keys are moved up.
ShiftToRightChild(h, x, pos, y, z) ==
    LET last  == h[y].num - 1
        taken == IF h[z].isLeaf THEN h[y].k[last] ELSE h[x].k[pos]
    IN  [h EXCEPT ![z].num = @ + 1,
                  ![z].k = Up([@ EXCEPT ![0] = taken], 0, h[z].num - 1),
                  ![z].p = IF h[z].isLeaf THEN @
                           ELSE [Up(@, 0, h[z].num) EXCEPT ![0] = h[y].p[h[y].num]],
                  ![x].k[pos] = h[y].k[IF h[z].isLeaf THEN last - 1 ELSE last],
                  ![y].num = @ - 1]

\* y borrows from its right sibling z.
ShiftToLeftChild(h, x, pos, y, z) ==
    [h EXCEPT ![y].num = @ + 1,
              ![y].k[h[y].num] = IF h[z].isLeaf THEN h[z].k[0] ELSE h[x].k[pos],
              ![y].p = IF h[z].isLeaf THEN @ ELSE [@ EXCEPT ![h[y].num + 1] = h[z].p[0]],
              ![x].k[pos] = h[z].k[0],
              ![z].k = Down(@, 1, h[z].num - 1),
              ![z].p = IF h[z].isLeaf THEN @ ELSE Down(@, 1, h[z].num),
              ![z].num = @ - 1]

\* The search goes down into child i of x, which first gets a key more than
\* half, if it has no more.
RECURSIVE DeleteNonone(_, _, _, _)
DeleteNonone(h, x, t, padding) ==
    IF h[x].isLeaf THEN [h EXCEPT ![x] = Dropped(@, t, padding)]
    ELSE LET i == Find(h[x], t)
             y == h[x].p[i]
             left  == IF i > 0 THEN h[x].p[i - 1] ELSE NULL
             right == IF i < h[x].num THEN h[x].p[i + 1] ELSE NULL
             Spare(a) == a # NULL /\ h[a].num > M - 1
         IN  IF h[y].num # M - 1 THEN DeleteNonone(h, y, t, padding)
             ELSE IF Spare(left)
             THEN DeleteNonone(ShiftToRightChild(h, x, i - 1, left, y), y, t, padding)
             ELSE IF Spare(right)
             THEN DeleteNonone(ShiftToLeftChild(h, x, i, y, right), y, t, padding)
             ELSE IF left # NULL
             THEN DeleteNonone(MergeChild(h, x, i - 1, left, y), left, t, padding)
             ELSE DeleteNonone(MergeChild(h, x, i, y, right), y, t, padding)

Shrinks(h, x) ==
    /\ h[x].num = 1
    /\ \A i \in {0, 1} : h[x].p[i] # NULL
    /\ \A i \in {0, 1} : h[h[x].p[i]].num = M - 1

\* The caller deletes a key that it has put and that LinearPrint shows, or one
\* that need not be there.
Del(t) ==
    /\ MayDelete(t)
    /\ t \in {LeafKeys(heap, root)[i] : i \in DOMAIN LeafKeys(heap, root)} \cup Strangers
    /\ \E padding \in {0, t} :
          IF Shrinks(heap, root)
          THEN LET y == heap[root].p[0]
                   h == MergeChild(heap, root, 0, y, heap[root].p[1])
               IN  /\ root' = y
                   /\ heap' = DeleteNonone(Freed(h, root), y, t, padding)
          ELSE /\ root' = root
               /\ heap' = DeleteNonone(heap, root, t, padding)

Next == \E t \in Key : Insert(t) \/ Del(t)
Spec == Init /\ [][Next]_vars
-----------------------------------------------------------------------------
\* What LinearPrint prints: the ring from the leftmost leaf on.
RECURSIVE Leftmost(_, _)
Leftmost(h, x) == IF h[x].isLeaf THEN x ELSE Leftmost(h, h[x].p[0])

RECURSIVE Ring(_, _, _)
Ring(h, first, x) ==
    IF h[x].next = first THEN <<x>> ELSE <<x>> \o Ring(h, first, h[x].next)

\* The ring has the leaves of the tree from left to right, and back, so that
\* LinearPrint comes to an end and shows each leaf, whatever was split and
\* merged.
RingIsLeaves ==
    LET leaves == LeavesAt(heap, root, 0)
        first  == Leftmost(heap, root)
    IN  /\ Ring(heap, first, first) = [i \in DOMAIN leaves |-> leaves[i].leaf]
        /\ \A a \in DOMAIN heap : heap[a].isLeaf => heap[heap[a].next].prev = a

\* An insertion adds its key to the leaves and takes nothing away; as long as
\* nothing was deleted the leaves are in order.
InsertAddsOne ==
    /\ \A t \in Key : keys'[t] > keys[t] =>
          CountIn(LeafKeys(heap', root')) =
             [CountIn(LeafKeys(heap, root)) EXCEPT ![t] = @ + 1]
    /\ round' = 0 => Sorted(LeafKeys(heap', root'))

\* What tree.h:121-126 says of a deletion, that it takes its target: borrowing
\* from the left writes over a key of the leaf that borrows (bplustree.cc:262).
DeletionTakesOne ==
    [][\A t \in Key : keys'[t] < keys[t] =>
          CountIn(LeafKeys(heap', root')) =
             [CountIn(LeafKeys(heap, root)) EXCEPT ![t] = @ - 1]]_vars
=============================================================================
