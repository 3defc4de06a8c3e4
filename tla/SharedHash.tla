----------------------------- MODULE SharedHash -----------------------------
(* A hash in shared memory: Shamhash (skylu/base/shamhash.hpp) on the pool   *)
(* of blocks ShammemPool (shampool.hpp), in a segment of Shammem             *)
(* (shammem.cc).  The segment outlives the process, which may die between    *)
(* the writes to it; the index of keys is in the process and rebuilt.  The   *)
(* fields of the header that are checked together are written in one step,   *)
(* and so is a key, a value and a block that is zeroed.                      *)
EXTENDS Integers, FiniteSets

CONSTANTS
    HashKey, Value,   \* of the hash, without 0, which zeroed memory holds
    MaxNode,     \* blocks of the pool
    MaxCrashes   \* bound

ASSUME NodeAssumption == MaxNode \in Nat

VARIABLES
    shm,       \* the segment: header, and blocks [next, key, value]
    map,       \* Shamhash::m_map, key -> block
    pc,        \* what the process does next, and with which block, key, value
    stored,    \* what calls that returned have stored: key -> value
    crashes

hashVars == <<shm, map, pc, stored, crashes>>

Block == 1..MaxNode
Header == 0         \* where a link leads that was never written: the header
PastEnd == MaxNode + 1
INVALID == -1       \* ShammemPool::INVALID_POINTER, the end of the free list
USED == 0           \* AllocBlock::next of a block that is in use
Zeroed == [next |-> USED, key |-> 0, value |-> 0]
KeepsNext(block) == [Zeroed EXCEPT !.next = block.next]   \* mutant
ZeroedFrom(block) == Zeroed
NoMap == [k \in {} |-> 0]
Without(f, k) == [j \in DOMAIN f \ {k} |-> f[j]]
With(f, k, v) == [j \in DOMAIN f \cup {k} |-> IF j = k THEN v ELSE f[j]]
At(step) == [step |-> step]
On(step, b, k, v) == [step |-> step, b |-> b, key |-> k, value |-> v]

\* Sizes are in blocks.  A new segment is zeroed, header included.
InitHash ==
    /\ shm = [made |-> FALSE, set |-> FALSE, alloc_size |-> 0, alloc_node |-> 0,
              free_list |-> 0, block |-> [b \in Block |-> Zeroed]]
    /\ map = NoMap
    /\ pc = At("down")
    /\ stored = NoMap
    /\ crashes = 0

IsValidBlock(b) == b \in 1..shm.alloc_size
IsUsedBlock(b) == IsValidBlock(b) /\ shm.block[b].next = USED
UsedBlocks == {b \in Block : IsUsedBlock(b)}
CheckHeader == shm.set /\ shm.alloc_node = shm.alloc_size

\* What the free list continues with behind b.  The first word of the header is
\* max_size, and what follows the last block, if it can be read, is zero.
Link(b) ==
    IF b = Header THEN PastEnd ELSE IF b = PastEnd THEN Header ELSE shm.block[b].next

\* Shammem::Init makes the segment or finds it; Init then writes the fields of
\* the header that CheckHeader reads, and after them the end of the free list.
Create ==
    /\ pc.step = "down" /\ ~shm.made
    /\ shm' = [shm EXCEPT !.made = TRUE]
    /\ pc' = At("header")
    /\ UNCHANGED <<map, stored, crashes>>
WriteHeader ==
    /\ pc.step = "header"
    /\ shm' = [shm EXCEPT !.set = TRUE]
    /\ pc' = At("list")
    /\ UNCHANGED <<map, stored, crashes>>
WriteFreeList ==
    /\ pc.step = "list"
    /\ shm' = [shm EXCEPT !.free_list = INVALID]
    /\ pc' = At("idle")
    /\ UNCHANGED <<map, stored, crashes>>

\* Or Init checks the header and rebuilds the index from the used blocks; it
\* gives up if the header is wrong or a key comes up twice.
Attach ==
    /\ pc.step = "down" /\ shm.made
    /\ LET key(b) == shm.block[b].key
           ok == CheckHeader /\ \A b, c \in UsedBlocks : key(b) = key(c) => b = c
       IN  /\ pc' = At(IF ok THEN "idle" ELSE "failed")
           /\ map' = IF ok THEN [k \in {key(b) : b \in UsedBlocks} |->
                                    CHOOSE b \in UsedBlocks : key(b) = k]
                     ELSE NoMap
    /\ UNCHANGED <<shm, stored, crashes>>

\* insert: a free block is popped, or the next one of the pool is taken.  What is
\* popped and is no block makes the call fail, and the list has moved on.
Insert(k, v) ==
    /\ pc.step = "idle" /\ k \notin DOMAIN map
    /\ LET free == shm.free_list
       IN  \/ /\ free # INVALID
              /\ shm' = [shm EXCEPT !.free_list = Link(free)]
              /\ pc' = IF IsValidBlock(free) THEN On("zero", free, k, v) ELSE At("idle")
           \/ /\ free = INVALID /\ shm.alloc_size < MaxNode
              /\ shm' = [shm EXCEPT !.alloc_size = @ + 1]
              /\ pc' = On("count", shm.alloc_size + 1, k, v)
    /\ UNCHANGED <<map, stored, crashes>>
\* A list that has led past the end of the segment may also fault there.
Fault ==
    /\ pc.step = "idle" /\ shm.free_list = PastEnd
    /\ pc' = At("down")
    /\ map' = NoMap
    /\ UNCHANGED <<shm, stored, crashes>>
CountNode ==
    /\ pc.step = "count"
    /\ shm' = [shm EXCEPT !.alloc_node = @ + 1]
    /\ pc' = [pc EXCEPT !.step = "zero"]
    /\ UNCHANGED <<map, stored, crashes>>
Zero ==
    /\ pc.step = "zero"
    /\ shm' = [shm EXCEPT !.block[pc.b] = ZeroedFrom(@)]
    /\ pc' = [pc EXCEPT !.step = "key"]
    /\ UNCHANGED <<map, stored, crashes>>
CopyKey ==
    /\ pc.step = "key"
    /\ shm' = [shm EXCEPT !.block[pc.b].key = pc.key]
    /\ map' = With(map, pc.key, pc.b)
    /\ pc' = [pc EXCEPT !.step = "value"]
    /\ UNCHANGED <<stored, crashes>>
CopyValue ==
    /\ pc.step = "value"
    /\ shm' = [shm EXCEPT !.block[pc.b].value = pc.value]
    /\ stored' = With(stored, pc.key, pc.value)
    /\ pc' = At("idle")
    /\ UNCHANGED <<map, crashes>>

\* erase: the block is linked to the free list in two writes.
Erase(k) ==
    /\ pc.step = "idle" /\ k \in DOMAIN map /\ IsUsedBlock(map[k])
    /\ shm' = [shm EXCEPT !.block[map[k]].next = shm.free_list]
    /\ pc' = On("link", map[k], k, 0)
    /\ stored' = Without(stored, k)
    /\ UNCHANGED <<map, crashes>>
LinkFreeBlock ==
    /\ pc.step = "link"
    /\ shm' = [shm EXCEPT !.free_list = pc.b]
    /\ map' = Without(map, pc.key)
    /\ pc' = At("idle")
    /\ UNCHANGED <<stored, crashes>>

Die ==
    /\ pc.step \notin {"down", "failed"} /\ crashes < MaxCrashes
    /\ crashes' = crashes + 1
    /\ pc' = At("down")
    /\ map' = NoMap
    /\ UNCHANGED <<shm, stored>>

NextHash ==
    \/ Create \/ WriteHeader \/ WriteFreeList \/ Attach
    \/ \E k \in HashKey : Erase(k) \/ \E v \in Value : Insert(k, v)
    \/ CountNode \/ Zero \/ CopyKey \/ CopyValue \/ LinkFreeBlock
    \/ Fault \/ Die

SpecHash == InitHash /\ [][NextHash]_hashVars
-----------------------------------------------------------------------------
\* The free list: what its head leads to, the least set that follows the links.
Linked == Block \cup {Header, PastEnd}
FollowsLinks(S) ==
    /\ shm.free_list # INVALID => shm.free_list \in S
    /\ \A b \in S : Link(b) # INVALID => Link(b) \in S
FreeBlocks ==
    IF shm.set THEN {b \in Linked : \A S \in SUBSET Linked : FollowsLinks(S) => b \in S} ELSE {}

\* The pool never hands out a block twice: whatever died in between, a used
\* block is not on the free list, the list stays within what was allocated once
\* anything was, and each key of the index has a used block of its own that
\* holds it.
BlocksHaveOneOwner ==
    /\ \A b \in FreeBlocks : ~IsUsedBlock(b) /\ (shm.alloc_size > 0 => IsValidBlock(b))
    /\ pc.step = "idle" =>
          \A j, k \in DOMAIN map :
             /\ IsUsedBlock(map[k]) /\ shm.block[map[k]].key = k
             /\ map[j] = map[k] => j = k

\* What insert has returned for, and erase has not been called for, is there
\* with its value in a process that has the segment, also after others died.
CompletedIsKept ==
    pc.step = "idle" =>
        \A k \in DOMAIN stored : k \in DOMAIN map /\ shm.block[map[k]].value = stored[k]

\* The segment is refused only for what a death has left half done: a header
\* that is not written, a block taken and not counted, or two blocks taken and
\* not yet given a key.  No key is ever in two blocks.
RefusedForCause ==
    pc.step = "failed" =>
        \/ ~CheckHeader
        \/ \E b, c \in UsedBlocks : b # c /\ shm.block[b].key = 0 /\ shm.block[c].key = 0

\* The shared hash after a crash between any two of its steps: in a process that
\* can open the segment, what insert returned for is there with its value and no
\* block has two owners; and one that cannot is kept out by an unfinished call.
HashSurvives == CompletedIsKept /\ BlocksHaveOneOwner /\ RefusedForCause

\* What shampool.hpp:38 says of a link: it names the next free node.  A death
\* between the last two writes of the header leaves a list that starts at the
\* header itself, in a segment that CheckHeader accepts (shampool.hpp:130-132).
FreeListLeadsToBlocks == pc.step = "idle" => \A b \in FreeBlocks : IsValidBlock(b)

\* What shamhash.hpp:222 says of the index: init rebuilds it.  A death between
\* alloc_size and alloc_node (shampool.hpp:181-182) has the next init refuse the
\* header, and with it all that was stored.
IndexIsRebuilt == pc.step \in {"idle", "failed"} => DOMAIN stored \subseteq DOMAIN map
=============================================================================
