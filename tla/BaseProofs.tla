----------------------------- MODULE BaseProofs -----------------------------
(***************************************************************************)
(* What the structures of skylu/base promise to the processes and threads  *)
(* that share them, for any numbers of blocks, keys, values, crashes,      *)
(* writes, threads, tasks and identifiers: the hash in shared memory over  *)
(* crashes at any point, the ring of blocks between processes, the thread  *)
(* pool and the identifiers of Snowflake.                                  *)
(***************************************************************************)
EXTENDS SharedHash, ShamQueue, ThreadPool, Snowflake, FiniteSetTheorems, TLAPS

-----------------------------------------------------------------------------
(* The hash.  A block is free, used, or in the hands of the process that    *)
(* takes it from one to the other, and only then it may be lost.            *)
Inserts == {"count", "zero", "key"}
Holding == {"count", "zero", "key", "value", "link"}
NextOf(b) == shm.block[b].next
AllocBlock == [next : Int, key : HashKey \cup {0}, value : Value \cup {0}]
Segment ==
    [made : BOOLEAN, set : BOOLEAN, alloc_size : 0..MaxNode, alloc_node : Nat,
     free_list : Int, block : [Block -> AllocBlock]]
HashTypes ==
    /\ shm \in Segment
    /\ pc \in [step : {"down", "header", "list", "idle", "failed"}]
              \cup [step : Holding, b : Block, key : HashKey, value : Value \cup {0}]
    /\ \A k \in DOMAIN map : map[k] \in Block

\* A segment without a header has not been used.
Unset ==
    /\ ~shm.set => /\ pc.step \in {"down", "header", "failed"}
                   /\ shm.alloc_size = 0 /\ shm.free_list = Header /\ DOMAIN stored = {}
    /\ shm.set => shm.made
    /\ pc.step = "header" => shm.made /\ ~shm.set
    /\ pc.step = "list" => shm.set /\ shm.alloc_size = 0
    /\ pc.step \in {"down", "header", "list"} => DOMAIN map = {}

\* F is what the links of the free list stay in: blocks that are allocated and
\* not used, each led to from one place only, and none in the process's hands.
Chain(F) ==
    /\ shm.free_list # INVALID => shm.free_list \in F
    /\ \A b \in F : /\ NextOf(b) # INVALID => NextOf(b) \in F /\ NextOf(b) # shm.free_list
                    /\ NextOf(b) # USED /\ b <= shm.alloc_size
    /\ \A b, c \in F : NextOf(b) = NextOf(c) /\ NextOf(b) # INVALID => b = c
    /\ pc.step \in Holding => pc.b \notin F
\* Or the head was never written: nothing can be taken from the pool.
Unlisted == shm.free_list \in {Header, PastEnd} /\ shm.alloc_size = 0
Chained == shm.set => Unlisted \/ \E F \in SUBSET Block : Chain(F)

\* What the process holds a block for.
Held ==
    /\ pc.step \in Holding => pc.b <= shm.alloc_size
    /\ pc.step = "key" => NextOf(pc.b) = USED
    /\ pc.step \in Inserts => pc.key \notin DOMAIN map /\ \A k \in DOMAIN map : map[k] # pc.b
    /\ pc.step \in {"value", "link"} => pc.key \in DOMAIN map /\ map[pc.key] = pc.b
    /\ pc.step = "link" => NextOf(pc.b) = shm.free_list

\* The index is that of the used blocks.
Indexed ==
    pc.step \in Holding \cup {"idle"} =>
        /\ \A k \in DOMAIN map : /\ map[k] <= shm.alloc_size /\ shm.block[map[k]].key = k
                                 /\ NextOf(map[k]) = USED \/ (pc.step = "link" /\ k = pc.key)
        /\ \A b \in UsedBlocks : \/ shm.block[b].key \in DOMAIN map /\ map[shm.block[b].key] = b
                                 \/ pc.step \in Inserts /\ b = pc.b
\* What is stored is in a used block that nobody writes.
Kept ==
    \A k \in DOMAIN stored : \E b \in UsedBlocks :
        /\ shm.block[b].key = k /\ shm.block[b].value = stored[k]
        /\ pc.step \in Holding => b # pc.b

HashInv == HashTypes /\ Unset /\ Chained /\ Held /\ Indexed /\ Kept

\* No key is in two used blocks; what is taken and has no key yet has key 0.
SameKey(b, c) == shm.block[b].key = shm.block[c].key /\ shm.block[b].key # 0
Single ==
    /\ \A b \in Block : b > shm.alloc_size => shm.block[b].key = 0
    /\ pc.step \in Inserts /\ pc.b \in UsedBlocks => shm.block[pc.b].key = 0
    /\ \A b, c \in UsedBlocks : SameKey(b, c) => b = c
    /\ RefusedForCause

LEMMA FreeBlocksStayIn ==
  ASSUME HashTypes, NEW F \in SUBSET Block, shm.set, Chain(F)
  PROVE  FreeBlocks \subseteq F
<1>1. F \in SUBSET Linked
  BY DEF Linked
<1>2. \A b \in F : Link(b) = NextOf(b)
  BY NodeAssumption DEF Link, NextOf, Block, Header, PastEnd
<1>3. FollowsLinks(F)
  BY <1>2 DEF FollowsLinks, Chain
<1> QED BY <1>1, <1>3 DEF FreeBlocks

\* The invariant says what HashSurvives does.
LEMMA HashInvSuffices == HashInv /\ Single => HashSurvives
<1> SUFFICES ASSUME HashInv, Single PROVE HashSurvives
  OBVIOUS
<1> USE DEF HashInv
<1>1. \A b \in FreeBlocks : ~IsUsedBlock(b) /\ (shm.alloc_size > 0 => IsValidBlock(b))
  <2>1. CASE ~shm.set
    BY <2>1 DEF FreeBlocks
  <2>3. CASE shm.alloc_size = 0
    BY <2>3 DEF IsValidBlock, IsUsedBlock
  <2>2. CASE shm.set /\ shm.alloc_size # 0
    <3>1. PICK F \in SUBSET Block : Chain(F)
      BY <2>2 DEF Chained, Unlisted
    <3>2. FreeBlocks \subseteq F
      BY <2>2, <3>1, FreeBlocksStayIn
    <3>3. \A b \in F : b \in 1 .. shm.alloc_size /\ shm.block[b].next # USED
      BY <3>1, NodeAssumption DEF Chain, NextOf, Block, HashTypes, Segment
    <3> QED BY <3>2, <3>3 DEF IsValidBlock, IsUsedBlock
  <2> QED BY <2>1, <2>2, <2>3
<1>2. ASSUME pc.step = "idle"
      PROVE  /\ \A k \in DOMAIN map : IsUsedBlock(map[k]) /\ shm.block[map[k]].key = k
             /\ \A b \in UsedBlocks : shm.block[b].key \in DOMAIN map /\ map[shm.block[b].key] = b
  BY <1>2, NodeAssumption
     DEF Indexed, HashTypes, Segment, IsUsedBlock, IsValidBlock, NextOf, Block, Inserts
<1>3. BlocksHaveOneOwner
  BY <1>1, <1>2 DEF BlocksHaveOneOwner
<1>4. CompletedIsKept
  BY <1>2 DEF CompletedIsKept, Kept
<1> QED BY <1>3, <1>4 DEF HashSurvives, Single

LEMMA InitHashInv == InitHash => HashInv
<1> SUFFICES ASSUME InitHash PROVE HashInv
  OBVIOUS
<1>1. HashTypes
  <2>1. /\ shm.made = FALSE /\ shm.set = FALSE /\ DOMAIN map = {} /\ pc = [step |-> "down"]
        /\ shm \in Segment
    BY NodeAssumption DEF InitHash, Zeroed, NoMap, USED, At, Segment, AllocBlock
  <2> QED BY <2>1 DEF HashTypes, Segment
<1>2. Unset /\ Chained /\ Held /\ Indexed /\ Kept
  BY DEF InitHash, Unset, Chained, Held, Indexed, Kept, Holding, Inserts, NoMap, At, Header
<1> QED BY <1>1, <1>2 DEF HashInv

\* What of the invariant a step keeps that leaves the segment as it is.
LEMMA SegmentStays ==
  ASSUME HashTypes, Chained, Kept, UNCHANGED <<shm, stored>>, pc'.step \notin Holding
  PROVE  Chained' /\ Kept'
<1>1. Chained'
  BY DEF Chained, Unlisted, Chain, NextOf
<1>2. Kept'
  BY DEF Kept, UsedBlocks, IsUsedBlock, IsValidBlock
<1> QED BY <1>1, <1>2

LEMMA SetUpKeeps ==
  ASSUME HashInv, Create \/ WriteHeader \/ WriteFreeList \/ Attach \/ Fault \/ Die
  PROVE  HashInv'
<1> USE DEF HashInv
<1>1. CASE Create
  <2>1. /\ pc' = [step |-> "header"] /\ UNCHANGED <<map, stored>>
        /\ pc.step = "down" /\ ~shm.made
        /\ shm' = [shm EXCEPT !.made = TRUE]
    BY <1>1 DEF Create, At
  <2>2. /\ shm'.set = shm.set /\ shm'.block = shm.block /\ shm'.free_list = shm.free_list
        /\ shm'.alloc_size = shm.alloc_size /\ shm'.made = TRUE
    BY <2>1 DEF HashTypes, Segment
  <2>3. HashTypes'
    BY <2>1 DEF HashTypes, Segment
  <2>4. Unset' /\ Held' /\ Indexed' /\ pc'.step = "header"
    BY <2>1, <2>2 DEF Unset, Held, Indexed, Holding, Inserts
  <2>5. Chained' /\ Kept'
    BY <2>1, <2>2 DEF Unset, Chained, Kept
  <2> QED BY <2>3, <2>4, <2>5
<1>2. CASE WriteHeader
  <2>1. /\ pc' = [step |-> "list"] /\ UNCHANGED <<map, stored>>
        /\ pc.step = "header"
        /\ shm' = [shm EXCEPT !.set = TRUE]
    BY <1>2 DEF WriteHeader, At
  <2>2. /\ shm' \in Segment /\ shm'.set = TRUE /\ shm'.free_list = Header
        /\ shm'.alloc_size = 0 /\ shm'.made = TRUE
    BY <2>1 DEF HashTypes, Segment, Unset
  <2>3. HashTypes'
    BY <2>1, <2>2 DEF HashTypes
  <2>4. Unset' /\ Held' /\ Indexed'
    BY <2>1, <2>2 DEF Unset, Held, Indexed, Holding, Inserts
  <2>5. Unlisted' /\ Kept'
    BY <2>1, <2>2 DEF Unlisted, Kept, Unset
  <2> QED BY <2>3, <2>4, <2>5 DEF Chained
<1>5. CASE WriteFreeList
  <2>1. /\ pc' = [step |-> "idle"] /\ UNCHANGED <<map, stored>>
        /\ pc.step = "list"
        /\ shm' = [shm EXCEPT !.free_list = INVALID]
    BY <1>5 DEF WriteFreeList, At
  <2>2. /\ shm' \in Segment /\ shm'.set = shm.set /\ shm'.free_list = INVALID
        /\ shm'.alloc_size = 0 /\ shm'.made = shm.made /\ shm.set /\ shm.alloc_size = 0
    BY <2>1 DEF HashTypes, Segment, Unset, INVALID
  <2>3. HashTypes'
    BY <2>1, <2>2 DEF HashTypes
  <2>4. Unset' /\ Held'
    BY <2>1, <2>2 DEF Unset, Held, Holding, Inserts
  <2>5. Chain({})'
    BY <2>1, <2>2 DEF Chain, Holding
  <2>6. UsedBlocks' = {} /\ DOMAIN map = {} /\ DOMAIN stored = {}
    <3>1. UsedBlocks' = {} /\ UsedBlocks = {}
      BY <2>2 DEF UsedBlocks, IsUsedBlock, IsValidBlock
    <3> QED BY <2>1, <3>1 DEF Unset, Kept
  <2> QED BY <2>1, <2>3, <2>4, <2>5, <2>6 DEF Chained, Indexed, Kept
<1>3. CASE Attach
  <2>1. UNCHANGED <<shm, stored>> /\ shm.made /\ pc.step = "down"
    BY <1>3 DEF Attach
  <2>2. CASE ~ (CheckHeader /\ \A b, c \in UsedBlocks : shm.block[b].key = shm.block[c].key => b = c)
    <3>1. pc' = [step |-> "failed"] /\ DOMAIN map' = {}
      BY <1>3, <2>2, Zenon DEF Attach, At, NoMap
    <3>2. HashTypes' /\ Unset' /\ Held' /\ Indexed'
      BY <2>1, <3>1 DEF HashTypes, Segment, Unset, Held, Indexed, Holding, Inserts
    <3>3. Chained' /\ Kept'
      BY <2>1, <3>1, SegmentStays DEF Holding
    <3> QED BY <3>2, <3>3
  <2>3. CASE CheckHeader /\ \A b, c \in UsedBlocks : shm.block[b].key = shm.block[c].key => b = c
    <3>1. pc' = [step |-> "idle"] /\ map' = [k \in {shm.block[b].key : b \in UsedBlocks} |->
                                    CHOOSE b \in UsedBlocks : shm.block[b].key = k]
      BY <1>3, <2>3, Zenon DEF Attach, At
    <3>2. /\ \A k \in DOMAIN map' : map'[k] \in UsedBlocks /\ shm.block[map'[k]].key = k
          /\ \A b \in UsedBlocks : shm.block[b].key \in DOMAIN map' /\ map'[shm.block[b].key] = b
      <4>1. \A k \in DOMAIN map' : map'[k] \in UsedBlocks /\ shm.block[map'[k]].key = k
        BY <3>1
      <4>2. \A b \in UsedBlocks : shm.block[b].key \in DOMAIN map'
        BY <3>1
      <4> QED BY <2>3, <4>1, <4>2
    <3>3. HashTypes' /\ Unset' /\ Held'
      BY <2>1, <2>3, <3>1, <3>2
         DEF HashTypes, Segment, Unset, Held, Holding, Inserts, UsedBlocks, CheckHeader
    <3>4. Indexed'
      <4> HIDE DEF HashInv
      <4>1. shm' = shm /\ pc'.step = "idle" /\ UsedBlocks' = UsedBlocks
        BY <2>1, <3>1 DEF UsedBlocks, IsUsedBlock, IsValidBlock
      <4>2. shm.alloc_size \in Nat
        BY NodeAssumption DEF HashInv, HashTypes, Segment
      <4>3. \A b \in UsedBlocks : b <= shm.alloc_size /\ shm.block[b].next = USED
        BY <4>2 DEF UsedBlocks, IsUsedBlock, IsValidBlock
      <4>4. \A k \in DOMAIN map' : /\ map'[k] <= shm'.alloc_size /\ shm'.block[map'[k]].key = k
                                   /\ shm'.block[map'[k]].next = USED
        BY <3>2, <4>1, <4>3
      <4>5. \A b \in UsedBlocks' : shm'.block[b].key \in DOMAIN map' /\ map'[shm'.block[b].key] = b
        BY <3>2, <4>1
      <4> QED BY <4>4, <4>5 DEF Indexed, NextOf
    <3>5. Chained' /\ Kept'
      BY <2>1, <3>1, SegmentStays DEF Holding
    <3> QED BY <3>3, <3>4, <3>5
  <2> QED BY <2>2, <2>3
<1>4. CASE Fault \/ Die
  <2>1. UNCHANGED <<shm, stored>> /\ pc' = [step |-> "down"] /\ DOMAIN map' = {}
    BY <1>4 DEF Fault, Die, At, NoMap
  <2>2. HashTypes' /\ Unset' /\ Held' /\ Indexed'
    BY <1>4, <2>1 DEF HashTypes, Segment, Unset, Held, Indexed, Holding, Inserts, Fault, Die
  <2>3. Chained' /\ Kept'
    BY <2>1, SegmentStays DEF Holding
  <2> QED BY <2>2, <2>3
<1> QED BY <1>1, <1>2, <1>3, <1>4, <1>5

\* A process with a block in its hands has a pool with a free list.
LEMMA HandsHaveChain ==
  ASSUME HashInv, shm.set, shm.alloc_size # 0 \/ pc.step \in Holding
  PROVE  \E F \in SUBSET Block : Chain(F)
<1> USE DEF HashInv
<1>1. shm.alloc_size # 0
  <2>1. pc.step \in Holding => pc.b \in Block /\ pc.b <= shm.alloc_size
    BY DEF Held, HashTypes, Holding
  <2> QED BY <2>1, NodeAssumption DEF Block
<1> QED BY <1>1 DEF Chained, Unlisted

\* A block is written: all else in the segment stays.
LEMMA BlockWritten ==
  ASSUME shm \in Segment, NEW c \in Block, NEW x \in AllocBlock,
         shm' = [shm EXCEPT !.block[c] = x]
  PROVE  /\ shm' \in Segment
         /\ shm'.set = shm.set /\ shm'.made = shm.made /\ shm'.free_list = shm.free_list
         /\ shm'.alloc_size = shm.alloc_size
         /\ shm'.block[c] = x /\ \A b \in Block \ {c} : shm'.block[b] = shm.block[b]
BY DEF Segment

\* A write outside the chain, to the block in the process's hands.
LEMMA ChainStays ==
  ASSUME HashTypes, NEW G \in SUBSET Block, Chain(G),
         shm'.set = shm.set, shm'.free_list = shm.free_list,
         shm'.alloc_size \in Nat, shm'.alloc_size >= shm.alloc_size,
         NEW c \in Block, pc'.step \in Holding => pc'.b = c,
         \A b \in Block \ {c} : shm'.block[b] = shm.block[b],
         \A F \in SUBSET Block : shm.set /\ Chain(F) => c \notin F
  PROVE  Chained'
<1> SUFFICES ASSUME shm.set PROVE \E F \in SUBSET Block : Chain(F)'
  BY DEF Chained
<1>1. PICK F \in SUBSET Block : Chain(F)
  OBVIOUS
<1>2. c \notin F /\ \A b \in F : NextOf(b)' = NextOf(b)
  BY <1>1 DEF NextOf
<1>3. \A b \in F : b <= shm'.alloc_size
  BY <1>1, NodeAssumption DEF Chain, HashTypes, Segment, Block
<1> QED BY <1>1, <1>2, <1>3 DEF Chain

LEMMA InsertUnlisted ==
  ASSUME HashInv, Unlisted, NEW k \in HashKey, NEW v \in Value, Insert(k, v)
  PROVE  HashInv'
<1> USE DEF HashInv
<1>1. /\ pc.step = "idle" /\ UNCHANGED <<map, stored>> /\ shm.set /\ shm.made
      /\ shm.alloc_size = 0 /\ shm.free_list # INVALID /\ Link(shm.free_list) \in {Header, PastEnd}
  BY NodeAssumption DEF Insert, Unset, Unlisted, Link, Header, PastEnd, INVALID
<1>2. ~ IsValidBlock(shm.free_list)
  BY <1>1 DEF IsValidBlock
<1>3. pc' = [step |-> "idle"] /\ shm' = [shm EXCEPT !.free_list = Link(shm.free_list)]
  BY <1>1, <1>2 DEF Insert, At
<1> DEFINE head == Link(shm.free_list)
<1>4. head \in {Header, PastEnd} /\ head \in Int
  BY <1>1, NodeAssumption DEF Header, PastEnd
<1> HIDE DEF head
<1>5. shm' = [shm EXCEPT !.free_list = head]
  BY <1>3 DEF head
<1>6. /\ shm' \in Segment /\ shm'.set = shm.set /\ shm'.made = shm.made
      /\ shm'.alloc_size = 0 /\ shm'.free_list = head /\ shm'.block = shm.block
  BY <1>1, <1>4, <1>5 DEF HashTypes, Segment
<1>7. HashTypes'
  BY <1>1, <1>3, <1>6 DEF HashTypes
<1>8. Unset' /\ Held'
  BY <1>1, <1>3, <1>6 DEF Unset, Held, Holding, Inserts
<1>9. Chained'
  BY <1>4, <1>6 DEF Chained, Unlisted
<1>10. UsedBlocks' = UsedBlocks
  BY <1>1, <1>6 DEF UsedBlocks, IsUsedBlock, IsValidBlock
<1>11. Indexed' /\ Kept'
  BY <1>1, <1>3, <1>6, <1>10 DEF Indexed, Kept, NextOf, Holding, Inserts
<1> QED BY <1>7, <1>8, <1>9, <1>11

LEMMA InsertKeeps ==
  ASSUME HashInv, ~ Unlisted, NEW k \in HashKey, NEW v \in Value, Insert(k, v)
  PROVE  HashInv'
<1> USE DEF HashInv
<1>1. /\ pc.step = "idle" /\ k \notin DOMAIN map /\ UNCHANGED <<map, stored>>
      /\ shm.set /\ shm.made
  BY DEF Insert, Unset
<1>2. PICK F \in SUBSET Block : Chain(F)
  BY <1>1 DEF Chained
<1>3. \A b \in F : b \in Block /\ b \in Nat /\ b \in 1 .. shm.alloc_size
  BY <1>2, NodeAssumption DEF Chain, Block, HashTypes, Segment
<1>4. \A j \in DOMAIN map : map[j] \in Block /\ map[j] <= shm.alloc_size /\ NextOf(map[j]) = USED
  BY <1>1 DEF Indexed, HashTypes
<1>5. CASE shm.free_list # INVALID
  <2>0. PICK free \in F : free = shm.free_list
    BY <1>2, <1>5 DEF Chain
  <2>1. IsValidBlock(free) /\ NextOf(free) # USED
    BY <1>2, <1>3 DEF Chain, IsValidBlock
  <2>2. /\ shm' = [shm EXCEPT !.free_list = NextOf(free)]
        /\ pc' = [step |-> "zero", b |-> free, key |-> k, value |-> v]
    <3>1. Link(free) = NextOf(free)
      BY <1>3, NodeAssumption DEF Link, NextOf, Header, PastEnd, Block
    <3> QED BY <1>5, <2>0, <2>1, <3>1 DEF Insert, On
  <2>3. NextOf(free) \in Int
    BY <2>1, <1>3 DEF NextOf, HashTypes, Segment, AllocBlock
  <2>4. /\ shm' \in Segment /\ shm'.free_list = NextOf(free)
        /\ shm'.set = shm.set /\ shm'.made = shm.made /\ shm'.alloc_size = shm.alloc_size
        /\ shm'.block = shm.block
    BY <2>2, <2>3 DEF HashTypes, Segment
  <2>5. HashTypes'
    BY <1>1, <1>3, <2>1, <2>2, <2>4 DEF HashTypes, Holding
  <2>6. Unset' /\ Held'
    BY <1>1, <1>3, <1>4, <2>1, <2>2, <2>4 DEF Unset, Held, Holding, Inserts
  <2>7. Chain(F \ {free})'
    <3>1. \A b \in F : NextOf(b)' = NextOf(b) /\ (NextOf(b) # INVALID => NextOf(b) # free)
      BY <1>2, <2>0, <2>4 DEF Chain, NextOf
    <3>2. NextOf(free) # INVALID => NextOf(free) \in F \ {free}
      BY <1>2, <2>1, <3>1 DEF Chain
    <3>3. \A b \in F \ {free} : NextOf(b) # INVALID => NextOf(b) \in F \ {free} /\ NextOf(b) # NextOf(free)
      BY <1>2, <2>1, <3>1 DEF Chain
    <3>4. \A b \in F : NextOf(b) # USED /\ b <= shm.alloc_size
      BY <1>2 DEF Chain
    <3>5. \A b, c \in F : NextOf(b) = NextOf(c) /\ NextOf(b) # INVALID => b = c
      BY <1>2 DEF Chain
    <3> QED BY <2>2, <2>4, <3>1, <3>2, <3>3, <3>4, <3>5 DEF Chain
  <2>8. UsedBlocks' = UsedBlocks /\ free \notin UsedBlocks
    BY <2>1, <2>4 DEF UsedBlocks, IsUsedBlock, IsValidBlock, NextOf
  <2>9. Indexed'
    BY <1>1, <2>2, <2>4, <2>8 DEF Indexed, NextOf, Inserts
  <2>10. Kept'
    BY <1>1, <2>2, <2>4, <2>8 DEF Kept
  <2> QED BY <2>5, <2>6, <2>7, <2>9, <2>10 DEF Chained
<1>6. CASE shm.free_list = INVALID
  <2> DEFINE new == shm.alloc_size + 1
  <2>1. /\ shm.alloc_size < MaxNode /\ shm' = [shm EXCEPT !.alloc_size = new]
        /\ pc' = [step |-> "count", b |-> new, key |-> k, value |-> v]
    BY <1>6 DEF Insert, On
  <2>2. new \in Block /\ new \in 0..MaxNode /\ shm.alloc_size \in Nat /\ new > shm.alloc_size
    BY <2>1, NodeAssumption DEF Block, HashTypes, Segment
  <2>3. /\ shm' \in Segment /\ shm'.free_list = INVALID /\ shm'.block = shm.block
        /\ shm'.set = shm.set /\ shm'.made = shm.made /\ shm'.alloc_size = new
    BY <1>6, <2>1, <2>2 DEF HashTypes, Segment
  <2>4. UsedBlocks' \subseteq UsedBlocks \cup {new} /\ new \notin UsedBlocks
        /\ UsedBlocks \subseteq UsedBlocks'
    BY <2>2, <2>3 DEF UsedBlocks, IsUsedBlock, IsValidBlock
  <2>5. new = shm.alloc_size + 1
    OBVIOUS
  <2> HIDE DEF new
  <2>6. HashTypes'
    BY <1>1, <2>1, <2>2, <2>3 DEF HashTypes, Holding
  <2>7. Unset' /\ Held'
    <3>1. \A j \in DOMAIN map : map[j] # new
      BY <1>4, <2>2, NodeAssumption DEF Block
    <3> QED BY <1>1, <2>1, <2>2, <2>3, <3>1 DEF Unset, Held, Holding, Inserts
  <2>8. Chain({})'
    BY <1>6, <2>1, <2>3 DEF Chain
  <2>9. Indexed'
    <3>1. \A j \in DOMAIN map : map[j] <= new
      BY <1>4, <2>2, NodeAssumption DEF Block
    <3> QED BY <1>1, <2>1, <2>3, <2>4, <3>1 DEF Indexed, NextOf, Inserts
  <2>10. Kept'
    BY <1>1, <2>1, <2>3, <2>4 DEF Kept
  <2> QED BY <2>6, <2>7, <2>8, <2>9, <2>10 DEF Chained
<1> QED BY <1>5, <1>6

LEMMA CountNodeKeeps ==
  ASSUME HashInv, CountNode
  PROVE  HashInv'
<1> USE DEF HashInv
<1>1. /\ pc.step = "count" /\ UNCHANGED <<map, stored>> /\ shm.set
      /\ pc \in [step : Holding, b : Block, key : HashKey, value : Value \cup {0}]
  BY DEF CountNode, Unset, HashTypes
<1>2. /\ shm' \in Segment /\ shm'.set = shm.set /\ shm'.made = shm.made
      /\ shm'.free_list = shm.free_list /\ shm'.alloc_size = shm.alloc_size /\ shm'.block = shm.block
  BY DEF CountNode, HashTypes, Segment
<1>3. pc' = [step |-> "zero", b |-> pc.b, key |-> pc.key, value |-> pc.value]
  BY <1>1 DEF CountNode
<1>4. HashTypes'
  BY <1>1, <1>2, <1>3 DEF HashTypes, Holding
<1>5. Unset' /\ Held'
  BY <1>1, <1>2, <1>3 DEF Unset, Held, Holding, Inserts
<1>6. Chained'
  <2>1. PICK F \in SUBSET Block : Chain(F)
    BY <1>1, HandsHaveChain DEF Holding
  <2> QED BY <1>1, <1>2, <1>3, <2>1 DEF Chained, Chain, NextOf, Holding
<1>7. UsedBlocks' = UsedBlocks
  BY <1>2 DEF UsedBlocks, IsUsedBlock, IsValidBlock
<1>8. Indexed'
  BY <1>1, <1>2, <1>3, <1>7 DEF Indexed, NextOf, Holding, Inserts
<1>9. Kept'
  BY <1>1, <1>2, <1>3, <1>7 DEF Kept, Holding
<1> QED BY <1>4, <1>5, <1>6, <1>8, <1>9

LEMMA ZeroKeeps ==
  ASSUME HashInv, Zero
  PROVE  HashInv'
<1> USE DEF HashInv
<1>1. /\ pc.step = "zero" /\ UNCHANGED <<map, stored>> /\ shm.set /\ pc.b \in Block
      /\ pc \in [step : Holding, b : Block, key : HashKey, value : Value \cup {0}]
  BY DEF Zero, Unset, HashTypes
<1>2. Zeroed \in AllocBlock /\ Zeroed.next = USED
  BY DEF Zeroed, AllocBlock, USED
<1>3. shm' = [shm EXCEPT !.block[pc.b] = Zeroed]
  BY DEF Zero, ZeroedFrom
<1>4. /\ shm' \in Segment /\ shm'.set = shm.set /\ shm'.made = shm.made
      /\ shm'.free_list = shm.free_list /\ shm'.alloc_size = shm.alloc_size
      /\ shm'.block[pc.b] = Zeroed /\ \A b \in Block \ {pc.b} : shm'.block[b] = shm.block[b]
  BY <1>1, <1>2, <1>3, BlockWritten DEF HashTypes
<1>5. pc' = [step |-> "key", b |-> pc.b, key |-> pc.key, value |-> pc.value]
  BY <1>1 DEF Zero
<1>6. HashTypes'
  BY <1>1, <1>4, <1>5 DEF HashTypes, Holding
<1>7. Unset' /\ Held'
  BY <1>1, <1>2, <1>4, <1>5 DEF Unset, Held, Holding, Inserts, NextOf
<1>8. Chained'
  <2>1. \A F \in SUBSET Block : Chain(F) => pc.b \notin F
    BY <1>1 DEF Chain, Holding
  <2>2. shm.alloc_size \in Nat
    BY DEF HashTypes, Segment
  <2>3. PICK G \in SUBSET Block : Chain(G)
    BY <1>1, HandsHaveChain DEF Holding
  <2> QED BY <1>1, <2>3, <1>4, <1>5, <2>1, <2>2, ChainStays DEF HashTypes
<1>9. \A b \in Block \ {pc.b} : b \in UsedBlocks' <=> b \in UsedBlocks
  BY <1>4 DEF UsedBlocks, IsUsedBlock, IsValidBlock
<1>10. Indexed'
  <2>1. \A j \in DOMAIN map : map[j] \in Block \ {pc.b}
    BY <1>1 DEF Held, HashTypes, Inserts
  <2>2. UsedBlocks' \subseteq Block
    BY DEF UsedBlocks
  <2> QED BY <1>1, <1>4, <1>5, <1>9, <2>1, <2>2 DEF Indexed, NextOf, Holding, Inserts
<1>11. Kept'
  <2>1. UsedBlocks \subseteq Block
    BY DEF UsedBlocks
  <2> QED BY <1>1, <1>4, <1>5, <1>9, <2>1 DEF Kept, Holding
<1> QED BY <1>6, <1>7, <1>8, <1>10, <1>11

LEMMA CopyKeyKeeps ==
  ASSUME HashInv, CopyKey
  PROVE  HashInv'
<1> USE DEF HashInv
<1>1. /\ pc.step = "key" /\ UNCHANGED stored /\ shm.set /\ pc.b \in Block /\ pc.key \in HashKey
      /\ pc \in [step : Holding, b : Block, key : HashKey, value : Value \cup {0}]
      /\ NextOf(pc.b) = USED /\ pc.b <= shm.alloc_size
  BY DEF CopyKey, Unset, HashTypes, Held, Holding
<1> DEFINE x == [shm.block[pc.b] EXCEPT !.key = pc.key]
<1>2. x \in AllocBlock /\ x.next = USED /\ x.key = pc.key
  <2>1. shm.block[pc.b] \in AllocBlock
    BY <1>1 DEF HashTypes, Segment
  <2> QED BY <1>1, <2>1 DEF NextOf, AllocBlock
<1>3. shm' = [shm EXCEPT !.block[pc.b] = x]
  BY DEF CopyKey
<1> HIDE DEF x
<1>4. /\ shm' \in Segment /\ shm'.set = shm.set /\ shm'.made = shm.made
      /\ shm'.free_list = shm.free_list /\ shm'.alloc_size = shm.alloc_size
      /\ shm'.block[pc.b] = x /\ \A b \in Block \ {pc.b} : shm'.block[b] = shm.block[b]
  BY <1>1, <1>2, <1>3, BlockWritten DEF HashTypes
<1>5. /\ pc' = [step |-> "value", b |-> pc.b, key |-> pc.key, value |-> pc.value]
      /\ DOMAIN map' = DOMAIN map \cup {pc.key} /\ map'[pc.key] = pc.b
      /\ pc.key \notin DOMAIN map /\ \A k \in DOMAIN map : map'[k] = map[k] /\ map[k] # pc.b
  BY <1>1 DEF CopyKey, With, Held, Inserts
<1>6. HashTypes'
  BY <1>1, <1>4, <1>5 DEF HashTypes, Holding
<1>7. Unset' /\ Held'
  BY <1>1, <1>2, <1>4, <1>5 DEF Unset, Held, Holding, Inserts
<1>8. Chained'
  <2>1. \A F \in SUBSET Block : Chain(F) => pc.b \notin F
    BY <1>1 DEF Chain, Holding
  <2>2. shm.alloc_size \in Nat
    BY DEF HashTypes, Segment
  <2>3. PICK G \in SUBSET Block : Chain(G)
    BY <1>1, HandsHaveChain DEF Holding
  <2> QED BY <1>1, <2>3, <1>4, <1>5, <2>1, <2>2, ChainStays DEF HashTypes
<1>9. /\ \A b \in Block \ {pc.b} : b \in UsedBlocks' <=> b \in UsedBlocks
      /\ UsedBlocks' \subseteq Block /\ UsedBlocks \subseteq Block
  BY <1>4 DEF UsedBlocks, IsUsedBlock, IsValidBlock
<1>10. Indexed'
  <2>1. \A j \in DOMAIN map : map[j] \in Block \ {pc.b}
    BY <1>5 DEF HashTypes
  <2>2. \A j \in DOMAIN map : /\ map[j] <= shm.alloc_size /\ shm.block[map[j]].key = j
                              /\ NextOf(map[j]) = USED
    BY <1>1 DEF Indexed, Holding
  <2>3. \A j \in DOMAIN map' : /\ map'[j] <= shm'.alloc_size /\ shm'.block[map'[j]].key = j
                               /\ shm'.block[map'[j]].next = USED
    BY <1>1, <1>2, <1>4, <1>5, <2>1, <2>2 DEF NextOf
  <2>4. \A b \in UsedBlocks' : shm'.block[b].key \in DOMAIN map' /\ map'[shm'.block[b].key] = b
    <3>1. ASSUME NEW b \in UsedBlocks', b # pc.b
          PROVE  shm'.block[b].key \in DOMAIN map' /\ map'[shm'.block[b].key] = b
      <4>1. shm.block[b].key \in DOMAIN map /\ map[shm.block[b].key] = b
        BY <1>1, <1>9, <3>1 DEF Indexed, Holding
      <4> QED BY <1>4, <1>5, <1>9, <3>1, <4>1
    <3> QED BY <1>2, <1>4, <1>5, <3>1
  <2> QED BY <1>5, <2>3, <2>4 DEF Indexed, NextOf
<1>11. Kept'
  BY <1>1, <1>4, <1>5, <1>9 DEF Kept, Holding
<1> QED BY <1>6, <1>7, <1>8, <1>10, <1>11

LEMMA CopyValueKeeps ==
  ASSUME HashInv, CopyValue
  PROVE  HashInv'
<1> USE DEF HashInv
<1>1. /\ pc.step = "value" /\ UNCHANGED map /\ shm.set /\ pc.b \in Block
      /\ pc \in [step : Holding, b : Block, key : HashKey, value : Value \cup {0}]
      /\ pc.key \in DOMAIN map /\ map[pc.key] = pc.b
  BY DEF CopyValue, Unset, HashTypes, Held
<1>2. shm.block[pc.b] \in AllocBlock /\ pc.value \in Value \cup {0}
  BY <1>1 DEF HashTypes, Segment
<1> DEFINE x == [shm.block[pc.b] EXCEPT !.value = pc.value]
<1>3. /\ x \in AllocBlock /\ x.next = shm.block[pc.b].next /\ x.key = shm.block[pc.b].key
      /\ x.value = pc.value
  BY <1>2 DEF AllocBlock
<1>4. shm' = [shm EXCEPT !.block[pc.b] = x]
  BY DEF CopyValue
<1> HIDE DEF x
<1>5. /\ shm' \in Segment /\ shm'.set = shm.set /\ shm'.made = shm.made
      /\ shm'.free_list = shm.free_list /\ shm'.alloc_size = shm.alloc_size
      /\ shm'.block[pc.b] = x /\ \A b \in Block \ {pc.b} : shm'.block[b] = shm.block[b]
  BY <1>1, <1>3, <1>4, BlockWritten DEF HashTypes
<1>6. \A b \in Block : shm'.block[b].next = shm.block[b].next /\ shm'.block[b].key = shm.block[b].key
  BY <1>3, <1>5
<1>7. /\ pc' = [step |-> "idle"]
      /\ DOMAIN stored' = DOMAIN stored \cup {pc.key} /\ stored'[pc.key] = pc.value
      /\ \A k \in DOMAIN stored \ {pc.key} : stored'[k] = stored[k]
  BY DEF CopyValue, With, At
<1>8. HashTypes'
  BY <1>1, <1>5, <1>7 DEF HashTypes
<1>9. Unset' /\ Held'
  BY <1>1, <1>5, <1>7 DEF Unset, Held, Holding, Inserts
<1>10. Chained'
  <2>1. \A F \in SUBSET Block : Chain(F) => pc.b \notin F
    BY <1>1 DEF Chain, Holding
  <2>2. shm.alloc_size \in Nat
    BY DEF HashTypes, Segment
  <2>3. PICK G \in SUBSET Block : Chain(G)
    BY <1>1, HandsHaveChain DEF Holding
  <2> QED BY <1>1, <2>3, <1>5, <1>7, <2>1, <2>2, ChainStays DEF HashTypes, Holding
<1>11. UsedBlocks' = UsedBlocks /\ UsedBlocks \subseteq Block
  BY <1>5, <1>6 DEF UsedBlocks, IsUsedBlock, IsValidBlock
<1>12. \A k \in DOMAIN map : /\ map[k] \in Block /\ map[k] <= shm.alloc_size
                              /\ shm.block[map[k]].key = k /\ NextOf(map[k]) = USED
  BY <1>1 DEF Indexed, HashTypes, Holding
<1>13. Indexed'
  BY <1>1, <1>5, <1>6, <1>7, <1>11, <1>12 DEF Indexed, NextOf, Holding, Inserts
<1>14. Kept'
  <2>1. ASSUME NEW k \in DOMAIN stored', k # pc.key
        PROVE  \E b \in UsedBlocks' : shm'.block[b].key = k /\ shm'.block[b].value = stored'[k]
    <3>1. PICK b \in UsedBlocks : /\ shm.block[b].key = k /\ shm.block[b].value = stored[k]
                                  /\ b # pc.b
      BY <1>1, <1>7, <2>1 DEF Kept, Holding
    <3> QED BY <1>5, <1>7, <1>11, <2>1, <3>1
  <2>2. /\ pc.b \in UsedBlocks' /\ shm'.block[pc.b].key = pc.key
        /\ shm'.block[pc.b].value = stored'[pc.key]
    <3>1. pc.b \in 1 .. shm.alloc_size
      BY <1>1, <1>12, NodeAssumption DEF HashTypes, Segment, Block
    <3> QED BY <1>1, <1>3, <1>5, <1>6, <1>7, <1>11, <1>12, <3>1
            DEF UsedBlocks, IsUsedBlock, IsValidBlock, NextOf
  <2> QED BY <1>7, <2>1, <2>2 DEF Kept, Holding
<1> QED BY <1>8, <1>9, <1>10, <1>13, <1>14

LEMMA EraseKeeps ==
  ASSUME HashInv, NEW k \in HashKey, Erase(k)
  PROVE  HashInv'
<1> USE DEF HashInv
<1> DEFINE c == map[k]  head == shm.free_list
<1>1. /\ pc.step = "idle" /\ UNCHANGED map /\ shm.set /\ c \in Block /\ k \in DOMAIN map
      /\ c \in UsedBlocks /\ NextOf(c) = USED /\ shm.block[c].key = k
  BY DEF Erase, Unset, HashTypes, Indexed, UsedBlocks, IsUsedBlock, NextOf
<1>2. shm.block[c] \in AllocBlock /\ head \in Int
  BY <1>1 DEF HashTypes, Segment
<1> DEFINE x == [shm.block[c] EXCEPT !.next = head]
<1>3. /\ x \in AllocBlock /\ x.next = head
  BY <1>2 DEF AllocBlock
<1>4. /\ shm' = [shm EXCEPT !.block[c] = x]
      /\ pc' = [step |-> "link", b |-> c, key |-> k, value |-> 0]
      /\ DOMAIN stored' = DOMAIN stored \ {k} /\ \A j \in DOMAIN stored' : stored'[j] = stored[j]
  BY DEF Erase, On, Without
<1> HIDE DEF x
<1>5. PICK d \in Block : d = c
  BY <1>1
<1> HIDE DEF c
<1>6. /\ shm' \in Segment /\ shm'.set = shm.set /\ shm'.made = shm.made
      /\ shm'.free_list = shm.free_list /\ shm'.alloc_size = shm.alloc_size
      /\ shm'.block[d] = x /\ \A b \in Block \ {d} : shm'.block[b] = shm.block[b]
  <2>1. shm \in Segment /\ x \in AllocBlock /\ shm' = [shm EXCEPT !.block[d] = x]
    BY <1>3, <1>4, <1>5 DEF HashTypes
  <2> QED BY <2>1, BlockWritten
<1>7. HashTypes'
  BY <1>1, <1>4, <1>5, <1>6 DEF HashTypes, Holding
<1>8. Unset' /\ Held'
  <2>1. d <= shm.alloc_size /\ map[k] = d
    BY <1>1, <1>5 DEF c, UsedBlocks, IsUsedBlock, IsValidBlock
  <2>2. Unset
    OBVIOUS
  <2> HIDE DEF HashInv
  <2>3. /\ pc'.step = "link" /\ pc'.b = d /\ pc'.key = k
        /\ NextOf(d)' = head /\ map' = map
    BY <1>1, <1>3, <1>4, <1>5, <1>6 DEF NextOf
  <2>4. Unset'
    BY <1>1, <1>6, <2>2, <2>3 DEF Unset
  <2> QED BY <1>1, <1>6, <2>1, <2>3, <2>4 DEF Held, Holding, Inserts
<1>15. \E F \in SUBSET Block : Chain(F)
  <2>1. shm.alloc_size # 0
    BY <1>1, <1>5 DEF c, UsedBlocks, IsUsedBlock, IsValidBlock
  <2> QED BY <1>1, <2>1, HandsHaveChain
<1>9. \A F \in SUBSET Block : Chain(F) => d \notin F
  BY <1>1, <1>5 DEF Chain
<1>10. Chained'
  <2>1. shm.alloc_size \in Nat
    BY DEF HashTypes, Segment
  <2>2. PICK G \in SUBSET Block : Chain(G)
    BY <1>15
  <2>3. pc'.b = d /\ HashTypes
    BY <1>4, <1>5
  <2>4. \A F \in SUBSET Block : shm.set /\ Chain(F) => d \notin F
    BY <1>9
  <2>5. shm'.alloc_size \in Nat /\ shm'.alloc_size >= shm.alloc_size
    BY <1>6, <2>1
  <2> HIDE DEF HashInv
  <2> QED BY <1>6, <2>2, <2>3, <2>4, <2>5, ChainStays
<1>11. UsedBlocks' \subseteq UsedBlocks \ {d} /\ UsedBlocks \ {d} \subseteq UsedBlocks'
  <2>1. UsedBlocks \subseteq Block /\ UsedBlocks' \subseteq Block
    BY DEF UsedBlocks
  <2>2. head # USED
    <3>1. PICK F \in SUBSET Block : Chain(F)
      BY <1>15
    <3> QED BY <3>1, NodeAssumption DEF Chain, USED, INVALID, Block
  <2> QED BY <1>3, <1>6, <2>1, <2>2 DEF UsedBlocks, IsUsedBlock, IsValidBlock
<1>12. \A j \in DOMAIN map \ {k} : /\ map[j] \in Block \ {d} /\ map[j] <= shm.alloc_size
                                   /\ shm.block[map[j]].key = j /\ NextOf(map[j]) = USED
  BY <1>1, <1>5 DEF Indexed, HashTypes
<1>13. Indexed'
  <2>1. map[k] = d /\ d <= shm.alloc_size /\ shm'.block[d].key = k
    BY <1>1, <1>2, <1>5, <1>6 DEF c, x, UsedBlocks, IsUsedBlock, IsValidBlock, AllocBlock
  <2>2. \A b \in UsedBlocks' : shm'.block[b].key \in DOMAIN map /\ map[shm'.block[b].key] = b
    <3>1. \A b \in UsedBlocks : b \in Block /\ shm.block[b].key \in DOMAIN map /\ map[shm.block[b].key] = b
      BY <1>1 DEF Indexed, Inserts, UsedBlocks
    <3> QED BY <1>6, <1>11, <3>1
  <2>3. \A j \in DOMAIN map \ {k} : shm'.block[map[j]] = shm.block[map[j]]
    BY <1>6, <1>12
  <2> QED BY <1>1, <1>4, <1>6, <1>12, <2>1, <2>2, <2>3 DEF Indexed, NextOf
<1>14. Kept'
  <2>1. ASSUME NEW j \in DOMAIN stored'
        PROVE  \E b \in UsedBlocks' : /\ shm'.block[b].key = j /\ shm'.block[b].value = stored'[j]
                                      /\ b # d
    <3>1. PICK b \in UsedBlocks : shm.block[b].key = j /\ shm.block[b].value = stored[j]
      BY <1>4 DEF Kept
    <3>2. b # d /\ b \in Block
      BY <1>1, <1>4, <1>5, <3>1 DEF UsedBlocks
    <3> QED BY <1>4, <1>6, <1>11, <3>1, <3>2
  <2> QED BY <1>4, <1>5, <2>1 DEF Kept
<1> QED BY <1>7, <1>8, <1>10, <1>13, <1>14

LEMMA LinkKeeps ==
  ASSUME HashInv, LinkFreeBlock
  PROVE  HashInv'
<1> USE DEF HashInv
<1>1. /\ pc.step = "link" /\ UNCHANGED stored /\ shm.set /\ pc.b \in Block
      /\ pc.key \in DOMAIN map /\ map[pc.key] = pc.b
      /\ NextOf(pc.b) = shm.free_list /\ pc.b <= shm.alloc_size
  BY DEF LinkFreeBlock, Unset, HashTypes, Held, Holding
<1>2. PICK d \in Block : d = pc.b
  BY <1>1
<1>3. /\ pc' = [step |-> "idle"]
      /\ DOMAIN map' = DOMAIN map \ {pc.key} /\ \A k \in DOMAIN map' : map'[k] = map[k]
  BY DEF LinkFreeBlock, Without, At
<1>4. d \in Int
  BY NodeAssumption DEF Block
<1>5. /\ shm' \in Segment /\ shm'.set = shm.set /\ shm'.made = shm.made
      /\ shm'.free_list = d /\ shm'.alloc_size = shm.alloc_size /\ shm'.block = shm.block
  BY <1>2, <1>4 DEF LinkFreeBlock, HashTypes, Segment
<1>6. HashTypes'
  BY <1>3, <1>5 DEF HashTypes
<1>7. Unset' /\ Held'
  BY <1>1, <1>3, <1>5 DEF Unset, Held, Holding, Inserts
<1>8. PICK F \in SUBSET Block : Chain(F)
  BY <1>1, HandsHaveChain DEF Holding
<1>9. d \notin F /\ NextOf(d) = shm.free_list /\ shm.free_list # USED
  BY <1>1, <1>2, <1>8, NodeAssumption DEF Chain, Holding, USED, INVALID, Block
<1>10. Chain(F \cup {d})'
  <2>1. \A b \in Block : NextOf(b)' = NextOf(b)
    BY <1>5 DEF NextOf
  <2>2. d # INVALID
    BY NodeAssumption DEF Block, INVALID
  <2>3. \A b \in F \cup {d} : /\ NextOf(b) # INVALID => NextOf(b) \in F
                              /\ NextOf(b) # USED /\ b <= shm.alloc_size
    BY <1>1, <1>2, <1>8, <1>9 DEF Chain
  <2>4. \A b, e \in F \cup {d} : NextOf(b) = NextOf(e) /\ NextOf(b) # INVALID => b = e
    BY <1>8, <1>9 DEF Chain
  <2> QED BY <1>3, <1>5, <1>9, <2>1, <2>2, <2>3, <2>4 DEF Chain, Holding
<1>11. UsedBlocks' = UsedBlocks /\ UsedBlocks \subseteq Block /\ d \notin UsedBlocks
  BY <1>5, <1>9 DEF UsedBlocks, IsUsedBlock, IsValidBlock, NextOf
<1>12. Indexed'
  <2>1. \A k \in DOMAIN map' : /\ map[k] <= shm.alloc_size /\ shm.block[map[k]].key = k
                               /\ NextOf(map[k]) = USED
    BY <1>1, <1>3 DEF Indexed, Holding
  <2>2. \A b \in UsedBlocks : shm.block[b].key \in DOMAIN map' /\ map[shm.block[b].key] = b
    BY <1>1, <1>2, <1>3, <1>11 DEF Indexed, Holding, Inserts
  <2> QED BY <1>3, <1>5, <1>11, <2>1, <2>2 DEF Indexed, NextOf
<1>13. Kept'
  BY <1>1, <1>3, <1>5, <1>11 DEF Kept, Holding
<1>14. Chained'
  BY <1>10 DEF Chained
<1> QED BY <1>6, <1>7, <1>12, <1>13, <1>14

\* No step puts a key in two blocks.
LEMMA SingleKeeps ==
  ASSUME HashInv, Single, [NextHash]_hashVars
  PROVE  Single'
<1>1. shm \in Segment /\ \A b \in UsedBlocks : b \in Block /\ b <= shm.alloc_size /\ NextOf(b) = USED
  BY NodeAssumption DEF HashInv, HashTypes, Segment, UsedBlocks, IsUsedBlock, IsValidBlock, NextOf
<1>2. ASSUME shm'.alloc_size = shm.alloc_size, shm'.block = shm.block,
             pc'.step \notin Inserts, pc'.step # "failed"
      PROVE  Single'
  <2>1. UsedBlocks' = UsedBlocks
    BY <1>2 DEF UsedBlocks, IsUsedBlock, IsValidBlock
  <2> QED BY <1>2, <2>1 DEF Single, SameKey, RefusedForCause
<1>3. CASE Create \/ WriteHeader \/ WriteFreeList \/ Fault \/ Die
  BY <1>1, <1>2, <1>3 DEF Create, WriteHeader, WriteFreeList, Fault, Die, At, Segment, Inserts
<1>4. CASE Attach
  <2>1. UNCHANGED shm
    BY <1>4 DEF Attach
  <2>2. UsedBlocks' = UsedBlocks /\ (CheckHeader' <=> CheckHeader)
    BY <2>1 DEF UsedBlocks, IsUsedBlock, IsValidBlock, CheckHeader
  <2>3. pc' = [step |-> "idle"] \/ pc' = [step |-> "failed"]
    BY <1>4 DEF Attach, At
  <2>4. CASE pc' = [step |-> "idle"]
    BY <1>2, <2>1, <2>4 DEF Inserts
  <2>5. CASE pc' = [step |-> "failed"]
    <3>1. ~ (CheckHeader /\ \A b, c \in UsedBlocks : shm.block[b].key = shm.block[c].key => b = c)
      BY <1>4, <2>5 DEF Attach, At
    <3>2. RefusedForCause'
      BY <2>1, <2>2, <3>1 DEF RefusedForCause, Single, SameKey
    <3> QED BY <2>1, <2>2, <2>5, <3>2 DEF Single, SameKey, Inserts
  <2> QED BY <2>3, <2>4, <2>5
<1>5. ASSUME NEW k \in HashKey, NEW v \in Value, Insert(k, v) PROVE Single'
  <2>1. CASE shm.free_list # INVALID
    <3>1. /\ shm'.alloc_size = shm.alloc_size /\ shm'.block = shm.block
          /\ \/ pc' = [step |-> "idle"]
             \/ /\ pc' = [step |-> "zero", b |-> shm.free_list, key |-> k, value |-> v]
                /\ IsValidBlock(shm.free_list)
      BY <1>1, <1>5, <2>1 DEF Insert, At, On, Segment
    <3>2. CASE pc' = [step |-> "idle"]
      BY <1>2, <3>1, <3>2 DEF Inserts
    <3>3. CASE pc' # [step |-> "idle"]
      <4>1. shm.free_list \notin UsedBlocks
        <5>2. shm.set /\ shm.alloc_size # 0
          BY <1>1, <1>5, <3>1, <3>3 DEF Insert, HashInv, Unset, IsValidBlock, Segment
        <5>3. PICK F \in SUBSET Block : Chain(F)
          BY <5>2, HandsHaveChain
        <5> QED BY <2>1, <5>3 DEF Chain, UsedBlocks, IsUsedBlock, NextOf
      <4>2. UsedBlocks' = UsedBlocks
        BY <3>1 DEF UsedBlocks, IsUsedBlock, IsValidBlock
      <4> QED BY <3>1, <3>3, <4>1, <4>2 DEF Single, SameKey, RefusedForCause
    <3> QED BY <3>2, <3>3
  <2>2. CASE shm.free_list = INVALID
    <3>1. /\ shm'.alloc_size = shm.alloc_size + 1 /\ shm'.block = shm.block
          /\ pc' = [step |-> "count", b |-> shm.alloc_size + 1, key |-> k, value |-> v]
          /\ shm.alloc_size \in Nat
      BY <1>1, <1>5, <2>2, NodeAssumption DEF Insert, At, On, Segment
    <3>2. PICK new \in Nat : new = shm.alloc_size + 1
      BY <3>1
    <3>3. \A b \in UsedBlocks' : b \in Block /\ (b \in UsedBlocks \/ b = new)
      BY <1>1, <3>1, <3>2, NodeAssumption DEF UsedBlocks, IsUsedBlock, IsValidBlock, Block
    <3>4. new \in Block => shm.block[new].key = 0
      BY <3>1, <3>2 DEF Single
    <3>5. \A b, c \in UsedBlocks' : SameKey(b, c) => b = c
      BY <3>3, <3>4 DEF Single, SameKey
    <3>6. \A b \in Block : b > new => shm.block[b].key = 0
      BY <3>1, <3>2, NodeAssumption DEF Single, Block
    <3> QED BY <3>1, <3>2, <3>3, <3>4, <3>5, <3>6 DEF Single, SameKey, RefusedForCause
  <2> QED BY <2>1, <2>2
<1>6. CASE CountNode
  <2>1. /\ shm'.alloc_size = shm.alloc_size /\ shm'.block = shm.block
        /\ pc'.b = pc.b /\ pc'.step = "zero" /\ pc.step = "count"
    BY <1>1, <1>6 DEF CountNode, Segment, HashInv, HashTypes, Holding
  <2>2. UsedBlocks' = UsedBlocks
    BY <2>1 DEF UsedBlocks, IsUsedBlock, IsValidBlock
  <2> QED BY <2>1, <2>2 DEF Single, SameKey, RefusedForCause, Inserts
<1>7. CASE Zero
  <2>1. /\ pc.step = "zero" /\ pc'.step = "key" /\ pc'.b = pc.b /\ pc.b \in Block
        /\ pc.b <= shm.alloc_size
    BY <1>7 DEF Zero, HashInv, HashTypes, Holding, Held
  <2>2. Zeroed \in AllocBlock /\ Zeroed.key = 0 /\ Zeroed.next = USED
    BY DEF Zeroed, AllocBlock, USED
  <2>3. shm' = [shm EXCEPT !.block[pc.b] = Zeroed]
    BY <1>7 DEF Zero, ZeroedFrom
  <2>4. /\ shm'.alloc_size = shm.alloc_size /\ shm'.block[pc.b].key = 0
        /\ \A b \in Block \ {pc.b} : shm'.block[b] = shm.block[b]
    BY <1>1, <2>1, <2>2, <2>3, BlockWritten
  <2>5. \A b \in UsedBlocks' : b \in Block /\ (b = pc.b \/ b \in UsedBlocks)
    BY <2>4 DEF UsedBlocks, IsUsedBlock, IsValidBlock
  <2>6. \A b, c \in UsedBlocks' : SameKey(b, c)' => b = c
    BY <2>4, <2>5 DEF Single, SameKey
  <2>7. \A b \in Block : b > shm'.alloc_size => shm'.block[b].key = 0
    BY <2>1, <2>4, <1>1 DEF Single
  <2> QED BY <2>1, <2>4, <2>6, <2>7 DEF Single, RefusedForCause
<1>8. CASE CopyKey
  <2>1. /\ pc.step = "key" /\ pc'.step = "value" /\ pc.b \in Block /\ pc.b <= shm.alloc_size
        /\ pc.key \notin DOMAIN map
    BY <1>8 DEF CopyKey, HashInv, HashTypes, Holding, Held, Inserts
  <2> DEFINE x == [shm.block[pc.b] EXCEPT !.key = pc.key]
  <2>2. x \in AllocBlock /\ x.key = pc.key
    <3>1. shm.block[pc.b] \in AllocBlock /\ pc.key \in HashKey
      BY <1>1, <2>1 DEF Segment, HashInv, HashTypes, Holding
    <3> QED BY <3>1 DEF AllocBlock
  <2>3. shm' = [shm EXCEPT !.block[pc.b] = x]
    BY <1>8 DEF CopyKey
  <2> HIDE DEF x
  <2>4. /\ shm'.alloc_size = shm.alloc_size /\ shm'.block[pc.b].key = pc.key
        /\ \A b \in Block \ {pc.b} : shm'.block[b] = shm.block[b]
    BY <1>1, <2>1, <2>2, <2>3, BlockWritten
  <2>5. \A b \in UsedBlocks' : b \in Block /\ (b = pc.b \/ b \in UsedBlocks)
    BY <2>4 DEF UsedBlocks, IsUsedBlock, IsValidBlock
  <2>6. \A b \in UsedBlocks \ {pc.b} : shm.block[b].key \in DOMAIN map
    BY <2>1 DEF HashInv, Indexed, Holding
  <2>7. \A b, c \in UsedBlocks' : SameKey(b, c)' => b = c
    <3>1. \A b \in UsedBlocks' \ {pc.b} : /\ b \in UsedBlocks \ {pc.b} /\ shm'.block[b].key # pc.key
                                          /\ shm'.block[b].key = shm.block[b].key
      BY <2>1, <2>4, <2>5, <2>6
    <3>2. \A b, c \in UsedBlocks : shm.block[b].key = shm.block[c].key /\ shm.block[b].key # 0 => b = c
      BY DEF Single, SameKey
    <3>3. \A b, c \in UsedBlocks' \ {pc.b} :
             shm'.block[b].key = shm'.block[c].key /\ shm'.block[b].key # 0 => b = c
      BY <3>1, <3>2
    <3>4. \A b \in UsedBlocks' \ {pc.b} : shm'.block[b].key # shm'.block[pc.b].key
      BY <2>4, <3>1
    <3>5. \A b, c \in UsedBlocks' :
             shm'.block[b].key = shm'.block[c].key /\ shm'.block[b].key # 0 => b = c
      BY <3>3, <3>4
    <3> QED BY <3>5 DEF SameKey
  <2>8. \A b \in Block : b > shm'.alloc_size => shm'.block[b].key = 0
    <3>1. \A b \in Block : b > shm.alloc_size => b # pc.b
      BY <2>1, <1>1, NodeAssumption DEF Segment, Block
    <3> QED BY <2>4, <3>1 DEF Single
  <2> QED BY <2>1, <2>7, <2>8 DEF Single, RefusedForCause, Inserts
<1>9. ASSUME NEW c \in Block, NEW x \in AllocBlock, x.key = shm.block[c].key,
             shm' = [shm EXCEPT !.block[c] = x], x.next = USED => c \in UsedBlocks,
             pc'.step \notin Inserts, pc'.step # "failed"
      PROVE  Single'
  <2>1. /\ shm'.alloc_size = shm.alloc_size
        /\ shm'.block[c] = x /\ \A b \in Block \ {c} : shm'.block[b] = shm.block[b]
    BY <1>1, <1>9, BlockWritten
  <2>2. \A b \in Block : shm'.block[b].key = shm.block[b].key
    BY <1>9, <2>1
  <2>3. UsedBlocks' \subseteq UsedBlocks /\ UsedBlocks \subseteq Block
    BY <1>9, <2>1 DEF UsedBlocks, IsUsedBlock, IsValidBlock
  <2> QED BY <1>9, <2>1, <2>2, <2>3 DEF Single, SameKey, RefusedForCause
<1>10. CASE CopyValue
  <2>1. pc.step = "value" /\ pc' = [step |-> "idle"] /\ pc.b \in Block /\ pc.value \in Value \cup {0}
        /\ pc.key \in DOMAIN map /\ map[pc.key] = pc.b /\ pc.b <= shm.alloc_size
    BY <1>10 DEF CopyValue, At, HashInv, HashTypes, Holding, Held
  <2>2. shm.block[pc.b] \in AllocBlock
    BY <1>1, <2>1 DEF Segment
  <2> DEFINE x == [shm.block[pc.b] EXCEPT !.value = pc.value]
  <2>3. /\ x \in AllocBlock /\ x.key = shm.block[pc.b].key /\ x.next = shm.block[pc.b].next
    BY <2>1, <2>2 DEF AllocBlock
  <2>4. shm' = [shm EXCEPT !.block[pc.b] = x]
    BY <1>10 DEF CopyValue
  <2> HIDE DEF x
  <2>5. shm.block[pc.b].next = USED => pc.b \in UsedBlocks
    BY <1>1, <2>1, NodeAssumption DEF UsedBlocks, IsUsedBlock, IsValidBlock, Block, Segment
  <2>6. PICK c \in Block : c = pc.b
    BY <2>1
  <2>7. PICK y \in AllocBlock : y = x
    BY <2>3
  <2> QED BY <1>9, <2>1, <2>3, <2>4, <2>5, <2>6, <2>7 DEF Inserts
<1>11. ASSUME NEW k \in HashKey, Erase(k) PROVE Single'
  <2>1. /\ k \in DOMAIN map /\ map[k] \in Block /\ IsUsedBlock(map[k]) /\ pc'.step = "link"
    BY <1>11 DEF Erase, On, HashInv, HashTypes
  <2>2. PICK c \in Block : c = map[k]
    BY <2>1
  <2>3. shm.block[c] \in AllocBlock /\ shm.free_list \in Int
    BY <1>1, <2>1 DEF Segment
  <2> DEFINE x == [shm.block[c] EXCEPT !.next = shm.free_list]
  <2>4. x \in AllocBlock /\ x.key = shm.block[c].key
    BY <2>3 DEF AllocBlock
  <2>5. shm' = [shm EXCEPT !.block[c] = x]
    BY <1>11, <2>2 DEF Erase
  <2> HIDE DEF x
  <2>6. c \in UsedBlocks
    BY <2>1, <2>2 DEF UsedBlocks
  <2> QED BY <1>9, <2>1, <2>4, <2>5, <2>6 DEF Inserts
<1>12. CASE LinkFreeBlock
  BY <1>1, <1>2, <1>12 DEF LinkFreeBlock, At, Segment, Inserts
<1>13. CASE UNCHANGED hashVars
  BY <1>13 DEF hashVars, Single, SameKey, RefusedForCause, CheckHeader, UsedBlocks, IsUsedBlock,
               IsValidBlock
<1> QED BY <1>3, <1>4, <1>5, <1>6, <1>7, <1>8, <1>10, <1>11, <1>12, <1>13 DEF NextHash

\* The shared hash after a crash between any two of its steps (insert and erase
\* shamhash.hpp, Init, Alloc and Free shampool.hpp): in a process that opens the
\* segment what insert returned for is there with its value and no block has
\* two owners, and a segment is refused only for an unfinished call, however
\* many crashes, blocks, keys and values there are.
THEOREM SharedHashSurvives == SpecHash => []HashSurvives
<1>1. HashInv /\ [NextHash]_hashVars => HashInv'
  <2> SUFFICES ASSUME HashInv, [NextHash]_hashVars PROVE HashInv'
    OBVIOUS
  <2>1. CASE Create \/ WriteHeader \/ WriteFreeList \/ Attach \/ Fault \/ Die
    BY <2>1, SetUpKeeps
  <2>2. ASSUME NEW k \in HashKey, Erase(k) PROVE HashInv'
    BY <2>2, EraseKeeps
  <2>3. ASSUME NEW k \in HashKey, NEW v \in Value, Insert(k, v) PROVE HashInv'
    BY <2>3, InsertKeeps, InsertUnlisted
  <2>4. CASE CountNode
    BY <2>4, CountNodeKeeps
  <2>5. CASE Zero
    BY <2>5, ZeroKeeps
  <2>6. CASE CopyKey
    BY <2>6, CopyKeyKeeps
  <2>7. CASE CopyValue
    BY <2>7, CopyValueKeeps
  <2>8. CASE LinkFreeBlock
    BY <2>8, LinkKeeps
  <2>9. CASE UNCHANGED hashVars
    BY <2>9 DEF hashVars, HashInv, HashTypes, Unset, Chained, Unlisted, Chain, NextOf, Held, Indexed, Kept,
                UsedBlocks, IsUsedBlock, IsValidBlock
  <2> QED BY <2>1, <2>2, <2>3, <2>4, <2>5, <2>6, <2>7, <2>8, <2>9 DEF NextHash
<1>2. HashInv /\ Single /\ [NextHash]_hashVars => Single'
  BY SingleKeeps
<1>3. InitHash => Single
  BY DEF InitHash, Single, Zeroed, At, UsedBlocks, IsUsedBlock, IsValidBlock, Inserts, RefusedForCause
<1> QED BY <1>1, <1>2, <1>3, InitHashInv, HashInvSuffices, PTL DEF SpecHash

-----------------------------------------------------------------------------
(* The ring.  A segment is used once it is set up; then each block is       *)
(* counted by one of the two semaphores, or is in the hands of a process.   *)
Slot == 0 .. Blocks - 1
ShmHead ==
    [ready : BOOLEAN, rd : Slot, wr : Slot, mutex : Nat, full : Nat, empty : Nat,
     payload : [Slot -> Nat]]
Outside == {"closed", "init", "create", "dead"}
HasTaken == {"unlock", "posts", "read", "move"}    \* has, or will take, what empty counts
HasGiven == {"lock", "copy", "post"}               \* the same of full
Attached == {"open", "setup"} \cup HasTaken \cup HasGiven
In(s, pcs) == {p \in Process : proc[p].seg = s /\ proc[p].pc \in pcs}
Unread(s) == Len(written[s]) - Len(got[s])
Around(i) == IF i < Blocks THEN i ELSE i - Blocks

QueueTypes ==
    /\ segments \in Seq(ShmHead) /\ written \in Seq(Seq(Nat)) /\ got \in Seq(Seq(Nat))
    /\ Len(written) = Len(segments) /\ Len(got) = Len(segments)
    /\ key \in 0 .. Len(segments)
    /\ proc \in [Process -> [pc : Outside \cup Attached, seg : Nat, buf : Nat]]

\* Where a process is: only what is set up is used, and the reader holds the
\* oldest block not read.
PlaceOf(p) ==
    /\ proc[p].pc \in Outside => proc[p].seg = NoSegment
    /\ proc[p].pc \in Attached => proc[p].seg \in DOMAIN segments
    /\ proc[p].pc = "setup" => ~segments[proc[p].seg].ready
    /\ proc[p].pc \in HasTaken \cup HasGiven => segments[proc[p].seg].ready
    /\ proc[p].pc \in {"read", "move", "post"} => p \in Reader
    /\ proc[p].pc = "move" =>
          /\ Unread(proc[p].seg) > 0
          /\ proc[p].buf = written[proc[p].seg][Len(got[proc[p].seg]) + 1]
SetUpOnce ==
    \A p, q \in Process :
        proc[p].pc = "setup" /\ proc[q].pc = "setup" /\ proc[p].seg = proc[q].seg => p = q

\* From rd on are the blocks that are not read, up to wr.
Ring(s) ==
    /\ Unread(s) \in 0 .. Blocks
    /\ segments[s].wr = Around(segments[s].rd + Unread(s))
    /\ \A i \in 0 .. Unread(s) - 1 :
          segments[s].payload[Around(segments[s].rd + i)] = written[s][Len(got[s]) + 1 + i]
    /\ \A i \in 1 .. Len(got[s]) : got[s][i] = written[s][i]

Counts(s) ==
    IF segments[s].ready
    THEN /\ segments[s].empty + Cardinality(In(s, HasTaken)) = Unread(s)
         /\ segments[s].full + Cardinality(In(s, HasGiven)) = Blocks - Unread(s)
    ELSE segments[s] = Raw /\ Unread(s) = 0

QueueInv == 
    /\ QueueTypes
    /\ \A p \in Process : PlaceOf(p)
    /\ SetUpOnce
    /\ \A s \in DOMAIN segments : Ring(s) /\ Counts(s)
OneReader == \A r, q \in Reader : r = q

\* The invariant says what SharedRingIsQueue does.
LEMMA QueueInvSuffices == QueueInv => SharedRingIsQueue
<1> SUFFICES ASSUME QueueInv PROVE SharedRingIsQueue
  OBVIOUS
<1> USE DEF QueueInv
<1>1. SegmentIsQueue
  <2> SUFFICES ASSUME NEW s \in DOMAIN segments
               PROVE  /\ Len(got[s]) <= Len(written[s])
                      /\ got[s] = SubSeq(written[s], 1, Len(got[s]))
                      /\ Len(written[s]) - Len(got[s]) <= Blocks
    BY DEF SegmentIsQueue
  <2>1. written[s] \in Seq(Nat) /\ got[s] \in Seq(Nat)
    BY DEF QueueTypes
  <2>2. Unread(s) \in 0 .. Blocks /\ \A i \in 1 .. Len(got[s]) : got[s][i] = written[s][i]
    BY DEF Ring
  <2>3. Len(got[s]) <= Len(written[s]) /\ Len(written[s]) - Len(got[s]) <= Blocks
    BY <2>1, <2>2, RingAssumption DEF Unread
  <2>4. got[s] = SubSeq(written[s], 1, Len(got[s]))
    BY <2>1, <2>2, <2>3
  <2> QED BY <2>3, <2>4
<1>2. SemaphoresCount
  <2> SUFFICES ASSUME NEW s \in DOMAIN segments, segments[s].ready
               PROVE  segments[s].full + segments[s].empty
                        + Cardinality(In(s, {"lock", "copy", "unlock", "posts", "read", "move", "post"}))
                      = Blocks
    BY DEF SemaphoresCount, In
  <2> DEFINE T == In(s, HasTaken)  G == In(s, HasGiven)
  <2>1. /\ In(s, {"lock", "copy", "unlock", "posts", "read", "move", "post"}) = T \cup G
        /\ T \cap G = {}
    BY DEF In, HasTaken, HasGiven
  <2>2. IsFiniteSet(T) /\ IsFiniteSet(G)
    BY RingAssumption, FS_Subset DEF In, Process
  <2>3. segments[s].empty + Cardinality(T) = Unread(s) /\ segments[s].full + Cardinality(G) = Blocks - Unread(s)
    BY DEF Counts
  <2>4. segments[s] \in ShmHead /\ Unread(s) \in Int
    BY DEF QueueTypes, Ring
  <2> HIDE DEF T, G
  <2>5. Cardinality(T \cup G) = Cardinality(T) + Cardinality(G)
        /\ Cardinality(T) \in Nat /\ Cardinality(G) \in Nat
    <3>1. Cardinality(T \cup G) = Cardinality(T) + Cardinality(G) - Cardinality(T \cap G)
      BY <2>2, FS_Union
    <3>2. Cardinality(T \cap G) = 0
      BY <2>1, FS_EmptySet
    <3> QED BY <2>2, <3>1, <3>2, FS_CardinalityType
  <2>6. segments[s].full \in Nat /\ segments[s].empty \in Nat
    BY <2>4 DEF ShmHead
  <2> DEFINE t == Cardinality(T)  g == Cardinality(G)
  <2>7. /\ Cardinality(In(s, {"lock", "copy", "unlock", "posts", "read", "move", "post"})) = t + g
        /\ t \in Nat /\ g \in Nat
        /\ segments[s].empty + t = Unread(s) /\ segments[s].full + g = Blocks - Unread(s)
    BY <2>1, <2>3, <2>5
  <2> HIDE DEF t, g
  <2> QED BY <2>4, <2>6, <2>7, RingAssumption
<1> QED BY <1>1, <1>2 DEF SharedRingIsQueue

\* The processes at some places of a segment, when one process moves.
LEMMA CountMoves ==
  ASSUME NEW p \in Process, NEW s, NEW pcs, \A q \in Process \ {p} : proc'[q] = proc[q]
  PROVE  /\ Cardinality(In(s, pcs)) \in Nat
         /\ Cardinality(In(s, pcs)') = Cardinality(In(s, pcs))
                - (IF p \in In(s, pcs) THEN 1 ELSE 0) + (IF p \in In(s, pcs)' THEN 1 ELSE 0)
<1> DEFINE A == In(s, pcs)  B == In(s, pcs)'
<1>1. IsFiniteSet(A) /\ IsFiniteSet(B)
  BY RingAssumption, FS_Subset DEF In, Process
<1>2. A \ {p} = B \ {p}
  BY DEF In
<1> HIDE DEF A, B
<1>3. Cardinality(A \ {p}) = IF p \in A THEN Cardinality(A) - 1 ELSE Cardinality(A)
  BY <1>1, FS_RemoveElement
<1>4. Cardinality(B \ {p}) = IF p \in B THEN Cardinality(B) - 1 ELSE Cardinality(B)
  BY <1>1, FS_RemoveElement
<1>5. Cardinality(A) \in Nat /\ Cardinality(B) \in Nat
  BY <1>1, FS_CardinalityType
<1>6. Cardinality(B) = Cardinality(A) - (IF p \in A THEN 1 ELSE 0) + (IF p \in B THEN 1 ELSE 0)
  <2> DEFINE a == Cardinality(A)  b == Cardinality(B)  c == Cardinality(A \ {p})
  <2>1. /\ c = IF p \in A THEN a - 1 ELSE a
        /\ c = IF p \in B THEN b - 1 ELSE b
        /\ a \in Nat /\ b \in Nat
    BY <1>2, <1>3, <1>4, <1>5
  <2> HIDE DEF a, b, c
  <2>2. b = a - (IF p \in A THEN 1 ELSE 0) + (IF p \in B THEN 1 ELSE 0)
    BY <2>1
  <2> QED BY <2>2 DEF a, b
<1> QED BY <1>5, <1>6 DEF A, B

LEMMA NextIndex ==
  ASSUME NEW i \in Slot
  PROVE  (i + 1) % Blocks = Around(i + 1) /\ Around(i + 1) \in Slot
<1>1. Blocks \in Nat \ {0}
  BY RingAssumption
<1>2. CASE i + 1 = Blocks
  BY <1>1, <1>2 DEF Slot, Around
<1>3. CASE i + 1 # Blocks
  BY <1>1, <1>3 DEF Slot, Around
<1> QED BY <1>2, <1>3

\* A segment stays what it is while a process moves in another.
LEMMA OthersStay ==
  ASSUME QueueInv, NEW p \in Process, \A q \in Process \ {p} : proc'[q] = proc[q],
         NEW t \in DOMAIN segments, proc[p].seg # t, proc'[p].seg # t,
         segments'[t] = segments[t], written'[t] = written[t], got'[t] = got[t]
  PROVE  Ring(t)' /\ Counts(t)'
<1>1. Ring(t) /\ Counts(t)
  BY DEF QueueInv
<1>2. In(t, HasTaken)' = In(t, HasTaken) /\ In(t, HasGiven)' = In(t, HasGiven)
  BY DEF In
<1>3. Unread(t)' = Unread(t)
  BY DEF Unread
<1> QED BY <1>1, <1>2, <1>3 DEF Ring, Counts

\* The other processes are where they were.
LEMMA OthersKeepPlace ==
  ASSUME QueueInv, OneReader, NEW p \in Process, NEW q \in Process \ {p}, proc'[q] = proc[q],
         DOMAIN segments \subseteq DOMAIN segments',
         \A s \in DOMAIN segments : /\ written'[s] \in Seq(Nat) /\ Len(written'[s]) >= Len(written[s])
                                    /\ \A i \in 1 .. Len(written[s]) : written'[s][i] = written[s][i]
                                    /\ p \in Reader \/ got'[s] = got[s],
         proc[q].pc \in Attached \ {"open"} => segments'[proc[q].seg].ready = segments[proc[q].seg].ready
  PROVE  PlaceOf(q)'
<1>1. PlaceOf(q)
  BY DEF QueueInv
<1>2. CASE proc[q].pc # "move"
  BY <1>1, <1>2 DEF PlaceOf, Attached, HasTaken, HasGiven
<1>3. CASE proc[q].pc = "move"
  <2>1. PICK s \in DOMAIN segments : s = proc[q].seg
    BY <1>1, <1>3 DEF PlaceOf, Attached, HasTaken
  <2>2. /\ Unread(s) > 0 /\ proc[q].buf = written[s][Len(got[s]) + 1]
        /\ got'[s] = got[s] /\ segments'[s].ready /\ q \in Reader
    <3>1. q \in Reader /\ Unread(s) > 0 /\ proc[q].buf = written[s][Len(got[s]) + 1]
          /\ segments[s].ready
      BY <1>1, <1>3, <2>1 DEF PlaceOf, HasTaken
    <3>2. segments'[s].ready
      BY <1>3, <2>1, <3>1 DEF Attached, HasTaken
    <3> QED BY <3>1, <3>2 DEF OneReader
  <2>3. Len(got[s]) \in Nat /\ Len(written[s]) \in Nat
    BY DEF QueueInv, QueueTypes
  <2>4. Len(written'[s]) \in Nat /\ Len(written'[s]) >= Len(written[s])
        /\ \A i \in 1 .. Len(written[s]) : written'[s][i] = written[s][i]
    OBVIOUS
  <2>5. Len(got[s]) + 1 \in 1 .. Len(written[s]) /\ Len(written'[s]) - Len(got[s]) > 0
    <3> DEFINE g == Len(got[s])  w == Len(written[s])  x == Len(written'[s])
    <3>1. g \in Nat /\ w \in Nat /\ x \in Nat /\ w - g > 0 /\ x >= w
      BY <2>2, <2>3, <2>4 DEF Unread
    <3> HIDE DEF g, w, x
    <3>2. g + 1 \in 1 .. w /\ x - g > 0
      BY <3>1
    <3> QED BY <3>2 DEF g, w, x
  <2>6. Unread(s)' > 0 /\ proc[q].buf = written'[s][Len(got'[s]) + 1]
    BY <2>2, <2>4, <2>5 DEF Unread
  <2> QED BY <1>1, <1>3, <2>1, <2>2, <2>6 DEF PlaceOf, Outside, Unread
<1> QED BY <1>2, <1>3

\* A step of process p in the segment s, which becomes h, with w written and g
\* read; p goes to x with b in its hands.
Inside(p, s, h, w, g, x, b) ==
    /\ segments' = [segments EXCEPT ![s] = h]
    /\ written' = [written EXCEPT ![s] = w] /\ got' = [got EXCEPT ![s] = g]
    /\ key' = key
    /\ proc' = [proc EXCEPT ![p] = [pc |-> x, seg |-> s, buf |-> b]]

\* Whoever does not start to set up disturbs nobody who does.
LEMMA OnceKept ==
  ASSUME SetUpOnce, NEW p \in Process, proc'[p].pc # "setup",
         \A q \in Process \ {p} : proc'[q] = proc[q]
  PROVE  SetUpOnce'
<1> SUFFICES ASSUME NEW q \in Process, NEW r \in Process, proc'[q].pc = "setup", proc'[r].pc = "setup",
                    proc'[q].seg = proc'[r].seg
             PROVE  q = r
  BY DEF SetUpOnce
<1>1. proc'[q] = proc[q] /\ proc'[r] = proc[r]
  OBVIOUS
<1> QED BY <1>1 DEF SetUpOnce

LEMMA InsideTypes ==
  ASSUME QueueInv, NEW p \in Process, NEW s \in DOMAIN segments, NEW h \in ShmHead,
         NEW w \in Seq(Nat), NEW g \in Seq(Nat), NEW x \in Outside \cup Attached, NEW b \in Nat,
         Inside(p, s, h, w, g, x, b)
  PROVE  /\ QueueTypes' /\ DOMAIN segments' = DOMAIN segments
         /\ segments'[s] = h /\ written'[s] = w /\ got'[s] = g
         /\ \A t \in DOMAIN segments \ {s} : /\ segments'[t] = segments[t]
                                            /\ written'[t] = written[t] /\ got'[t] = got[t]
         /\ proc'[p] = [pc |-> x, seg |-> s, buf |-> b]
         /\ \A q \in Process \ {p} : proc'[q] = proc[q]
         /\ Unread(s)' = Len(w) - Len(g)
<1>1. /\ segments \in Seq(ShmHead) /\ written \in Seq(Seq(Nat)) /\ got \in Seq(Seq(Nat))
      /\ DOMAIN written = DOMAIN segments /\ DOMAIN got = DOMAIN segments
      /\ Len(written) = Len(segments) /\ Len(got) = Len(segments)
      /\ key \in 0 .. Len(segments)
      /\ proc \in [Process -> [pc : Outside \cup Attached, seg : Nat, buf : Nat]]
  BY DEF QueueInv, QueueTypes
<1>2. s \in Nat
  BY <1>1
<1>3. /\ segments' \in Seq(ShmHead) /\ Len(segments') = Len(segments)
      /\ DOMAIN segments' = DOMAIN segments
      /\ segments'[s] = h /\ \A t \in DOMAIN segments \ {s} : segments'[t] = segments[t]
  BY <1>1 DEF Inside
<1>4. /\ written' \in Seq(Seq(Nat)) /\ Len(written') = Len(segments)
      /\ written'[s] = w /\ \A t \in DOMAIN segments \ {s} : written'[t] = written[t]
  BY <1>1 DEF Inside
<1>5. /\ got' \in Seq(Seq(Nat)) /\ Len(got') = Len(segments)
      /\ got'[s] = g /\ \A t \in DOMAIN segments \ {s} : got'[t] = got[t]
  BY <1>1 DEF Inside
<1>6. /\ proc' \in [Process -> [pc : Outside \cup Attached, seg : Nat, buf : Nat]]
      /\ proc'[p] = [pc |-> x, seg |-> s, buf |-> b]
      /\ \A q \in Process \ {p} : proc'[q] = proc[q]
  BY <1>1, <1>2 DEF Inside
<1>7. key' \in 0 .. Len(segments)
  BY <1>1 DEF Inside
<1> QED BY <1>3, <1>4, <1>5, <1>6, <1>7 DEF QueueTypes, Unread

LEMMA StepInside ==
  ASSUME QueueInv, OneReader, NEW p \in Process, NEW s \in DOMAIN segments, proc[p].seg = s,
         NEW h \in ShmHead, h.ready, segments[s].ready, NEW w \in Seq(Nat), NEW g \in Seq(Nat),
         NEW x \in Attached \ {"setup"}, NEW b \in Nat,
         Inside(p, s, h, w, g, x, b),
         Len(w) >= Len(written[s]), \A i \in 1 .. Len(written[s]) : w[i] = written[s][i],
         p \in Reader \/ g = got[s],
         x \in {"read", "move", "post"} => p \in Reader,
         x = "move" => Len(w) - Len(g) > 0 /\ b = w[Len(g) + 1],
         Ring(s)', Counts(s)'
  PROVE  QueueInv'
<1>1. x \in Outside \cup Attached /\ DOMAIN segments \subseteq Nat
  BY DEF QueueInv, QueueTypes
<1>2. /\ QueueTypes' /\ DOMAIN segments' = DOMAIN segments
      /\ segments'[s] = h /\ written'[s] = w /\ got'[s] = g
      /\ \A t \in DOMAIN segments \ {s} : /\ segments'[t] = segments[t]
                                         /\ written'[t] = written[t] /\ got'[t] = got[t]
      /\ proc'[p] = [pc |-> x, seg |-> s, buf |-> b]
      /\ \A q \in Process \ {p} : proc'[q] = proc[q]
      /\ Unread(s)' = Len(w) - Len(g)
  BY <1>1, InsideTypes
<1>3. ASSUME NEW q \in Process \ {p} PROVE PlaceOf(q)'
  <2>1. ASSUME NEW t \in DOMAIN segments
        PROVE  /\ written'[t] \in Seq(Nat) /\ Len(written'[t]) >= Len(written[t])
               /\ \A i \in 1 .. Len(written[t]) : written'[t][i] = written[t][i]
               /\ p \in Reader \/ got'[t] = got[t]
    <3>1. written[t] \in Seq(Nat) /\ Len(written[t]) \in Nat
      <4>1. written \in Seq(Seq(Nat)) /\ t \in DOMAIN written
        BY DEF QueueInv, QueueTypes
      <4> QED BY <4>1
    <3>2. CASE t = s
      BY <1>2, <3>2
    <3>3. CASE t # s
      BY <1>2, <3>1, <3>3
    <3> QED BY <3>2, <3>3
  <2>2. proc[q].pc \in Attached \ {"open"} => segments'[proc[q].seg].ready = segments[proc[q].seg].ready
    <3>1. proc[q].pc \in Attached => proc[q].seg \in DOMAIN segments
      BY DEF QueueInv, PlaceOf
    <3>2. segments'[s].ready = segments[s].ready
      <4>1. segments[s] \in ShmHead
        BY DEF QueueInv, QueueTypes
      <4> QED BY <1>2, <4>1 DEF ShmHead
    <3> QED BY <1>2, <3>1, <3>2
  <2> QED BY <1>2, <2>1, <2>2, OthersKeepPlace
<1>4. PlaceOf(p)'
  BY <1>2 DEF PlaceOf, Outside, Attached, HasTaken, HasGiven
<1>5. SetUpOnce'
  <2>1. proc'[p].pc # "setup"
    BY <1>2
  <2>2. SetUpOnce
    BY DEF QueueInv
  <2>3. \A q \in Process \ {p} : proc'[q] = proc[q]
    BY <1>2
  <2> QED BY <2>1, <2>2, <2>3, OnceKept
<1>6. ASSUME NEW t \in DOMAIN segments, t # s PROVE Ring(t)' /\ Counts(t)'
  BY <1>2, <1>6, OthersStay
<1> QED BY <1>2, <1>3, <1>4, <1>5, <1>6 DEF QueueInv

OneIf(condition) == IF condition THEN 1 ELSE 0

\* What a process that moves within a segment adds to its counts.
LEMMA CountsInside ==
  ASSUME QueueInv, NEW p \in Process, NEW s \in DOMAIN segments, proc[p].seg = s, proc'[p].seg = s,
         \A q \in Process \ {p} : proc'[q] = proc[q], segments[s].ready, segments'[s].ready,
         segments'[s] \in ShmHead, Unread(s)' \in Int,
         segments'[s].empty - Unread(s)' = segments[s].empty - Unread(s)
             + OneIf(proc[p].pc \in HasTaken) - OneIf(proc'[p].pc \in HasTaken),
         segments'[s].full + Unread(s)' = segments[s].full + Unread(s)
             + OneIf(proc[p].pc \in HasGiven) - OneIf(proc'[p].pc \in HasGiven)
  PROVE  Counts(s)'
<1> DEFINE T == Cardinality(In(s, HasTaken))  U == Cardinality(In(s, HasTaken)')
           G == Cardinality(In(s, HasGiven))  H == Cardinality(In(s, HasGiven)')
           e == segments[s].empty  f == segments'[s].empty
           i == segments[s].full  j == segments'[s].full
<1>1. e + T = Unread(s) /\ i + G = Blocks - Unread(s)
  BY DEF QueueInv, Counts
<1>2. /\ T \in Nat /\ U = T - OneIf(p \in In(s, HasTaken)) + OneIf(p \in In(s, HasTaken)')
      /\ G \in Nat /\ H = G - OneIf(p \in In(s, HasGiven)) + OneIf(p \in In(s, HasGiven)')
  BY CountMoves DEF OneIf
<1>3. /\ p \in In(s, HasTaken) <=> proc[p].pc \in HasTaken
      /\ p \in In(s, HasTaken)' <=> proc'[p].pc \in HasTaken
      /\ p \in In(s, HasGiven) <=> proc[p].pc \in HasGiven
      /\ p \in In(s, HasGiven)' <=> proc'[p].pc \in HasGiven
  BY DEF In
<1>4. e \in Nat /\ f \in Nat /\ i \in Nat /\ j \in Nat /\ Unread(s) \in Int
  <2>1. segments[s] \in ShmHead /\ Unread(s) \in Int
    BY DEF QueueInv, QueueTypes, Ring
  <2> QED BY <2>1 DEF ShmHead
<1> HIDE DEF T, U, G, H, e, f, i, j
<1>5. f - Unread(s)' = e - Unread(s) + T - U /\ j + Unread(s)' = i + Unread(s) + G - H
  <2>1. f - Unread(s)' = e - Unread(s) + OneIf(proc[p].pc \in HasTaken) - OneIf(proc'[p].pc \in HasTaken)
        /\ j + Unread(s)' = i + Unread(s) + OneIf(proc[p].pc \in HasGiven) - OneIf(proc'[p].pc \in HasGiven)
    BY DEF e, f, i, j
  <2>2. /\ U = T - OneIf(proc[p].pc \in HasTaken) + OneIf(proc'[p].pc \in HasTaken)
        /\ H = G - OneIf(proc[p].pc \in HasGiven) + OneIf(proc'[p].pc \in HasGiven)
    BY <1>2, <1>3 DEF OneIf
  <2>3. \A b \in BOOLEAN : OneIf(b) \in Int
    BY DEF OneIf
  <2> QED BY <1>2, <1>4, <2>1, <2>2, <2>3 DEF OneIf
<1>6. U \in Int /\ H \in Int
  BY <1>2 DEF OneIf
<1>7. f + U = Unread(s)' /\ j + H = Blocks - Unread(s)'
  BY <1>1, <1>2, <1>4, <1>5, <1>6, RingAssumption
<1> QED BY <1>7 DEF Counts, U, H, f, j

LEMMA SameInPlace ==
  ASSUME NEW S, NEW f \in Seq(S), NEW i \in DOMAIN f
  PROVE  f = [f EXCEPT ![i] = f[i]]
OBVIOUS

\* A step that waits for a semaphore of the segment, or posts it.
LEMMA SemaphoreStep ==
  ASSUME QueueInv, OneReader, NEW p \in Process, NEW s \in DOMAIN segments, proc[p].seg = s,
         segments[s].ready, NEW h \in ShmHead, h.ready, h.rd = segments[s].rd, h.wr = segments[s].wr,
         h.payload = segments[s].payload, NEW x \in Attached \ {"setup", "move"},
         x \in {"read", "post"} => p \in Reader,
         segments' = [segments EXCEPT ![s] = h], proc' = [proc EXCEPT ![p].pc = x],
         UNCHANGED <<key, written, got>>,
         h.empty = segments[s].empty
             + OneIf(proc[p].pc \in HasTaken) - OneIf(x \in HasTaken),
         h.full = segments[s].full
             + OneIf(proc[p].pc \in HasGiven) - OneIf(x \in HasGiven)
  PROVE  QueueInv'
<1> DEFINE w == written[s]  g == got[s]  b == proc[p].buf
<1>1. /\ w \in Seq(Nat) /\ g \in Seq(Nat) /\ b \in Nat /\ Len(w) \in Nat /\ Len(g) \in Nat
      /\ proc \in [Process -> [pc : Outside \cup Attached, seg : Nat, buf : Nat]]
      /\ segments[s] \in ShmHead /\ x \in Outside \cup Attached
      /\ written \in Seq(Seq(Nat)) /\ got \in Seq(Seq(Nat)) /\ s \in DOMAIN written /\ s \in DOMAIN got
  <2>1. /\ segments \in Seq(ShmHead) /\ s \in DOMAIN written /\ s \in DOMAIN got
        /\ written \in Seq(Seq(Nat)) /\ got \in Seq(Seq(Nat))
        /\ proc \in [Process -> [pc : Outside \cup Attached, seg : Nat, buf : Nat]]
    BY DEF QueueInv, QueueTypes
  <2> QED BY <2>1
<1>2. Inside(p, s, h, w, g, x, b)
  <2>1. written' = [written EXCEPT ![s] = w] /\ got' = [got EXCEPT ![s] = g]
    <3>1. written \in Seq(Seq(Nat)) /\ got \in Seq(Seq(Nat)) /\ s \in DOMAIN written /\ s \in DOMAIN got
      BY <1>1
    <3> QED BY <3>1, SameInPlace
  <2>2. proc' = [proc EXCEPT ![p] = [pc |-> x, seg |-> s, buf |-> b]]
    <3>1. [proc[p] EXCEPT !.pc = x] = [pc |-> x, seg |-> s, buf |-> b]
      <4>1. proc[p] \in [pc : Outside \cup Attached, seg : Nat, buf : Nat]
        BY <1>1
      <4> QED BY <4>1
    <3>2. proc' = [proc EXCEPT ![p] = [proc[p] EXCEPT !.pc = x]]
      OBVIOUS
    <3> QED BY <3>1, <3>2
  <2> QED BY <2>1, <2>2 DEF Inside
<1>3. PICK v \in Seq(Nat), f \in Seq(Nat), c \in Nat : v = w /\ f = g /\ c = b
  BY <1>1
<1>4. /\ segments'[s] = h /\ written'[s] = v /\ got'[s] = f
      /\ proc'[p] = [pc |-> x, seg |-> s, buf |-> c]
      /\ \A q \in Process \ {p} : proc'[q] = proc[q]
      /\ Unread(s)' = Unread(s) /\ Unread(s) \in Int
  <2>1. Inside(p, s, h, v, f, x, c)
    BY <1>2, <1>3
  <2>2. /\ segments'[s] = h /\ written'[s] = v /\ got'[s] = f
        /\ proc'[p] = [pc |-> x, seg |-> s, buf |-> c]
        /\ \A q \in Process \ {p} : proc'[q] = proc[q]
        /\ Unread(s)' = Len(v) - Len(f)
    <3>1. PICK y \in Outside \cup Attached : y = x
      BY <1>1
    <3>2. Inside(p, s, h, v, f, y, c)
      BY <2>1, <3>1
    <3>3. /\ segments'[s] = h /\ written'[s] = v /\ got'[s] = f
          /\ proc'[p] = [pc |-> y, seg |-> s, buf |-> c]
          /\ \A q \in Process \ {p} : proc'[q] = proc[q]
          /\ Unread(s)' = Len(v) - Len(f)
      BY <3>2, InsideTypes
    <3> QED BY <3>1, <3>3
  <2>3. Unread(s) = Len(v) - Len(f)
    BY <1>3 DEF Unread
  <2>4. Len(v) \in Nat /\ Len(f) \in Nat
    BY <1>3
  <2> QED BY <2>2, <2>3, <2>4
<1>5. Ring(s)'
  <2>1. Ring(s)
    BY DEF QueueInv
  <2> QED BY <1>3, <1>4, <2>1 DEF Ring
<1>6. Counts(s)'
  <2>1. proc'[p].pc = x /\ proc'[p].seg = s
    BY <1>4
  <2>2. /\ segments'[s].empty - Unread(s)' = segments[s].empty - Unread(s)
             + OneIf(proc[p].pc \in HasTaken) - OneIf(proc'[p].pc \in HasTaken)
        /\ segments'[s].full + Unread(s)' = segments[s].full + Unread(s)
             + OneIf(proc[p].pc \in HasGiven) - OneIf(proc'[p].pc \in HasGiven)
    <3> DEFINE a == segments[s].empty  d == segments[s].full  u == Unread(s)
    <3>1. a \in Int /\ d \in Int /\ u \in Int
      BY <1>1, <1>4 DEF ShmHead
    <3>2. h.empty = a + OneIf(proc[p].pc \in HasTaken) - OneIf(x \in HasTaken)
          /\ h.full = d + OneIf(proc[p].pc \in HasGiven) - OneIf(x \in HasGiven)
      OBVIOUS
    <3> HIDE DEF a, d, u
    <3>3. /\ h.empty - u = a - u + OneIf(proc[p].pc \in HasTaken) - OneIf(x \in HasTaken)
          /\ h.full + u = d + u + OneIf(proc[p].pc \in HasGiven) - OneIf(x \in HasGiven)
      BY <3>1, <3>2 DEF OneIf
    <3> QED BY <1>4, <2>1, <3>3 DEF a, d, u
  <2> QED BY <1>4, <2>1, <2>2, CountsInside
<1>7. Inside(p, s, h, v, f, x, c)
  BY <1>2, <1>3
<1>8. /\ Len(v) >= Len(written[s]) /\ \A i \in 1 .. Len(written[s]) : v[i] = written[s][i]
      /\ f = got[s]
  BY <1>1, <1>3
<1>9. /\ x \in {"read", "move", "post"} => p \in Reader
      /\ x = "move" => Len(v) - Len(f) > 0 /\ c = v[Len(f) + 1]
      /\ x \in Attached \ {"setup"}
  OBVIOUS
<1> HIDE DEF w, g, b
<1> QED BY <1>5, <1>6, <1>7, <1>8, <1>9, StepInside

\* The process is attached to a segment, set up if it waits there in vain no more.
LEMMA AttachedPlace ==
  ASSUME QueueInv, NEW p \in Process, proc[p].pc \in Attached
  PROVE  /\ Seg(p) \in ShmHead /\ proc[p].seg \in DOMAIN segments
         /\ proc[p].pc \in HasTaken \cup HasGiven => Seg(p).ready
         /\ Seg(p).full > 0 \/ Seg(p).empty > 0 => Seg(p).ready
<1>1. PICK s \in DOMAIN segments : s = proc[p].seg
  BY DEF QueueInv, PlaceOf
<1>2. segments[s] \in ShmHead
  BY DEF QueueInv, QueueTypes
<1>3. ~segments[s].ready => segments[s].full = 0 /\ segments[s].empty = 0
  BY DEF QueueInv, Counts, Raw
<1>4. proc[p].pc \in HasTaken \cup HasGiven => segments[s].ready
  BY <1>1 DEF QueueInv, PlaceOf
<1> QED BY <1>1, <1>2, <1>3, <1>4 DEF Seg

LEMMA WaitsKeep ==
  ASSUME QueueInv, OneReader, NEW p \in Process, WaitFull(p) \/ WaitMutex(p) \/ WaitEmpty(p)
  PROVE  QueueInv'
<1>1. PICK s \in DOMAIN segments : s = proc[p].seg /\ segments[s] \in ShmHead /\ segments[s].ready
  BY AttachedPlace DEF WaitFull, WaitMutex, WaitEmpty, Wait, Attached, HasTaken, HasGiven, Seg
<1>2. CASE WaitFull(p)
  <2> DEFINE g == [segments[s] EXCEPT !.full = @ - 1]
  <2>1. /\ g \in ShmHead /\ g.ready /\ g.rd = segments[s].rd /\ g.wr = segments[s].wr
        /\ g.payload = segments[s].payload
        /\ g.full = segments[s].full - 1
        /\ g.empty = segments[s].empty
    BY <1>1, <1>2 DEF WaitFull, Wait, Seg, ShmHead
  <2>2. /\ segments' = [segments EXCEPT ![s] = g] /\ proc[p].pc = "open"
        /\ proc' = [proc EXCEPT ![p].pc = "lock"] /\ UNCHANGED <<key, written, got>>
    BY <1>1, <1>2 DEF WaitFull, Wait, Goes
  <2>3. PICK h \in ShmHead : h = g
    BY <2>1
  <2>4. /\ OneIf(proc[p].pc \in HasTaken) = 0 /\ OneIf("lock" \in HasTaken) = 0
        /\ OneIf(proc[p].pc \in HasGiven) = 0 /\ OneIf("lock" \in HasGiven) = 1
    BY <2>2 DEF OneIf, HasTaken, HasGiven
  <2>5. h.full = segments[s].full + 0 - 1 /\ h.empty = segments[s].empty + 0 - 0
    BY <1>1, <2>1, <2>3 DEF ShmHead
  <2>6. /\ "lock" \in Attached \ {"setup", "move"}
        /\ "lock" \in {"read", "post"} => p \in Reader
    BY <1>2 DEF Attached, HasTaken, HasGiven
  <2> HIDE DEF g
  <2> QED BY <1>1, <2>1, <2>2, <2>3, <2>4, <2>5, <2>6, SemaphoreStep
<1>3. CASE WaitMutex(p)
  <2> DEFINE g == [segments[s] EXCEPT !.mutex = @ - 1]
  <2>1. /\ g \in ShmHead /\ g.ready /\ g.rd = segments[s].rd /\ g.wr = segments[s].wr
        /\ g.payload = segments[s].payload
        /\ g.full = segments[s].full
        /\ g.empty = segments[s].empty
    BY <1>1, <1>3 DEF WaitMutex, Wait, Seg, ShmHead
  <2>2. /\ segments' = [segments EXCEPT ![s] = g] /\ proc[p].pc = "lock"
        /\ proc' = [proc EXCEPT ![p].pc = "copy"] /\ UNCHANGED <<key, written, got>>
    BY <1>1, <1>3 DEF WaitMutex, Wait, Goes
  <2>3. PICK h \in ShmHead : h = g
    BY <2>1
  <2>4. /\ OneIf(proc[p].pc \in HasTaken) = 0 /\ OneIf("copy" \in HasTaken) = 0
        /\ OneIf(proc[p].pc \in HasGiven) = 1 /\ OneIf("copy" \in HasGiven) = 1
    BY <2>2 DEF OneIf, HasTaken, HasGiven
  <2>5. h.full = segments[s].full + 1 - 1 /\ h.empty = segments[s].empty + 0 - 0
    BY <1>1, <2>1, <2>3 DEF ShmHead
  <2>6. /\ "copy" \in Attached \ {"setup", "move"}
        /\ "copy" \in {"read", "post"} => p \in Reader
    BY <1>3 DEF Attached, HasTaken, HasGiven
  <2> HIDE DEF g
  <2> QED BY <1>1, <2>1, <2>2, <2>3, <2>4, <2>5, <2>6, SemaphoreStep
<1>4. CASE WaitEmpty(p)
  <2> DEFINE g == [segments[s] EXCEPT !.empty = @ - 1]
  <2>1. /\ g \in ShmHead /\ g.ready /\ g.rd = segments[s].rd /\ g.wr = segments[s].wr
        /\ g.payload = segments[s].payload
        /\ g.full = segments[s].full
        /\ g.empty = segments[s].empty - 1
    BY <1>1, <1>4 DEF WaitEmpty, Wait, Seg, ShmHead
  <2>2. /\ segments' = [segments EXCEPT ![s] = g] /\ proc[p].pc = "open"
        /\ proc' = [proc EXCEPT ![p].pc = "read"] /\ UNCHANGED <<key, written, got>>
    BY <1>1, <1>4 DEF WaitEmpty, Wait, Goes
  <2>3. PICK h \in ShmHead : h = g
    BY <2>1
  <2>4. /\ OneIf(proc[p].pc \in HasTaken) = 0 /\ OneIf("read" \in HasTaken) = 1
        /\ OneIf(proc[p].pc \in HasGiven) = 0 /\ OneIf("read" \in HasGiven) = 0
    BY <2>2 DEF OneIf, HasTaken, HasGiven
  <2>5. h.full = segments[s].full + 0 - 0 /\ h.empty = segments[s].empty + 0 - 1
    BY <1>1, <2>1, <2>3 DEF ShmHead
  <2>6. /\ "read" \in Attached \ {"setup", "move"}
        /\ "read" \in {"read", "post"} => p \in Reader
    BY <1>4 DEF Attached, HasTaken, HasGiven, WaitEmpty
  <2> HIDE DEF g
  <2> QED BY <1>1, <2>1, <2>2, <2>3, <2>4, <2>5, <2>6, SemaphoreStep
<1> QED BY <1>2, <1>3, <1>4

LEMMA PostsKeep ==
  ASSUME QueueInv, OneReader, NEW p \in Process, PostMutex(p) \/ PostEmpty(p) \/ PostFull(p)
  PROVE  QueueInv'
<1>1. PICK s \in DOMAIN segments : s = proc[p].seg /\ segments[s] \in ShmHead /\ segments[s].ready
  BY AttachedPlace DEF PostMutex, PostEmpty, PostFull, Post, Attached, HasTaken, HasGiven, Seg
<1>2. CASE PostMutex(p)
  <2> DEFINE g == [segments[s] EXCEPT !.mutex = @ + 1]
  <2>1. /\ g \in ShmHead /\ g.ready /\ g.rd = segments[s].rd /\ g.wr = segments[s].wr
        /\ g.payload = segments[s].payload
        /\ g.full = segments[s].full
        /\ g.empty = segments[s].empty
    BY <1>1, <1>2 DEF PostMutex, Post, Seg, ShmHead
  <2>2. /\ segments' = [segments EXCEPT ![s] = g] /\ proc[p].pc = "unlock"
        /\ proc' = [proc EXCEPT ![p].pc = "posts"] /\ UNCHANGED <<key, written, got>>
    BY <1>1, <1>2 DEF PostMutex, Post, Goes
  <2>3. PICK h \in ShmHead : h = g
    BY <2>1
  <2>4. /\ OneIf(proc[p].pc \in HasTaken) = 1 /\ OneIf("posts" \in HasTaken) = 1
        /\ OneIf(proc[p].pc \in HasGiven) = 0 /\ OneIf("posts" \in HasGiven) = 0
    BY <2>2 DEF OneIf, HasTaken, HasGiven
  <2>5. h.full = segments[s].full + 0 - 0 /\ h.empty = segments[s].empty + 1 - 1
    BY <1>1, <2>1, <2>3 DEF ShmHead
  <2>6. /\ "posts" \in Attached \ {"setup", "move"}
        /\ "posts" \in {"read", "post"} => p \in Reader
    BY <1>2 DEF Attached, HasTaken, HasGiven
  <2> HIDE DEF g
  <2> QED BY <1>1, <2>1, <2>2, <2>3, <2>4, <2>5, <2>6, SemaphoreStep
<1>3. CASE PostEmpty(p)
  <2> DEFINE g == [segments[s] EXCEPT !.empty = @ + 1]
  <2>1. /\ g \in ShmHead /\ g.ready /\ g.rd = segments[s].rd /\ g.wr = segments[s].wr
        /\ g.payload = segments[s].payload
        /\ g.full = segments[s].full
        /\ g.empty = segments[s].empty + 1
    BY <1>1, <1>3 DEF PostEmpty, Post, Seg, ShmHead
  <2>2. /\ segments' = [segments EXCEPT ![s] = g] /\ proc[p].pc = "posts"
        /\ proc' = [proc EXCEPT ![p].pc = "open"] /\ UNCHANGED <<key, written, got>>
    BY <1>1, <1>3 DEF PostEmpty, Post, Goes
  <2>3. PICK h \in ShmHead : h = g
    BY <2>1
  <2>4. /\ OneIf(proc[p].pc \in HasTaken) = 1 /\ OneIf("open" \in HasTaken) = 0
        /\ OneIf(proc[p].pc \in HasGiven) = 0 /\ OneIf("open" \in HasGiven) = 0
    BY <2>2 DEF OneIf, HasTaken, HasGiven
  <2>5. h.full = segments[s].full + 0 - 0 /\ h.empty = segments[s].empty + 1 - 0
    BY <1>1, <2>1, <2>3 DEF ShmHead
  <2>6. /\ "open" \in Attached \ {"setup", "move"}
        /\ "open" \in {"read", "post"} => p \in Reader
    BY <1>3 DEF Attached, HasTaken, HasGiven
  <2> HIDE DEF g
  <2> QED BY <1>1, <2>1, <2>2, <2>3, <2>4, <2>5, <2>6, SemaphoreStep
<1>4. CASE PostFull(p)
  <2> DEFINE g == [segments[s] EXCEPT !.full = @ + 1]
  <2>1. /\ g \in ShmHead /\ g.ready /\ g.rd = segments[s].rd /\ g.wr = segments[s].wr
        /\ g.payload = segments[s].payload
        /\ g.full = segments[s].full + 1
        /\ g.empty = segments[s].empty
    BY <1>1, <1>4 DEF PostFull, Post, Seg, ShmHead
  <2>2. /\ segments' = [segments EXCEPT ![s] = g] /\ proc[p].pc = "post"
        /\ proc' = [proc EXCEPT ![p].pc = "open"] /\ UNCHANGED <<key, written, got>>
    BY <1>1, <1>4 DEF PostFull, Post, Goes
  <2>3. PICK h \in ShmHead : h = g
    BY <2>1
  <2>4. /\ OneIf(proc[p].pc \in HasTaken) = 0 /\ OneIf("open" \in HasTaken) = 0
        /\ OneIf(proc[p].pc \in HasGiven) = 1 /\ OneIf("open" \in HasGiven) = 0
    BY <2>2 DEF OneIf, HasTaken, HasGiven
  <2>5. h.full = segments[s].full + 1 - 0 /\ h.empty = segments[s].empty + 0 - 0
    BY <1>1, <2>1, <2>3 DEF ShmHead
  <2>6. /\ "open" \in Attached \ {"setup", "move"}
        /\ "open" \in {"read", "post"} => p \in Reader
    BY <1>4 DEF Attached, HasTaken, HasGiven
  <2> HIDE DEF g
  <2> QED BY <1>1, <2>1, <2>2, <2>3, <2>4, <2>5, <2>6, SemaphoreStep
<1> QED BY <1>2, <1>3, <1>4

\* A block in a process's hands is one of those that are read, or are not.
LEMMA InHand ==
  ASSUME QueueInv, NEW p \in Process, proc[p].pc \in HasTaken \cup HasGiven
  PROVE  /\ proc[p].pc \in HasTaken => Unread(proc[p].seg) > 0
         /\ proc[p].pc \in HasGiven => Unread(proc[p].seg) < Blocks
<1>1. PICK s \in DOMAIN segments : s = proc[p].seg /\ segments[s] \in ShmHead /\ segments[s].ready
  BY AttachedPlace DEF Attached, Seg
<1>2. segments[s].empty \in Nat /\ segments[s].full \in Nat /\ Unread(s) \in Int
  BY <1>1 DEF ShmHead, QueueInv, Ring
<1>3. segments[s].empty + Cardinality(In(s, HasTaken)) = Unread(s)
      /\ segments[s].full + Cardinality(In(s, HasGiven)) = Blocks - Unread(s)
  BY <1>1 DEF QueueInv, Counts
<1>4. ASSUME NEW X, proc[p].pc \in X PROVE Cardinality(In(s, X)) \in Nat \ {0}
  <2>1. IsFiniteSet(In(s, X)) /\ p \in In(s, X)
    BY <1>1, <1>4, RingAssumption, FS_Subset DEF In, Process
  <2> QED BY <2>1, FS_EmptySet, FS_CardinalityType
<1>5. CASE proc[p].pc \in HasTaken
  <2>1. Cardinality(In(s, HasTaken)) \in Nat \ {0}
    BY <1>4, <1>5
  <2>2. Unread(s) > 0
    BY <1>2, <1>3, <2>1
  <2> QED BY <1>1, <1>5, <2>2 DEF HasTaken, HasGiven
<1>6. CASE proc[p].pc \in HasGiven
  <2>1. Cardinality(In(s, HasGiven)) \in Nat \ {0}
    BY <1>4, <1>6
  <2>2. Unread(s) < Blocks
    BY <1>2, <1>3, <2>1, RingAssumption
  <2> QED BY <1>1, <1>6, <2>2 DEF HasTaken, HasGiven
<1> QED BY <1>5, <1>6

LEMMA WritesType ==
  ASSUME QueueTypes
  PROVE  Writes \in Nat
<1>1. Len(written) \in Nat
  BY DEF QueueTypes
<1>2. IsFiniteSet(1 .. Len(written)) /\ IsFiniteSet(1 .. MaxWrites)
  BY <1>1, RingAssumption, FS_Interval
<1>3. IsFiniteSet((1 .. Len(written)) \X (1 .. MaxWrites))
  BY <1>2, FS_Product
<1>4. IsFiniteSet({w \in (1 .. Len(written)) \X (1 .. MaxWrites) : w[2] <= Len(written[w[1]])})
  BY <1>3, FS_Subset
<1> QED BY <1>4, FS_CardinalityType DEF Writes

LEMMA InSegment ==
  ASSUME QueueInv, NEW s \in DOMAIN segments
  PROVE  /\ segments[s] \in ShmHead /\ written[s] \in Seq(Nat) /\ got[s] \in Seq(Nat)
         /\ Len(written[s]) \in Nat /\ Len(got[s]) \in Nat
         /\ written = [written EXCEPT ![s] = written[s]] /\ got = [got EXCEPT ![s] = got[s]]
         /\ segments = [segments EXCEPT ![s] = segments[s]]
<1>1. /\ segments \in Seq(ShmHead) /\ s \in DOMAIN written /\ s \in DOMAIN got
      /\ written \in Seq(Seq(Nat)) /\ got \in Seq(Seq(Nat))
  BY DEF QueueInv, QueueTypes
<1> QED BY <1>1, SameInPlace

LEMMA ReadKeeps ==
  ASSUME QueueInv, OneReader, NEW p \in Process, Read(p)
  PROVE  QueueInv'
<1>1. PICK s \in DOMAIN segments : s = proc[p].seg /\ segments[s].ready
  BY AttachedPlace DEF Read, Attached, HasTaken, Seg
<1> DEFINE h == segments[s]  w == written[s]  g == got[s]
<1>2. /\ h \in ShmHead /\ w \in Seq(Nat) /\ g \in Seq(Nat) /\ Len(w) \in Nat /\ Len(g) \in Nat
      /\ written = [written EXCEPT ![s] = w] /\ got = [got EXCEPT ![s] = g]
      /\ segments = [segments EXCEPT ![s] = h]
  BY InSegment
<1>3. Unread(s) > 0 /\ Unread(s) \in Nat /\ Ring(s)
  <2>1. proc[p].pc \in HasTaken
    BY DEF Read, HasTaken
  <2>2. Ring(s) /\ Unread(s) \in Nat
    BY DEF QueueInv, Ring
  <2> QED BY <1>1, <2>1, <2>2, InHand
<1>4. h.payload[h.rd] = w[Len(g) + 1] /\ h.payload[h.rd] \in Nat
  <2>1. h.rd \in Slot /\ h.payload \in [Slot -> Nat]
    BY <1>2 DEF ShmHead
  <2>2. 0 \in 0 .. Unread(s) - 1 /\ Around(h.rd + 0) = h.rd /\ Len(g) + 1 + 0 = Len(g) + 1
    BY <1>2, <1>3, <2>1, RingAssumption DEF Slot, Around
  <2> QED BY <1>3, <2>1, <2>2 DEF Ring
<1>5. PICK b \in Nat : b = h.payload[h.rd]
  BY <1>4
<1>6. proc' = [proc EXCEPT ![p] = [pc |-> "move", seg |-> s, buf |-> b]]
  <2>1. proc[p] \in [pc : Outside \cup Attached, seg : Nat, buf : Nat]
    BY DEF QueueInv, QueueTypes
  <2> DEFINE r == [proc[p] EXCEPT !.pc = "move"]
  <2>2. r = [pc |-> "move", seg |-> s, buf |-> proc[p].buf]
    BY <1>1, <2>1
  <2>3. proc' = [proc EXCEPT ![p] = [r EXCEPT !.buf = b]]
    BY <1>1, <1>5 DEF Read, Seg
  <2> HIDE DEF r
  <2>4. [r EXCEPT !.buf = b] = [pc |-> "move", seg |-> s, buf |-> b]
    BY <2>2
  <2> QED BY <2>3, <2>4
<1>7. PICK j \in ShmHead, v \in Seq(Nat), f \in Seq(Nat) : j = h /\ v = w /\ f = g
  BY <1>2
<1>8. Inside(p, s, j, v, f, "move", b)
  BY <1>2, <1>6, <1>7 DEF Inside, Read
<1>9. /\ segments'[s] = j /\ written'[s] = v /\ got'[s] = f
      /\ proc'[p] = [pc |-> "move", seg |-> s, buf |-> b]
      /\ \A q \in Process \ {p} : proc'[q] = proc[q]
      /\ Unread(s)' = Unread(s)
  <2>1. "move" \in Outside \cup Attached
    BY DEF Attached, HasTaken
  <2>2. Unread(s)' = Unread(s)
    BY DEF Read, Unread
  <2> QED BY <1>8, <2>1, <2>2, InsideTypes
<1>10. Ring(s)'
  BY <1>3, <1>7, <1>9 DEF Ring
<1>11. Counts(s)'
  <2>1. OneIf(proc[p].pc \in HasTaken) = 1 /\ OneIf(proc'[p].pc \in HasTaken) = 1
        /\ OneIf(proc[p].pc \in HasGiven) = 0 /\ OneIf(proc'[p].pc \in HasGiven) = 0
    BY <1>9 DEF Read, OneIf, HasTaken, HasGiven
  <2>2. h.empty \in Nat /\ h.full \in Nat
    BY <1>2 DEF ShmHead
  <2>3. /\ h.empty - Unread(s) = h.empty - Unread(s) + 1 - 1
        /\ h.full + Unread(s) = h.full + Unread(s) + 0 - 0
    BY <1>3, <2>2
  <2> QED BY <1>1, <1>2, <1>3, <1>7, <1>9, <2>1, <2>3, CountsInside
<1>12. /\ Len(v) >= Len(written[s]) /\ \A i \in 1 .. Len(written[s]) : v[i] = written[s][i]
       /\ f = got[s] /\ p \in Reader /\ j.ready
       /\ Len(v) - Len(f) > 0 /\ b = v[Len(f) + 1] /\ "move" \in Attached \ {"setup"}
  <2>1. p \in Reader /\ "move" \in Attached \ {"setup"}
    BY DEF Read, QueueInv, PlaceOf, Attached, HasTaken
  <2>2. Len(v) - Len(f) > 0 /\ b = v[Len(f) + 1]
    BY <1>3, <1>4, <1>5, <1>7 DEF Unread
  <2>3. Len(v) >= Len(written[s]) /\ \A i \in 1 .. Len(written[s]) : v[i] = written[s][i]
    BY <1>2, <1>7
  <2> QED BY <1>1, <1>7, <2>1, <2>2, <2>3
<1> QED BY <1>1, <1>8, <1>10, <1>11, <1>12, StepInside

LEMMA PcMoves ==
  ASSUME NEW P, NEW r \in [pc : P, seg : Nat, buf : Nat], NEW x
  PROVE  [r EXCEPT !.pc = x] = [pc |-> x, seg |-> r.seg, buf |-> r.buf]
OBVIOUS

LEMMA MoveIndexKeeps ==
  ASSUME QueueInv, OneReader, NEW p \in Process, MoveIndex(p)
  PROVE  QueueInv'
<1>1. PICK s \in DOMAIN segments : s = proc[p].seg /\ segments[s].ready
  BY AttachedPlace DEF MoveIndex, Attached, HasTaken, Seg
<1>2. PICK old \in ShmHead, w \in Seq(Nat), r \in Seq(Nat), n \in 0 .. Blocks, rd \in Slot :
          old = segments[s] /\ w = written[s] /\ r = got[s] /\ n = Unread(s) /\ rd = old.rd
  <2>1. segments[s] \in ShmHead /\ written[s] \in Seq(Nat) /\ got[s] \in Seq(Nat)
    BY InSegment
  <2>2. segments[s].rd \in Slot
    BY <2>1 DEF ShmHead
  <2>3. Unread(s) \in 0 .. Blocks
    BY DEF QueueInv, Ring
  <2> QED BY <2>1, <2>2, <2>3
<1>3. n > 0 /\ n \in Nat /\ n <= Blocks /\ n = Len(w) - Len(r) /\ Len(w) \in Nat /\ Len(r) \in Nat
  <2>1. proc[p].pc \in HasTaken
    BY DEF MoveIndex, HasTaken
  <2>2. Unread(s) > 0
    BY <1>1, <2>1, InHand
  <2>3. n \in Nat /\ n <= Blocks
    BY RingAssumption
  <2>4. Unread(s) = Len(written[s]) - Len(got[s])
    BY DEF Unread
  <2>5. Len(w) \in Nat /\ Len(r) \in Nat
    OBVIOUS
  <2> QED BY <1>2, <2>2, <2>3, <2>4, <2>5
<1>4. /\ old.wr = Around(rd + n)
      /\ \A i \in 0 .. n - 1 : old.payload[Around(rd + i)] = w[Len(r) + 1 + i]
      /\ \A i \in 1 .. Len(r) : r[i] = w[i]
  BY <1>2 DEF QueueInv, Ring
<1>5. /\ p \in Reader /\ proc[p].buf = w[Len(r) + 1]
      /\ proc[p] \in [pc : Outside \cup Attached, seg : Nat, buf : Nat]
  BY <1>1, <1>2 DEF MoveIndex, QueueInv, PlaceOf, QueueTypes
<1>6. PICK b \in Nat : b = proc[p].buf
  BY <1>5
<1>7. PICK g \in Seq(Nat) : g = Append(r, b)
  <2>1. Append(r, b) \in Seq(Nat)
    OBVIOUS
  <2> QED BY <2>1
<1>8. /\ Len(g) = Len(r) + 1 /\ g[Len(r) + 1] = w[Len(r) + 1]
      /\ \A i \in 1 .. Len(r) : g[i] = r[i]
  BY <1>5, <1>6, <1>7
<1>9. (rd + 1) % Blocks = Around(rd + 1) /\ Around(rd + 1) \in Slot
  BY NextIndex
<1>10. PICK h \in ShmHead : h = [old EXCEPT !.rd = Around(rd + 1)]
  BY <1>9 DEF ShmHead
<1>11. /\ h.rd = Around(rd + 1) /\ h.ready = old.ready /\ h.wr = old.wr
       /\ h.payload = old.payload /\ h.full = old.full /\ h.empty = old.empty
  BY <1>10 DEF ShmHead
<1>12. Inside(p, s, h, w, g, "post", b)
  <2>1. segments' = [segments EXCEPT ![s] = [old EXCEPT !.rd = (old.rd + 1) % Blocks]]
    BY <1>1, <1>2 DEF MoveIndex
  <2>2. got' = [got EXCEPT ![s] = Append(r, b)]
    BY <1>1, <1>2, <1>6 DEF MoveIndex
  <2>3. proc' = [proc EXCEPT ![p] = [proc[p] EXCEPT !.pc = "post"]]
    BY DEF MoveIndex, Goes
  <2>4. [proc[p] EXCEPT !.pc = "post"] = [pc |-> "post", seg |-> s, buf |-> b]
    <3>1. proc[p].seg = s /\ proc[p].buf = b
      BY <1>1, <1>6
    <3> QED BY <1>5, <3>1, PcMoves
  <2>5. written' = [written EXCEPT ![s] = w] /\ key' = key
    BY <1>2, InSegment DEF MoveIndex
  <2> QED BY <1>2, <1>7, <1>9, <1>10, <2>1, <2>2, <2>3, <2>4, <2>5 DEF Inside
<1>13. /\ segments'[s] = h /\ written'[s] = w /\ got'[s] = g
       /\ proc'[p] = [pc |-> "post", seg |-> s, buf |-> b]
       /\ \A q \in Process \ {p} : proc'[q] = proc[q]
       /\ Unread(s)' = n - 1
  <2>1. "post" \in Outside \cup Attached
    BY DEF Attached, HasGiven
  <2>2. Len(w) - Len(g) = n - 1
    BY <1>3, <1>8
  <2>3. Inside(p, s, h, w, g, "post", b)
    BY <1>12
  <2>4. /\ segments'[s] = h /\ written'[s] = w /\ got'[s] = g
        /\ proc'[p] = [pc |-> "post", seg |-> s, buf |-> b]
        /\ \A q \in Process \ {p} : proc'[q] = proc[q]
        /\ Unread(s)' = Len(w) - Len(g)
    BY <2>1, <2>3, InsideTypes
  <2> QED BY <2>2, <2>4
<1>14. Ring(s)'
  <2>1. n - 1 \in 0 .. Blocks
    BY <1>3, RingAssumption
  <2>2. Around(rd + n) = Around(Around(rd + 1) + (n - 1))
    BY <1>3, RingAssumption DEF Around, Slot
  <2>3. ASSUME NEW i \in 0 .. (n - 1) - 1
        PROVE  h.payload[Around(h.rd + i)] = w[Len(g) + 1 + i]
    <3>1. i + 1 \in 0 .. n - 1 /\ i \in Nat /\ i + 1 < Blocks
      BY <1>3, RingAssumption
    <3>2. old.payload[Around(rd + (i + 1))] = w[Len(r) + 1 + (i + 1)]
      BY <1>4, <3>1
    <3>3. Around(rd + (i + 1)) = Around(Around(rd + 1) + i)
      BY <3>1, RingAssumption DEF Around, Slot
    <3>4. Len(r) + 1 + (i + 1) = Len(g) + 1 + i
      BY <1>3, <1>8, <3>1
    <3> QED BY <1>11, <3>2, <3>3, <3>4
  <2>4. \A i \in 1 .. Len(g) : g[i] = w[i]
    <3>1. \A i \in 1 .. Len(g) : i \in 1 .. Len(r) \/ i = Len(r) + 1
      BY <1>3, <1>8
    <3> QED BY <1>4, <1>8, <3>1
  <2>5. h.wr = Around(h.rd + (n - 1))
    BY <1>4, <1>11, <2>2
  <2> QED BY <1>13, <2>1, <2>3, <2>4, <2>5 DEF Ring
<1>15. Counts(s)'
  <2>1. OneIf(proc[p].pc \in HasTaken) = 1 /\ OneIf(proc'[p].pc \in HasTaken) = 0
        /\ OneIf(proc[p].pc \in HasGiven) = 0 /\ OneIf(proc'[p].pc \in HasGiven) = 1
    <3>1. proc[p].pc = "move" /\ proc'[p].pc = "post"
      BY <1>13 DEF MoveIndex
    <3> QED BY <3>1 DEF OneIf, HasTaken, HasGiven
  <2>2. old.empty \in Nat /\ old.full \in Nat
    BY DEF ShmHead
  <2>3. /\ old.empty - (n - 1) = old.empty - n + 1 - 0
        /\ old.full + (n - 1) = old.full + n + 0 - 1
        /\ n - 1 \in Int
    BY <1>3, <2>2
  <2>4. proc'[p].seg = s
    BY <1>13
  <2>5. /\ segments'[s].empty - Unread(s)' = segments[s].empty - Unread(s)
             + OneIf(proc[p].pc \in HasTaken) - OneIf(proc'[p].pc \in HasTaken)
        /\ segments'[s].full + Unread(s)' = segments[s].full + Unread(s)
             + OneIf(proc[p].pc \in HasGiven) - OneIf(proc'[p].pc \in HasGiven)
    BY <1>2, <1>11, <1>13, <2>1, <2>3
  <2>6. proc[p].seg = s /\ segments[s].ready /\ segments'[s].ready /\ segments'[s] \in ShmHead
        /\ Unread(s)' \in Int
    BY <1>1, <1>2, <1>11, <1>13, <2>3
  <2> QED BY <1>13, <2>4, <2>5, <2>6, CountsInside
<1>16. /\ Len(w) >= Len(written[s]) /\ \A i \in 1 .. Len(written[s]) : w[i] = written[s][i]
       /\ "post" \in Attached \ {"setup"} /\ h.ready
  <2>1. "post" \in Attached \ {"setup"}
    BY DEF Attached, HasGiven
  <2> QED BY <1>1, <1>2, <1>3, <1>11, <2>1
<1> QED BY <1>1, <1>5, <1>12, <1>14, <1>15, <1>16, StepInside

LEMMA TwiceInPlace ==
  ASSUME NEW S, NEW f \in Seq(S), NEW i \in DOMAIN f, NEW a \in S, NEW b \in S
  PROVE  [[f EXCEPT ![i] = a] EXCEPT ![i] = b] = [f EXCEPT ![i] = b]
OBVIOUS

LEMMA WriteKeeps ==
  ASSUME QueueInv, OneReader, NEW p \in Process, Write(p)
  PROVE  QueueInv'
<1>1. PICK s \in DOMAIN segments : s = proc[p].seg /\ segments[s].ready
  BY AttachedPlace DEF Write, Attached, HasGiven, Seg
<1>2. PICK old \in ShmHead, w \in Seq(Nat), g \in Seq(Nat), n \in 0 .. Blocks, rd \in Slot, wr \in Slot :
          /\ old = segments[s] /\ w = written[s] /\ g = got[s] /\ n = Unread(s)
          /\ rd = old.rd /\ wr = old.wr
  <2>1. segments[s] \in ShmHead /\ written[s] \in Seq(Nat) /\ got[s] \in Seq(Nat)
    BY InSegment
  <2>2. segments[s].rd \in Slot /\ segments[s].wr \in Slot
    BY <2>1 DEF ShmHead
  <2>3. Unread(s) \in 0 .. Blocks
    BY DEF QueueInv, Ring
  <2> QED BY <2>1, <2>2, <2>3
<1>3. n < Blocks /\ n \in Nat /\ n = Len(w) - Len(g) /\ Len(w) \in Nat /\ Len(g) \in Nat
  <2>1. proc[p].pc \in HasGiven
    BY DEF Write, HasGiven
  <2>2. Unread(s) < Blocks
    BY <1>1, <2>1, InHand
  <2>3. n \in Nat
    BY RingAssumption
  <2>4. Unread(s) = Len(written[s]) - Len(got[s])
    BY DEF Unread
  <2>5. Len(w) \in Nat /\ Len(g) \in Nat
    OBVIOUS
  <2> QED BY <1>2, <2>2, <2>3, <2>4, <2>5
<1>4. /\ wr = Around(rd + n)
      /\ \A i \in 0 .. n - 1 : old.payload[Around(rd + i)] = w[Len(g) + 1 + i]
      /\ \A i \in 1 .. Len(g) : g[i] = w[i]
  BY <1>2 DEF QueueInv, Ring
<1>5. PICK b \in Nat : b = proc[p].buf
  BY DEF QueueInv, QueueTypes
<1>6. PICK v \in Nat : v = Writes + 1
  <2>1. Writes \in Nat
    BY WritesType DEF QueueInv
  <2> QED BY <2>1
<1>7. PICK x \in Seq(Nat) : x = Append(w, v)
  <2>1. Append(w, v) \in Seq(Nat)
    OBVIOUS
  <2> QED BY <2>1
<1>8. /\ Len(x) = Len(w) + 1 /\ x[Len(w) + 1] = v
      /\ \A i \in 1 .. Len(w) : x[i] = w[i]
  BY <1>7
<1>9. (wr + 1) % Blocks = Around(wr + 1) /\ Around(wr + 1) \in Slot
  BY NextIndex
<1>10. PICK m \in ShmHead : m = [old EXCEPT !.payload[wr] = v]
  BY DEF ShmHead
<1>11. /\ m.rd = old.rd /\ m.ready = old.ready /\ m.wr = old.wr /\ m.full = old.full /\ m.empty = old.empty
       /\ m.payload[wr] = v /\ \A i \in Slot \ {wr} : m.payload[i] = old.payload[i]
  BY <1>10 DEF ShmHead
<1>12. PICK h \in ShmHead : h = [m EXCEPT !.wr = Around(wr + 1)]
  BY <1>9 DEF ShmHead
<1>13. /\ h.rd = rd /\ h.ready = old.ready /\ h.wr = Around(wr + 1) /\ h.full = old.full /\ h.empty = old.empty
       /\ h.payload = m.payload
  BY <1>2, <1>11, <1>12 DEF ShmHead
<1>14. Inside(p, s, h, x, g, "unlock", b)
  <2>1. segments' = [segments EXCEPT ![s] = h]
    <3> DEFINE mid == [segments EXCEPT ![s] = m]
    <3>1. mid[s] = m /\ segments \in Seq(ShmHead)
      BY DEF QueueInv, QueueTypes
    <3>2. segments' = [mid EXCEPT ![s] = [mid[s] EXCEPT !.wr = (mid[s].wr + 1) % Blocks]]
      BY <1>1, <1>2, <1>6, <1>10 DEF Write, Seg
    <3>3. segments' = [mid EXCEPT ![s] = h]
      BY <1>2, <1>9, <1>11, <1>12, <3>1, <3>2
    <3> QED BY <3>1, <3>3, TwiceInPlace
  <2>2. written' = [written EXCEPT ![s] = Append(w, v)]
    BY <1>1, <1>2, <1>6 DEF Write
  <2>3. proc' = [proc EXCEPT ![p] = [proc[p] EXCEPT !.pc = "unlock"]]
    BY DEF Write, Goes
  <2>4. [proc[p] EXCEPT !.pc = "unlock"] = [pc |-> "unlock", seg |-> s, buf |-> b]
    <3>1. proc[p] \in [pc : Outside \cup Attached, seg : Nat, buf : Nat]
      BY DEF QueueInv, QueueTypes
    <3>2. proc[p].seg = s /\ proc[p].buf = b
      BY <1>1, <1>5
    <3> QED BY <3>1, <3>2, PcMoves
  <2>5. got' = [got EXCEPT ![s] = g] /\ key' = key
    BY <1>2, InSegment DEF Write
  <2> QED BY <1>7, <2>1, <2>2, <2>3, <2>4, <2>5 DEF Inside
<1>15. /\ segments'[s] = h /\ written'[s] = x /\ got'[s] = g
       /\ proc'[p] = [pc |-> "unlock", seg |-> s, buf |-> b]
       /\ \A q \in Process \ {p} : proc'[q] = proc[q]
       /\ Unread(s)' = n + 1
  <2>1. "unlock" \in Outside \cup Attached
    BY DEF Attached, HasTaken
  <2>2. Len(x) - Len(g) = n + 1
    BY <1>3, <1>8
  <2>3. Inside(p, s, h, x, g, "unlock", b)
    BY <1>14
  <2>4. /\ segments'[s] = h /\ written'[s] = x /\ got'[s] = g
        /\ proc'[p] = [pc |-> "unlock", seg |-> s, buf |-> b]
        /\ \A q \in Process \ {p} : proc'[q] = proc[q]
        /\ Unread(s)' = Len(x) - Len(g)
    BY <2>1, <2>3, InsideTypes
  <2> QED BY <2>2, <2>4
<1>16. Ring(s)'
  <2>1. n + 1 \in 0 .. Blocks
    BY <1>3, RingAssumption
  <2>2. Around(Around(rd + n) + 1) = Around(rd + (n + 1))
    BY <1>3, RingAssumption DEF Around, Slot
  <2>3. ASSUME NEW i \in 0 .. (n + 1) - 1
        PROVE  h.payload[Around(h.rd + i)] = x[Len(g) + 1 + i]
    <3>1. i \in Nat /\ i <= n
      BY <1>3
    <3>2. CASE i = n
      <4>1. Len(g) + 1 + i = Len(w) + 1
        BY <1>3, <3>2
      <4>2. Around(h.rd + i) = wr
        BY <1>4, <1>13, <3>2
      <4>3. h.payload[wr] = x[Len(w) + 1]
        BY <1>8, <1>11, <1>13
      <4> QED BY <4>1, <4>2, <4>3
    <3>3. CASE i # n
      <4>1. i \in 0 .. n - 1 /\ Len(g) + 1 + i \in 1 .. Len(w)
        BY <1>3, <3>1, <3>3
      <4>2. Around(rd + i) \in Slot /\ Around(rd + i) # Around(rd + n)
        <5>1. PICK first, next : first = rd + i /\ next = rd + n
          OBVIOUS
        <5>2. first \in Nat /\ next \in Nat /\ first < next /\ next < first + Blocks /\ next < 2 * Blocks
          BY <1>3, <3>1, <3>3, <5>1, RingAssumption DEF Slot
        <5>3. Around(first) \in Slot /\ Around(first) # Around(next)
          BY <5>2, RingAssumption DEF Around, Slot
        <5> QED BY <5>1, <5>3
      <4>3. x[Len(g) + 1 + i] = w[Len(g) + 1 + i] /\ old.payload[Around(rd + i)] = w[Len(g) + 1 + i]
        BY <1>4, <1>8, <4>1
      <4>4. PICK a \in Slot : a = Around(rd + i) /\ a # wr
        BY <1>4, <4>2
      <4>5. h.payload[a] = old.payload[a]
        BY <1>11, <1>13, <4>4
      <4> QED BY <1>13, <4>3, <4>4, <4>5
    <3> QED BY <3>2, <3>3
  <2>4. ASSUME NEW i \in 1 .. Len(g) PROVE g[i] = x[i]
    <3>1. Len(g) \in Nat
      BY <1>3
    <3>2. i \in 1 .. Len(w)
      BY <1>3, <3>1
    <3>3. x[i] = w[i] /\ w[i] = g[i]
      BY <1>4, <1>8, <3>2
    <3> QED BY <3>3
  <2>5. h.wr = Around(h.rd + (n + 1))
    BY <1>4, <1>13, <2>2
  <2> QED BY <1>15, <2>1, <2>3, <2>4, <2>5 DEF Ring
<1>17. Counts(s)'
  <2>1. OneIf(proc[p].pc \in HasTaken) = 0 /\ OneIf(proc'[p].pc \in HasTaken) = 1
        /\ OneIf(proc[p].pc \in HasGiven) = 1 /\ OneIf(proc'[p].pc \in HasGiven) = 0
    <3>a. proc[p].pc = "copy"
      BY Zenon DEF Write
    <3>1. proc[p].pc = "copy" /\ proc'[p].pc = "unlock"
      BY <1>15, <3>a
    <3>2. /\ "copy" \notin HasTaken /\ "copy" \in HasGiven
          /\ "unlock" \in HasTaken /\ "unlock" \notin HasGiven
      BY DEF HasTaken, HasGiven
    <3> QED BY <3>1, <3>2 DEF OneIf
  <2>2. old.empty \in Nat /\ old.full \in Nat
    BY DEF ShmHead
  <2>3. /\ old.empty - (n + 1) = old.empty - n + 0 - 1
        /\ old.full + (n + 1) = old.full + n + 1 - 0
        /\ n + 1 \in Int
    BY <1>3, <2>2
  <2>4. proc'[p].seg = s
    BY <1>15
  <2>5. /\ segments'[s].empty - Unread(s)' = segments[s].empty - Unread(s)
             + OneIf(proc[p].pc \in HasTaken) - OneIf(proc'[p].pc \in HasTaken)
        /\ segments'[s].full + Unread(s)' = segments[s].full + Unread(s)
             + OneIf(proc[p].pc \in HasGiven) - OneIf(proc'[p].pc \in HasGiven)
    BY <1>2, <1>13, <1>15, <2>1, <2>3
  <2>6. proc[p].seg = s /\ segments[s].ready /\ segments'[s].ready /\ segments'[s] \in ShmHead
        /\ Unread(s)' \in Int
    BY <1>1, <1>2, <1>13, <1>15, <2>3
  <2> QED BY <1>15, <2>4, <2>5, <2>6, CountsInside
<1>18. /\ Len(x) >= Len(written[s]) /\ \A i \in 1 .. Len(written[s]) : x[i] = written[s][i]
       /\ g = got[s] /\ "unlock" \in Attached \ {"setup"} /\ h.ready
  <2>1. "unlock" \in Attached \ {"setup"}
    BY DEF Attached, HasTaken
  <2>2. Len(w) \in Nat /\ w = written[s]
    BY <1>2
  <2>3. Len(x) >= Len(w)
    BY <1>8, <2>2
  <2>4. \A i \in 1 .. Len(written[s]) : x[i] = written[s][i]
    BY <1>8, <2>2
  <2>5. g = got[s] /\ h.ready
    BY <1>1, <1>2, <1>13
  <2> QED BY <2>1, <2>2, <2>3, <2>4, <2>5
<1> QED BY <1>1, <1>14, <1>16, <1>17, <1>18, StepInside

\* A step that leaves the segments, of a process that holds no block.
LEMMA OutsideStep ==
  ASSUME QueueInv, OneReader, NEW p \in Process, proc[p].pc \in Outside \cup {"open"},
         UNCHANGED <<segments, written, got>>, key' \in 0 .. Len(segments),
         NEW x \in Outside \cup {"open"}, NEW t \in Nat, NEW b \in Nat,
         proc' = [proc EXCEPT ![p] = [pc |-> x, seg |-> t, buf |-> b]],
         x \in Outside => t = NoSegment, x = "open" => t \in DOMAIN segments
  PROVE  QueueInv'
<1>1. /\ proc'[p] = [pc |-> x, seg |-> t, buf |-> b]
      /\ \A q \in Process \ {p} : proc'[q] = proc[q]
      /\ proc' \in [Process -> [pc : Outside \cup Attached, seg : Nat, buf : Nat]]
  BY DEF QueueInv, QueueTypes, Attached
<1>2. QueueTypes'
  BY <1>1 DEF QueueInv, QueueTypes
<1>3. ASSUME NEW q \in Process \ {p} PROVE PlaceOf(q)'
  <2>1. \A s \in DOMAIN segments : /\ written'[s] \in Seq(Nat) /\ Len(written'[s]) >= Len(written[s])
                                   /\ \A i \in 1 .. Len(written[s]) : written'[s][i] = written[s][i]
                                   /\ p \in Reader \/ got'[s] = got[s]
    BY InSegment
  <2> QED BY <1>1, <2>1, OthersKeepPlace
<1>4. PlaceOf(p)'
  BY <1>1 DEF PlaceOf, Outside, Attached, HasTaken, HasGiven
<1>5. SetUpOnce'
  <2>1. proc'[p].pc # "setup"
    BY <1>1 DEF Outside
  <2>2. SetUpOnce
    BY DEF QueueInv
  <2> QED BY <1>1, <2>1, <2>2 DEF SetUpOnce
<1>6. ASSUME NEW s \in DOMAIN segments PROVE Ring(s)' /\ Counts(s)'
  <2>1. In(s, HasTaken)' = In(s, HasTaken) /\ In(s, HasGiven)' = In(s, HasGiven)
    BY <1>1 DEF In, Outside, HasTaken, HasGiven
  <2>2. Ring(s) /\ Counts(s)
    BY DEF QueueInv
  <2> QED BY <2>1, <2>2 DEF Ring, Counts, Unread
<1> QED BY <1>2, <1>3, <1>4, <1>5, <1>6 DEF QueueInv

LEMMA ComesAndGoesKeeps ==
  ASSUME QueueInv, OneReader, NEW p \in Process, Open(p) \/ RemoveOld(p) \/ Close(p) \/ Destroy(p)
  PROVE  QueueInv'
<1>1. /\ proc[p] \in [pc : Outside \cup Attached, seg : Nat, buf : Nat]
      /\ key \in 0 .. Len(segments) /\ Len(segments) \in Nat
      /\ DOMAIN segments = 1 .. Len(segments)
      /\ proc[p].pc \in Outside => proc[p].seg = 0
  BY DEF QueueInv, QueueTypes, PlaceOf, NoSegment
<1>2. /\ UNCHANGED <<segments, written, got>> /\ key' \in 0 .. Len(segments)
      /\ proc[p].pc \in Outside \cup {"open"}
  BY <1>1 DEF Open, RemoveOld, Close, Destroy, NoSegment, Outside
<1>3. ASSUME NEW x, Goes(p, x) PROVE proc' = [proc EXCEPT ![p] = [pc |-> x, seg |-> proc[p].seg, buf |-> proc[p].buf]]
  <2>1. [proc[p] EXCEPT !.pc = x] = [pc |-> x, seg |-> proc[p].seg, buf |-> proc[p].buf]
    BY <1>1, PcMoves
  <2> QED BY <1>3, <2>1 DEF Goes
<1>4. PICK x \in Outside \cup {"open"}, t \in Nat, b \in Nat :
          /\ proc' = [proc EXCEPT ![p] = [pc |-> x, seg |-> t, buf |-> b]]
          /\ x \in Outside => t = NoSegment
          /\ x = "open" => t \in DOMAIN segments
  <2>1. CASE Open(p) /\ key = NoSegment
    <3>1. Goes(p, "init") /\ proc[p].seg = 0 /\ proc[p].seg \in Nat /\ proc[p].buf \in Nat
      BY <1>1, <2>1 DEF Open, Outside
    <3> QED BY <1>3, <3>1 DEF Outside, NoSegment
  <2>2. CASE Open(p) /\ key # NoSegment
    <3>1. proc' = [proc EXCEPT ![p] = [pc |-> "open", seg |-> key, buf |-> 0]]
      BY <2>2 DEF Open
    <3>2. key \in Nat /\ key \in DOMAIN segments
      BY <1>1, <2>2 DEF NoSegment
    <3>3. "open" \in Outside \cup {"open"} /\ "open" \notin Outside /\ 0 \in Nat
      BY DEF Outside
    <3> QED BY <3>1, <3>2, <3>3
  <2>3. CASE RemoveOld(p)
    <3>1. Goes(p, "create") /\ proc[p].seg = 0 /\ proc[p].seg \in Nat /\ proc[p].buf \in Nat
      BY <1>1, <2>3 DEF RemoveOld, Outside
    <3> QED BY <1>3, <3>1 DEF Outside, NoSegment
  <2>4. CASE Close(p) \/ Destroy(p)
    <3>1. proc' = [proc EXCEPT ![p] = [pc |-> "closed", seg |-> 0, buf |-> 0]]
      BY <2>4 DEF Close, Destroy, NoSegment
    <3>2. "closed" \in Outside \cup {"open"} /\ 0 \in Nat /\ NoSegment = 0
      BY DEF Outside, NoSegment
    <3> QED BY <3>1, <3>2
  <2> QED BY <2>1, <2>2, <2>3, <2>4
<1> QED BY <1>2, <1>4, OutsideStep

LEMMA SetsUpKeeps ==
  ASSUME QueueInv, OneReader, NEW p \in Process, SetsUp(p)
  PROVE  QueueInv'
<1>1. PICK s \in DOMAIN segments : s = proc[p].seg
  BY DEF QueueInv, PlaceOf, SetsUp, Attached
<1>2. /\ ~segments[s].ready /\ Unread(s) = 0 /\ segments[s] = Raw
  BY <1>1 DEF QueueInv, PlaceOf, SetsUp, Counts
<1>3. PICK w \in Seq(Nat), g \in Seq(Nat), b \in Nat : w = written[s] /\ g = got[s] /\ b = proc[p].buf
  <2>1. written[s] \in Seq(Nat) /\ got[s] \in Seq(Nat)
    BY InSegment
  <2> QED BY <2>1 DEF QueueInv, QueueTypes
<1>4. PICK h \in ShmHead : h = SetUp
  <2>1. 0 \in Slot
    BY RingAssumption DEF Slot
  <2> QED BY <2>1, RingAssumption DEF SetUp, Raw, ShmHead, Slot
<1>5. /\ h.ready /\ h.rd = 0 /\ h.wr = 0 /\ h.full = Blocks /\ h.empty = 0
  BY <1>4 DEF SetUp, Raw
<1>6. Inside(p, s, h, w, g, "open", b)
  <2>1. [proc[p] EXCEPT !.pc = "open"] = [pc |-> "open", seg |-> s, buf |-> b]
    <3>1. proc[p] \in [pc : Outside \cup Attached, seg : Nat, buf : Nat]
      BY DEF QueueInv, QueueTypes
    <3> QED BY <1>1, <1>3, <3>1, PcMoves
  <2>2. written' = [written EXCEPT ![s] = w] /\ got' = [got EXCEPT ![s] = g]
    BY <1>3, InSegment DEF SetsUp
  <2> QED BY <1>1, <1>4, <2>1, <2>2 DEF Inside, SetsUp, Goes
<1>7. /\ QueueTypes' /\ DOMAIN segments' = DOMAIN segments
      /\ segments'[s] = h /\ written'[s] = w /\ got'[s] = g
      /\ \A t \in DOMAIN segments \ {s} : /\ segments'[t] = segments[t]
                                         /\ written'[t] = written[t] /\ got'[t] = got[t]
      /\ proc'[p] = [pc |-> "open", seg |-> s, buf |-> b]
      /\ \A q \in Process \ {p} : proc'[q] = proc[q]
  <2>1. "open" \in Outside \cup Attached
    BY DEF Attached
  <2> QED BY <1>6, <2>1, InsideTypes
<1>8. ASSUME NEW q \in Process \ {p} PROVE PlaceOf(q)'
  <2>1. \A t \in DOMAIN segments : /\ written'[t] \in Seq(Nat) /\ Len(written'[t]) >= Len(written[t])
                                   /\ \A i \in 1 .. Len(written[t]) : written'[t][i] = written[t][i]
                                   /\ p \in Reader \/ got'[t] = got[t]
    BY InSegment DEF SetsUp
  <2>2. proc[q].pc \in Attached \ {"open"} => segments'[proc[q].seg].ready = segments[proc[q].seg].ready
    <3>1. proc[q].pc \in Attached \ {"open"} => proc[q].seg # s /\ proc[q].seg \in DOMAIN segments
      BY <1>1, <1>2 DEF QueueInv, PlaceOf, SetUpOnce, SetsUp, Attached
    <3>2. \A t \in DOMAIN segments \ {s} : segments'[t] = segments[t]
      BY <1>7
    <3> QED BY <3>1, <3>2
  <2>3. DOMAIN segments \subseteq DOMAIN segments' /\ proc'[q] = proc[q]
    BY <1>7
  <2> QED BY <2>1, <2>2, <2>3, OthersKeepPlace
<1>9. PlaceOf(p)'
  BY <1>7 DEF PlaceOf, Outside, Attached, HasTaken, HasGiven
<1>10. SetUpOnce'
  <2>1. proc'[p].pc # "setup"
    BY <1>7
  <2>2. SetUpOnce
    BY DEF QueueInv
  <2>3. \A q \in Process \ {p} : proc'[q] = proc[q]
    BY <1>7
  <2> QED BY <2>1, <2>2, <2>3, OnceKept
<1>11. ASSUME NEW t \in DOMAIN segments, t # s PROVE Ring(t)' /\ Counts(t)'
  <2>1. proc[p].seg # t /\ proc'[p].seg # t
    BY <1>1, <1>7, <1>11
  <2> QED BY <1>7, <1>11, <2>1, OthersStay
<1>12. Unread(s)' = 0
  BY <1>2, <1>3, <1>7 DEF Unread
<1>13. Ring(s)'
  <2>1. Ring(s) /\ 0 \in 0 .. Blocks /\ Around(0 + 0) = 0
    BY RingAssumption DEF QueueInv, Around
  <2> QED BY <1>3, <1>5, <1>7, <1>12, <2>1 DEF Ring
<1>14. Counts(s)'
  <2>1. In(s, HasTaken)' = {} /\ In(s, HasGiven)' = {}
    <3>1. ASSUME NEW q \in Process, proc'[q].seg = s
          PROVE  proc'[q].pc \notin HasTaken \cup HasGiven
      <4>1. CASE q = p
        BY <1>7, <4>1 DEF HasTaken, HasGiven
      <4>2. CASE q # p
        <5>1. proc[q].seg = s /\ proc'[q] = proc[q] /\ ~ segments[s].ready
          BY <1>2, <1>7, <3>1, <4>2
        <5> QED BY <5>1 DEF QueueInv, PlaceOf
      <4> QED BY <4>1, <4>2
    <3> QED BY <3>1 DEF In
  <2>2. /\ h.empty + Cardinality({}) = 0 /\ h.full + Cardinality({}) = Blocks - 0
    BY <1>5, RingAssumption, FS_EmptySet
  <2> QED BY <1>5, <1>7, <1>12, <2>1, <2>2 DEF Counts
<1> QED BY <1>7, <1>8, <1>9, <1>10, <1>11, <1>13, <1>14 DEF QueueInv

LEMMA CreateKeeps ==
  ASSUME QueueInv, OneReader, NEW p \in Process, CreateSegment(p)
  PROVE  QueueInv'
<1>1. /\ segments \in Seq(ShmHead) /\ written \in Seq(Seq(Nat)) /\ got \in Seq(Seq(Nat))
      /\ Len(segments) \in Nat /\ Len(written) = Len(segments) /\ Len(got) = Len(segments)
      /\ DOMAIN segments = 1 .. Len(segments) /\ key \in 0 .. Len(segments)
      /\ proc \in [Process -> [pc : Outside \cup Attached, seg : Nat, buf : Nat]]
      /\ proc[p].pc = "create" /\ proc[p].seg = 0
  BY DEF QueueInv, QueueTypes, PlaceOf, NoSegment, Outside, CreateSegment
<1>2. PICK b \in Nat : b = proc[p].buf
  BY <1>1
<1>3. \A x : [proc[p] EXCEPT !.pc = x] = [pc |-> x, seg |-> 0, buf |-> b]
  BY <1>1, <1>2, PcMoves
<1>4. CASE key # NoSegment
  <2>1. proc' = [proc EXCEPT ![p] = [pc |-> "dead", seg |-> 0, buf |-> b]]
        /\ UNCHANGED <<segments, key, written, got>>
    BY <1>3, <1>4 DEF CreateSegment, Goes
  <2>2. /\ "dead" \in Outside \cup {"open"} /\ 0 \in Nat /\ NoSegment = 0
        /\ proc[p].pc \in Outside \cup {"open"}
    BY <1>1 DEF Outside, NoSegment
  <2> QED BY <1>1, <2>1, <2>2, OutsideStep
<1>5. CASE key = NoSegment
  <2>1. PICK s \in Nat : s = Len(segments) + 1
    BY <1>1
  <2>2. /\ segments' = Append(segments, Raw) /\ written' = Append(written, <<>>)
        /\ got' = Append(got, <<>>) /\ key' = s
    BY <1>5, <2>1 DEF CreateSegment
  <2>3. proc' = [proc EXCEPT ![p] = [pc |-> "setup", seg |-> s, buf |-> b]]
    <3> DEFINE r == [proc[p] EXCEPT !.pc = "setup"]
    <3>1. r = [pc |-> "setup", seg |-> 0, buf |-> b]
      BY <1>3
    <3>2. proc' = [proc EXCEPT ![p] = [r EXCEPT !.seg = s]]
      BY <1>5, <2>2 DEF CreateSegment
    <3> HIDE DEF r
    <3>3. [r EXCEPT !.seg = s] = [pc |-> "setup", seg |-> s, buf |-> b]
      BY <3>1
    <3> QED BY <3>2, <3>3
  <2>4. Raw \in ShmHead
    <3>1. 0 \in Slot
      BY RingAssumption DEF Slot
    <3> QED BY <3>1, RingAssumption DEF Raw, ShmHead, Slot
  <2>5. /\ segments' \in Seq(ShmHead) /\ Len(segments') = s /\ segments'[s] = Raw
        /\ \A t \in DOMAIN segments : segments'[t] = segments[t]
        /\ DOMAIN segments' = DOMAIN segments \cup {s} /\ s \notin DOMAIN segments
    BY <1>1, <2>1, <2>2, <2>4
  <2>6. /\ written' \in Seq(Seq(Nat)) /\ Len(written') = s /\ written'[s] = <<>>
        /\ \A t \in DOMAIN segments : written'[t] = written[t]
    <3>1. <<>> \in Seq(Nat)
      OBVIOUS
    <3>2. PICK w : w = written
      OBVIOUS
    <3>3. w \in Seq(Seq(Nat)) /\ Len(w) = Len(segments) /\ DOMAIN segments = 1..Len(w)
      BY <1>1, <2>1, <3>2
    <3>4. written' = Append(w, <<>>)
      BY <2>2, <3>2
    <3> QED BY <2>1, <3>1, <3>2, <3>3, <3>4
  <2>7. /\ got' \in Seq(Seq(Nat)) /\ Len(got') = s /\ got'[s] = <<>>
        /\ \A t \in DOMAIN segments : got'[t] = got[t]
    <3>1. <<>> \in Seq(Nat)
      OBVIOUS
    <3> QED BY <1>1, <2>1, <2>2, <3>1
  <2>8. /\ proc' \in [Process -> [pc : Outside \cup Attached, seg : Nat, buf : Nat]]
        /\ proc'[p] = [pc |-> "setup", seg |-> s, buf |-> b]
        /\ \A q \in Process \ {p} : proc'[q] = proc[q]
    BY <1>1, <2>3 DEF Attached
  <2>9. QueueTypes'
    BY <2>1, <2>2, <2>5, <2>6, <2>7, <2>8 DEF QueueTypes
  <2>10. ASSUME NEW q \in Process \ {p} PROVE PlaceOf(q)'
    <3>1. \A t \in DOMAIN segments :
              /\ written'[t] \in Seq(Nat) /\ Len(written'[t]) >= Len(written[t])
              /\ \A i \in 1 .. Len(written[t]) : written'[t][i] = written[t][i]
              /\ p \in Reader \/ got'[t] = got[t]
      BY <2>6, <2>7, InSegment
    <3>2. proc[q].pc \in Attached => proc[q].seg \in DOMAIN segments
      BY DEF QueueInv, PlaceOf
    <3>3. /\ DOMAIN segments \subseteq DOMAIN segments' /\ proc'[q] = proc[q]
          /\ proc[q].pc \in Attached => segments'[proc[q].seg] = segments[proc[q].seg]
      BY <2>5, <2>8, <3>2
    <3> QED BY <3>1, <3>3, OthersKeepPlace
  <2>11. PlaceOf(p)'
    <3>1. ~Raw.ready
      BY DEF Raw
    <3>2. segments'[proc'[p].seg] = Raw /\ proc'[p].pc = "setup" /\ proc'[p].seg \in DOMAIN segments'
      BY <2>5, <2>8
    <3> QED BY <3>1, <3>2 DEF PlaceOf, Outside, HasTaken, HasGiven
  <2>12. SetUpOnce'
    <3>1. \A q \in Process \ {p} : proc[q].pc = "setup" => proc[q].seg # s
      BY <2>5 DEF QueueInv, PlaceOf, Attached
    <3>2. SetUpOnce
      BY DEF QueueInv
    <3> QED BY <2>8, <3>1, <3>2 DEF SetUpOnce
  <2>13. ASSUME NEW t \in DOMAIN segments PROVE Ring(t)' /\ Counts(t)'
    <3>1. proc[p].seg # t /\ proc'[p].seg # t
      <4>1. t # 0
        <5>1. t \in 1 .. Len(segments)
          BY <1>1
        <5> QED BY <1>1, <5>1
      <4>2. t # s
        BY <2>5
      <4> QED BY <1>1, <2>8, <4>1, <4>2
    <3> QED BY <2>5, <2>6, <2>7, <2>8, <3>1, OthersStay
  <2>14. Unread(s)' = 0
    BY <2>6, <2>7 DEF Unread
  <2>15. Ring(s)'
    <3>1. Raw.rd = 0 /\ Raw.wr = 0 /\ Around(0 + 0) = 0 /\ 0 \in 0 .. Blocks
      BY RingAssumption DEF Raw, Around
    <3>2. Len(got'[s]) = 0
      BY <2>7
    <3> QED BY <2>5, <2>14, <3>1, <3>2 DEF Ring
  <2>16. Counts(s)'
    <3>1. ~Raw.ready
      BY DEF Raw
    <3> QED BY <2>5, <2>14, <3>1 DEF Counts, Raw
  <2> QED BY <2>5, <2>9, <2>10, <2>11, <2>12, <2>13, <2>15, <2>16 DEF QueueInv
<1> QED BY <1>4, <1>5

\* The ring of blocks is a queue (open, write and read shamqueue.cc:145-222):
\* with at most one reader, which takes no lock, what is read of a segment is
\* what was written, in order, no block is written over before it is read, and
\* the semaphores count the blocks, for any number of writers, blocks, segments
\* and writes, and whoever comes, waits and goes.
THEOREM RingIsQueue ==
  ASSUME OneReader
  PROVE  SpecQueue => []SharedRingIsQueue
<1>1. InitQueue => QueueInv
  <2> SUFFICES ASSUME InitQueue PROVE QueueInv
    OBVIOUS
  <2>1. /\ segments = <<>> /\ written = <<>> /\ got = <<>> /\ key = 0
        /\ proc = [p \in Process |-> [pc |-> "closed", seg |-> 0, buf |-> 0]]
    BY DEF InitQueue, NoSegment
  <2>2. QueueTypes
    BY <2>1 DEF QueueTypes, Outside
  <2>3. (\A p \in Process : PlaceOf(p)) /\ SetUpOnce
    BY <2>1 DEF PlaceOf, SetUpOnce, Outside, Attached, HasTaken, HasGiven, NoSegment
  <2> QED BY <2>1, <2>2, <2>3 DEF QueueInv
<1>2. QueueInv /\ [NextQueue]_queueVars => QueueInv'
  <2> SUFFICES ASSUME QueueInv, [NextQueue]_queueVars PROVE QueueInv'
    OBVIOUS
  <2>1. CASE DestroyKey \/ UNCHANGED queueVars
    <3>4. UNCHANGED <<segments, proc, written, got>> /\ key' \in 0 .. Len(segments)
      BY <2>1 DEF DestroyKey, NoSegment, queueVars, QueueInv, QueueTypes
    <3> USE <3>4
    <3>1. QueueTypes' /\ SetUpOnce' /\ DOMAIN segments' = DOMAIN segments
      BY DEF QueueInv, QueueTypes, SetUpOnce
    <3>2. ASSUME NEW p \in Process PROVE PlaceOf(p)'
      BY DEF QueueInv, PlaceOf, Unread
    <3>3. ASSUME NEW s \in DOMAIN segments PROVE Ring(s)' /\ Counts(s)'
      <4>1. In(s, HasTaken)' = In(s, HasTaken) /\ In(s, HasGiven)' = In(s, HasGiven)
        BY DEF In
      <4> QED BY <4>1 DEF QueueInv, Ring, Counts, Unread
    <3> QED BY <3>1, <3>2, <3>3 DEF QueueInv
  <2>2. CASE NextQueue /\ ~ DestroyKey
    <3>1. PICK p \in Process :
             \/ Open(p) \/ RemoveOld(p) \/ CreateSegment(p) \/ SetsUp(p) \/ Close(p) \/ Destroy(p)
             \/ WaitFull(p) \/ WaitMutex(p) \/ Write(p) \/ PostMutex(p) \/ PostEmpty(p)
             \/ WaitEmpty(p) \/ Read(p) \/ MoveIndex(p) \/ PostFull(p)
      BY <2>2 DEF NextQueue
    <3>2. CASE Open(p) \/ RemoveOld(p) \/ Close(p) \/ Destroy(p)
      BY <3>2, ComesAndGoesKeeps
    <3>3. CASE CreateSegment(p)
      BY <3>3, CreateKeeps
    <3>4. CASE SetsUp(p)
      BY <3>4, SetsUpKeeps
    <3>5. CASE WaitFull(p) \/ WaitMutex(p) \/ WaitEmpty(p)
      BY <3>5, WaitsKeep
    <3>6. CASE PostMutex(p) \/ PostEmpty(p) \/ PostFull(p)
      BY <3>6, PostsKeep
    <3>7. CASE Write(p)
      BY <3>7, WriteKeeps
    <3>8. CASE Read(p)
      BY <3>8, ReadKeeps
    <3>9. CASE MoveIndex(p)
      BY <3>9, MoveIndexKeeps
    <3> QED BY <3>1, <3>2, <3>3, <3>4, <3>5, <3>6, <3>7, <3>8, <3>9
  <2> QED BY <2>1, <2>2 DEF NextQueue
<1> QED BY <1>1, <1>2, QueueInvSuffices, PTL DEF SpecQueue

-----------------------------------------------------------------------------
(***************************************************************************)
(* The thread pool.                                                        *)
(***************************************************************************)

PoolInv ==
    /\ worker \in [Worker -> Places]
    /\ tasks \in Seq(Work) /\ ran \in Seq(Work)
    /\ IsFiniteSet(Begun)
    /\ \A i, j \in DOMAIN tasks : tasks[i] = tasks[j] => i = j
    /\ EnoughAreWoken
    /\ TasksBeginOnce

LEMMA WorkersAtType ==
  ASSUME NEW place
  PROVE  /\ IsFiniteSet(WorkersAt(place)) /\ Cardinality(WorkersAt(place)) \in Nat
         /\ IsFiniteSet(WorkersAt(place)') /\ Cardinality(WorkersAt(place)') \in Nat
  BY WorkerAssumption, FS_Subset, FS_CardinalityType DEF WorkersAt

\* A worker that goes to a place leaves all others.
LEMMA WorkerMoves ==
  ASSUME worker \in [Worker -> Places], NEW w \in Worker, NEW place \in Places,
         worker' = [worker EXCEPT ![w] = place]
  PROVE  /\ worker' \in [Worker -> Places]
         /\ WorkersAt(place)' = WorkersAt(place) \cup {w}
         /\ \A q \in Places \ {place} : WorkersAt(q)' = WorkersAt(q) \ {w}
  BY DEF WorkersAt

LEMMA AddTaskInv ==
  ASSUME PoolInv, NEW t \in Work, AddTask(t)
  PROVE  PoolInv'
<1> USE DEF PoolInv
<1>1. CASE Capacity > 0 /\ Len(tasks) = Capacity
  <2>1. UNCHANGED <<worker, tasks, ran>>
    BY <1>1 DEF AddTask
  <2> QED BY <2>1 DEF EnoughAreWoken, TasksBeginOnce, WorkersAt, Begun, Queued
<1>2. CASE ~ (Capacity > 0 /\ Len(tasks) = Capacity)
  <2>1. tasks' = Append(tasks, t) /\ worker' \in Notified /\ ran' = ran
        /\ t \notin Begun /\ t \notin Queued
    BY <1>2 DEF AddTask
  <2>2. /\ tasks' \in Seq(Work) /\ Len(tasks') = Len(tasks) + 1
        /\ tasks'[Len(tasks) + 1] = t
        /\ \A i \in DOMAIN tasks : tasks'[i] = tasks[i]
        /\ DOMAIN tasks' = DOMAIN tasks \cup {Len(tasks) + 1}
    BY <2>1
  <2>3. \A i, j \in DOMAIN tasks' : tasks'[i] = tasks'[j] => i = j
    BY <2>1, <2>2 DEF Queued
  <2>4. TasksBeginOnce'
    <3>1. Queued' = Queued \cup {t}
      BY <2>2 DEF Queued
    <3> QED BY <2>1, <3>1 DEF TasksBeginOnce, Begun
  <2>5. worker' \in [Worker -> Places] /\ EnoughAreWoken'
    <3>1. CASE WorkersAt("waiting") = {}
      BY <2>1, <3>1 DEF Notified, EnoughAreWoken, WorkersAt
    <3>2. CASE WorkersAt("waiting") # {}
      <4>1. PICK w \in WorkersAt("waiting") : worker' = [worker EXCEPT ![w] = "woken"]
        BY <2>1, <3>2 DEF Notified
      <4>2. w \in Worker /\ w \notin WorkersAt("woken")
        BY DEF WorkersAt
      <4>3. /\ worker' \in [Worker -> Places]
            /\ WorkersAt("woken")' = WorkersAt("woken") \cup {w}
        BY <4>1, <4>2, WorkerMoves DEF Places
      <4>4. Cardinality(WorkersAt("woken")') = Cardinality(WorkersAt("woken")) + 1
        BY <4>2, <4>3, WorkersAtType, FS_AddElement
      <4>5. Len(tasks) <= Cardinality(WorkersAt("woken")) /\ Len(tasks) \in Nat
        BY <3>2 DEF EnoughAreWoken
      <4> QED BY <2>2, <4>3, <4>4, <4>5, WorkersAtType DEF EnoughAreWoken
    <3> QED BY <3>1, <3>2
  <2> QED BY <2>1, <2>2, <2>3, <2>4, <2>5 DEF Begun
<1> QED BY <1>1, <1>2

LEMMA PopWaitInv ==
  ASSUME PoolInv, NEW w \in Worker, PopWait(w)
  PROVE  PoolInv'
<1> USE DEF PoolInv
<1>1. CASE tasks = <<>>
  <2>1. worker' = [worker EXCEPT ![w] = "waiting"] /\ tasks' = tasks /\ ran' = ran
    BY <1>1 DEF PopWait
  <2>2. worker' \in [Worker -> Places]
    BY <2>1, WorkerMoves DEF Places
  <2>3. EnoughAreWoken'
    BY <1>1, <2>1, WorkersAtType DEF EnoughAreWoken
  <2> QED BY <2>1, <2>2, <2>3 DEF TasksBeginOnce, Begun, Queued
<1>2. CASE tasks # <<>>
  <2> DEFINE t == Head(tasks)
  <2>1. /\ worker' = [worker EXCEPT ![w] = "running"]
        /\ tasks' = Tail(tasks) /\ ran' = Append(ran, t)
        /\ worker[w] \in {"lock", "woken"}
    BY <1>2 DEF PopWait
  <2>2. /\ tasks' \in Seq(Work) /\ Len(tasks') = Len(tasks) - 1 /\ Len(tasks) \in Nat
        /\ \A i \in DOMAIN tasks' : i + 1 \in DOMAIN tasks /\ tasks'[i] = tasks[i + 1]
        /\ t = tasks[1] /\ 1 \in DOMAIN tasks /\ t \in Work
        /\ \A i \in DOMAIN tasks' : i \in Nat \ {0}
    BY <1>2, <2>1
  <2>3. /\ ran' \in Seq(Work) /\ Len(ran') = Len(ran) + 1 /\ Len(ran) \in Nat
        /\ Begun' = Begun \cup {t}
    <3>1. /\ ran' \in Seq(Work) /\ Len(ran') = Len(ran) + 1 /\ Len(ran) \in Nat
          /\ \A i \in DOMAIN ran : ran'[i] = ran[i]
          /\ ran'[Len(ran) + 1] = t /\ DOMAIN ran' = DOMAIN ran \cup {Len(ran) + 1}
      BY <2>1, <2>2
    <3> HIDE DEF t
    <3> QED BY <3>1 DEF Begun
  <2> HIDE DEF t
  <2>4. t \in Queued /\ t \notin Begun
    <3>1. t \in Queued
      <4>1. tasks[1] = t /\ 1 \in DOMAIN tasks
        BY <2>2
      <4> QED BY <4>1 DEF Queued
    <3>2. Begun \cap Queued = {}
      BY DEF TasksBeginOnce
    <3> QED BY <3>1, <3>2
  <2>5. Queued' \subseteq Queued \ {t}
    <3>1. ASSUME NEW i \in DOMAIN tasks' PROVE tasks'[i] \in Queued \ {t}
      <4>1. i + 1 # 1 /\ i + 1 \in DOMAIN tasks /\ tasks'[i] = tasks[i + 1]
        BY <2>2
      <4> QED BY <2>2, <4>1 DEF Queued
    <3> QED BY <3>1 DEF Queued
  <2>6. IsFiniteSet(Begun') /\ Cardinality(Begun') = Cardinality(Begun) + 1
    BY <2>3, <2>4, FS_AddElement
  <2>7. TasksBeginOnce'
    BY <2>3, <2>5, <2>6 DEF TasksBeginOnce
  <2>8. \A i, j \in DOMAIN tasks' : tasks'[i] = tasks'[j] => i = j
    <3> SUFFICES ASSUME NEW i \in DOMAIN tasks', NEW j \in DOMAIN tasks', tasks'[i] = tasks'[j]
                 PROVE  i = j
      OBVIOUS
    <3>1. i + 1 = j + 1
      BY <2>2
    <3> QED BY <2>2, <3>1
  <2>9. worker' \in [Worker -> Places] /\ EnoughAreWoken'
    <3>1. /\ worker' \in [Worker -> Places]
          /\ WorkersAt("waiting")' = WorkersAt("waiting") \ {w}
          /\ WorkersAt("woken")' = WorkersAt("woken") \ {w}
      BY <2>1, WorkerMoves DEF Places
    <3>2. Cardinality(WorkersAt("woken")') >= Cardinality(WorkersAt("woken")) - 1
      <4> DEFINE W == WorkersAt("woken")
      <4>1. IsFiniteSet(W) /\ Cardinality(W) \in Nat
        BY WorkersAtType
      <4>2. Cardinality(W \ {w}) >= Cardinality(W) - 1
        <5> HIDE DEF W
        <5>1. Cardinality(W \ {w}) = IF w \in W THEN Cardinality(W) - 1 ELSE Cardinality(W)
          BY <4>1, FS_RemoveElement
        <5> QED BY <4>1, <5>1
      <4> QED BY <3>1, <4>2
    <3>3. EnoughAreWoken'
      BY <2>2, <3>1, <3>2, WorkersAtType DEF EnoughAreWoken
    <3> QED BY <3>1, <3>3
  <2> QED BY <2>2, <2>3, <2>6, <2>7, <2>8, <2>9
<1> QED BY <1>1, <1>2

LEMMA NextPoolInv == PoolInv /\ [NextPool]_poolVars => PoolInv'
<1> SUFFICES ASSUME PoolInv, [NextPool]_poolVars PROVE PoolInv'
  OBVIOUS
<1> USE DEF PoolInv
<1>1. ASSUME NEW w \in Worker, CheckStop(w) \/ EndTask(w) PROVE PoolInv'
  <2>1. /\ tasks' = tasks /\ ran' = ran
        /\ worker[w] \in {"check", "running"}
        /\ \E place \in {"ended", "lock", "check"} : worker' = [worker EXCEPT ![w] = place]
    BY <1>1 DEF CheckStop, EndTask
  <2>2. /\ worker' \in [Worker -> Places]
        /\ WorkersAt("waiting")' = WorkersAt("waiting") \ {w}
        /\ WorkersAt("woken")' = WorkersAt("woken") \ {w}
    BY <2>1, WorkerMoves DEF Places
  <2>3. w \notin WorkersAt("woken") /\ w \notin WorkersAt("waiting")
    BY <2>1 DEF WorkersAt
  <2>4. WorkersAt("waiting")' = WorkersAt("waiting") /\ WorkersAt("woken")' = WorkersAt("woken")
    BY <2>2, <2>3
  <2> QED BY <2>1, <2>2, <2>4 DEF EnoughAreWoken, TasksBeginOnce, Begun, Queued
<1>2. ASSUME NEW w \in Worker, SpuriousWakeup(w) PROVE PoolInv'
  <2>1. /\ tasks' = tasks /\ ran' = ran /\ w \in WorkersAt("waiting")
        /\ worker' = [worker EXCEPT ![w] = "woken"]
    BY <1>2 DEF SpuriousWakeup, WorkersAt
  <2>2. /\ worker' \in [Worker -> Places]
        /\ WorkersAt("woken")' = WorkersAt("woken") \cup {w}
    BY <2>1, WorkerMoves DEF Places
  <2>3. w \notin WorkersAt("woken")
    BY <2>1 DEF WorkersAt
  <2>4. Cardinality(WorkersAt("woken")') = Cardinality(WorkersAt("woken")) + 1
    BY <2>2, <2>3, WorkersAtType, FS_AddElement
  <2>5. Len(tasks) <= Cardinality(WorkersAt("woken")) /\ Len(tasks) \in Nat
    BY <2>1 DEF EnoughAreWoken
  <2>6. EnoughAreWoken'
    BY <2>1, <2>4, <2>5, WorkersAtType DEF EnoughAreWoken
  <2> QED BY <2>1, <2>2, <2>6 DEF TasksBeginOnce, Begun, Queued
<1>3. CASE Join \/ Joined \/ UNCHANGED poolVars
  <2>1. UNCHANGED <<worker, tasks, ran>>
    BY <1>3 DEF Join, Joined, poolVars
  <2> QED BY <2>1 DEF EnoughAreWoken, TasksBeginOnce, WorkersAt, Begun, Queued
<1> QED BY <1>1, <1>2, <1>3, AddTaskInv, PopWaitInv DEF NextPool, WorkerStep

\* While a worker sleeps another has been woken for each task in the queue, and
\* tasks begin once (safequeue.h:48-101), for any workers, tasks and capacity.
THEOREM PoolLosesNoTask == SpecPool => []SleepersAreNotNeeded
<1>1. InitPool => PoolInv
  <2> SUFFICES ASSUME InitPool PROVE PoolInv
    OBVIOUS
  <2>1. Begun = {} /\ Queued = {}
    BY DEF InitPool, Begun, Queued
  <2>2. WorkersAt("waiting") = {}
    BY DEF InitPool, WorkersAt
  <2> QED BY <2>1, <2>2, FS_EmptySet DEF InitPool, PoolInv, Places, EnoughAreWoken, TasksBeginOnce
<1>2. PoolInv => SleepersAreNotNeeded
  BY DEF PoolInv, SleepersAreNotNeeded
<1> QED BY <1>1, <1>2, NextPoolInv, PTL DEF SpecPool
-----------------------------------------------------------------------------
(***************************************************************************)
(* Snowflake.                                                              *)
(***************************************************************************)

\* All that was issued is at most the identifier of the last time and sequence,
\* or of the last sequence of that time if the next has to wait.
IdInv ==
    /\ clock \in Nat /\ lastTimestamp \in Nat
    /\ sequence \in 0 .. PerMilli - 1
    /\ blocked \in BOOLEAN
    /\ issued \subseteq Nat
    /\ blocked => sequence = 0 /\ \A j \in issued : j < Id(lastTimestamp + 1, 0)
    /\ ~ blocked => \A j \in issued : j <= Id(lastTimestamp, sequence)

\* Identifiers are ordered as times, and within a time as sequences.
LEMMA IdOrder ==
  ASSUME NEW t \in Nat, NEW s \in 0 .. PerMilli - 1
  PROVE  /\ Id(t, s) \in Nat
         /\ Id(t, s) < Id(t + 1, 0)
         /\ \A u \in Nat : u > t => Id(t + 1, 0) <= Id(u, 0)
<1>1. PerMilli \in Nat
  BY PerMilliAssumption
<1>2. t * PerMilli \in Nat /\ (t + 1) * PerMilli = t * PerMilli + PerMilli
  BY <1>1
<1>3. ASSUME NEW u \in Nat, u > t PROVE (t + 1) * PerMilli <= u * PerMilli
  <2>1. PICK d \in Nat : u = t + 1 + d
    <3>1. u - (t + 1) \in Nat /\ u = t + 1 + (u - (t + 1))
      BY <1>3
    <3> QED BY <3>1
  <2>2. u * PerMilli = (t + 1) * PerMilli + d * PerMilli
    BY <1>1, <2>1
  <2>3. d * PerMilli \in Nat /\ (t + 1) * PerMilli \in Nat
    BY <1>1
  <2> QED BY <2>2, <2>3
<1> QED BY <1>1, <1>2, <1>3 DEF Id

\* A new identifier is above all before it, and those go on being below.
LEMMA NextIdStep ==
  ASSUME IdInv, NextId \/ TilNextMillis
  PROVE  IdInv' /\ IdIsNewest
<1> USE DEF IdInv
<1>1. PerMilli \in Nat \ {0}
  BY PerMilliAssumption
<1>2. ASSUME NEW s \in 0 .. PerMilli - 1, Issue(clock, s), blocked' = FALSE, clock' = clock,
             \A j \in issued : j < Id(clock, s)
      PROVE  IdInv' /\ IdIsNewest
  <2>1. Id(clock, s) \in Nat
    BY IdOrder
  <2>2. issued' = issued \cup {Id(clock, s)} /\ Id(clock, s) \notin issued
    BY <1>2, <2>1 DEF Issue
  <2>3. lastTimestamp' = clock /\ sequence' = s
    BY <1>2 DEF Issue
  <2>4. \A j \in issued' : j <= Id(clock, s)
    BY <1>2, <2>1, <2>2
  <2>5. Id(lastTimestamp, sequence)' = Id(clock, s)
    BY <2>3 DEF Id
  <2>6. IdInv'
    BY <1>2, <2>1, <2>2, <2>3, <2>4, <2>5
  <2>7. IdIsNewest
    BY <1>2, <2>2 DEF IdIsNewest
  <2> QED BY <2>6, <2>7
<1>3. ASSUME clock > lastTimestamp PROVE \A j \in issued : j < Id(clock, 0)
  <2>1. /\ Id(lastTimestamp, sequence) < Id(lastTimestamp + 1, 0)
        /\ Id(lastTimestamp + 1, 0) <= Id(clock, 0)
        /\ Id(lastTimestamp, sequence) \in Nat
    BY <1>3, IdOrder
  <2>2. Id(lastTimestamp + 1, 0) \in Nat /\ Id(clock, 0) \in Nat
    BY <1>1 DEF Id
  <2>3. \A j \in issued : j \in Nat /\ j < Id(lastTimestamp + 1, 0)
    BY <2>1, <2>2
  <2> QED BY <2>1, <2>2, <2>3
<1>4. CASE TilNextMillis
  <2>1. /\ clock > lastTimestamp /\ sequence = 0 /\ 0 \in 0 .. PerMilli - 1
        /\ Issue(clock, 0) /\ blocked' = FALSE /\ clock' = clock
    BY <1>4 DEF TilNextMillis
  <2> QED BY <1>2, <1>3, <2>1
<1>5. CASE NextId
  <2>1. ~ blocked /\ clock >= lastTimestamp /\ clock' = clock
    BY <1>5 DEF NextId, ClockIsFine
  <2>2. CASE clock # lastTimestamp
    <3>1. clock > lastTimestamp /\ 0 \in 0 .. PerMilli - 1
      BY <1>1, <2>1, <2>2
    <3>2. Issue(clock, 0) /\ blocked' = FALSE
      BY <1>5, <2>1, <2>2 DEF NextId
    <3> QED BY <1>2, <1>3, <2>1, <3>1, <3>2
  <2>3. CASE clock = lastTimestamp /\ (sequence + 1) % PerMilli # 0
    <3> DEFINE s == (sequence + 1) % PerMilli
    <3>1. s = sequence + 1 /\ s \in 0 .. PerMilli - 1
      <4>1. sequence + 1 \in 0 .. PerMilli
        BY <1>1
      <4>2. sequence + 1 # PerMilli
        BY <1>1, <2>3
      <4> QED BY <1>1, <4>1, <4>2
    <3>2. Issue(clock, s) /\ blocked' = FALSE
      BY <1>5, <2>1, <2>3 DEF NextId
    <3> HIDE DEF s
    <3>3. Id(clock, s) = Id(lastTimestamp, sequence) + 1 /\ Id(lastTimestamp, sequence) \in Nat
      BY <1>1, <2>3, <3>1 DEF Id
    <3>4. \A j \in issued : j < Id(clock, s)
      BY <2>1, <3>3
    <3> QED BY <1>2, <2>1, <3>1, <3>2, <3>4
  <2>4. CASE clock = lastTimestamp /\ (sequence + 1) % PerMilli = 0
    <3>1. blocked' = TRUE /\ sequence' = 0 /\ UNCHANGED <<lastTimestamp, issued>>
      BY <1>5, <2>4 DEF NextId
    <3>2. \A j \in issued : j < Id(lastTimestamp + 1, 0)
      <4>1. Id(lastTimestamp, sequence) < Id(lastTimestamp + 1, 0)
            /\ Id(lastTimestamp, sequence) \in Nat
        BY IdOrder
      <4>2. Id(lastTimestamp + 1, 0) \in Nat
        BY <1>1 DEF Id
      <4> QED BY <2>1, <4>1, <4>2
    <3>3. Id(lastTimestamp + 1, 0)' = Id(lastTimestamp + 1, 0)
      BY <3>1 DEF Id
    <3> QED BY <1>1, <2>1, <3>1, <3>2, <3>3 DEF IdIsNewest
  <2> QED BY <2>2, <2>3, <2>4
<1> QED BY <1>4, <1>5

\* An identifier is above all before it (nextId snowflake.h:56), for any number
\* of sequences and however the clock is set back and forth.
THEOREM IdentifiersIncrease == SpecIds => IdsIncrease
<1>1. InitIds => IdInv
  <2> SUFFICES ASSUME InitIds PROVE IdInv
    OBVIOUS
  <2>1. clock \in Nat /\ lastTimestamp \in Nat /\ sequence \in 0 .. PerMilli - 1
    BY PerMilliAssumption DEF InitIds
  <2>2. blocked = FALSE /\ issued = {}
    BY DEF InitIds
  <2> QED BY <2>1, <2>2, Zenon DEF IdInv
<1>2. IdInv /\ [NextIds]_idVars => IdInv' /\ [IdIsNewest]_idVars
  <2> SUFFICES ASSUME IdInv, [NextIds]_idVars PROVE IdInv' /\ [IdIsNewest]_idVars
    OBVIOUS
  <2>1. CASE ClockMoves
    BY <2>1 DEF ClockMoves, IdInv, IdIsNewest, Id
  <2>2. CASE NextId \/ TilNextMillis
    BY <2>2, NextIdStep
  <2>3. CASE UNCHANGED idVars
    BY <2>3 DEF idVars, IdInv, Id
  <2> QED BY <2>1, <2>2, <2>3 DEF NextIds
<1> QED BY <1>1, <1>2, PTL DEF SpecIds, IdsIncrease
=============================================================================
